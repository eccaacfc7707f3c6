--------------------------- MODULE SelectionRegister ---------------------------
(***************************************************************************)
(* What the author is promised about the adopted version of a chapter: a   *)
(* register that is moved one version at a time, never to what it already  *)
(* shows, and whose history keeps every value it ever had.                 *)
(***************************************************************************)
EXTENDS Naturals

CONSTANTS
    Values,   \* the candidates that can be adopted
    Nothing   \* shown while none is

VARIABLES
    pointer,  \* the current version and what it shows
    history   \* version and value of every move so far

register == <<pointer, history>>

Init ==
    /\ pointer = [version |-> 0, shows |-> Nothing]
    /\ history = {}

Move(v) ==
    /\ v # pointer.shows
    /\ pointer' = [version |-> pointer.version + 1, shows |-> v]
    /\ history' = history \cup {<<pointer.version + 1, v>>}

Next == \E v \in Values : Move(v)

Spec == Init /\ [][Next]_register
=============================================================================
