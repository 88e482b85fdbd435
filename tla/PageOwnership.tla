--------------------------- MODULE PageOwnership ---------------------------
(***************************************************************************)
(* What the memory of processes promises, without addresses, page tables   *)
(* or failure paths: a page is free or held by one user; free pages are    *)
(* granted, held pages are released by their holder, and a user that built *)
(* up its memory hands all of it to one that has none.                     *)
(***************************************************************************)
CONSTANTS Pages, Users

VARIABLES
  free,        \* the free pages
  held         \* the pages each user holds

vars == <<free, held>>

Init ==
  /\ free \in SUBSET Pages
  /\ held = [u \in Users |-> {}]

\* Some free pages, those that are not free any more, go to u.
Grant(u) ==
  /\ free' \subseteq free
  /\ held' = [held EXCEPT ![u] = @ \cup (free \ free')]

\* Some pages of u, those that become free, leave it.
Release(u) ==
  /\ free \subseteq free' /\ free' \ free \subseteq held[u]
  /\ held' = [held EXCEPT ![u] = @ \ (free' \ free)]

HandOver(u, w) ==
  /\ u # w /\ held[w] = {}
  /\ held' = [held EXCEPT ![w] = held[u], ![u] = {}]
  /\ UNCHANGED free

Next ==
  \/ \E u \in Users : Grant(u) \/ Release(u)
  \/ \E u, w \in Users : HandOver(u, w)

Spec == Init /\ [][Next]_vars
=============================================================================
