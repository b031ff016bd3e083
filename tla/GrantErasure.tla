----------------------------- MODULE GrantErasure -----------------------------
(***************************************************************************)
(* What the erasure of grants promises, without the rows, flags and jobs   *)
(* that do it (module AceOutbox):                                          *)
(*                                                                         *)
(*  - an order to erase a resource is closed for good, and only when both  *)
(*    stores hold nothing of what they held of the resource when the order *)
(*    was given;                                                           *)
(*  - a grant goes because a resource it is about was ordered, or because  *)
(*    somebody changes it;                                                 *)
(*  - it is taken off the list only when it gives no access any more;      *)
(*  - what is changed after an order is not owed to it, until the order is *)
(*    given again.                                                         *)
(***************************************************************************)
EXTENDS Integers

CONSTANTS
  Resource, Order,
  Grant        \* <<resource, subject>>

VARIABLES
  access,      \* grants that give access
  listed,      \* grants that are on the list
  open,        \* orders given
  closed,      \* orders carried out
  resourceOf,  \* the resource of an order
  excused,     \* <<o, g>>: grant g was changed after order o
  changing     \* grants somebody is about to change

stores == <<access, listed>>
orders == <<open, closed, resourceOf>>
vars == <<stores, orders, excused, changing>>

Given == open \cup closed

IsAbout(o, g) == resourceOf[o] \in {g[1], g[2]}

Owed(o) ==
  {g \in (access \cup listed) \ changing : IsAbout(o, g) /\ <<o, g>> \notin excused}

\* None of the orders there are is about the grant as it is from now on.
Excuse(g) == excused' = excused \cup {o \in Given : IsAbout(o, g)} \X {g}

Give(o, r) ==
  /\ o \notin Given
  /\ open' = open \cup {o}
  /\ resourceOf' = [resourceOf EXCEPT ![o] = r]
  /\ UNCHANGED <<stores, closed, excused, changing>>

GiveAgain(o) ==
  /\ o \in open
  /\ excused' = {x \in excused : x[1] # o}
  /\ UNCHANGED <<stores, orders, changing>>

Erase(o) ==
  /\ access' \subseteq access
  /\ \A g \in access \ access' : IsAbout(o, g)
  /\ UNCHANGED <<listed, orders, excused, changing>>

Unlist(o) ==
  /\ listed' \subseteq listed
  /\ \A g \in listed \ listed' :
       /\ IsAbout(o, g) /\ g \notin changing
       /\ g \in access => <<o, g>> \in excused
  /\ UNCHANGED <<access, orders, excused, changing>>

Close(o) ==
  /\ o \in open
  /\ Owed(o) = {}
  /\ open' = open \ {o}
  /\ closed' = closed \cup {o}
  /\ UNCHANGED <<stores, resourceOf, excused, changing>>

Change(g) ==
  /\ changing' = changing \cup {g}
  /\ UNCHANGED <<stores, orders, excused>>

SetAccess(g) ==
  /\ g \in changing
  /\ access' \in {access \cup {g}, access \ {g}}
  /\ Excuse(g)
  /\ UNCHANGED <<listed, orders, changing>>

Settle(g) ==
  /\ g \in changing
  /\ listed' \in {listed, listed \cup {g}, listed \ {g}}
  /\ changing' = changing \ {g}
  /\ Excuse(g)
  /\ UNCHANGED <<access, orders>>

Init ==
  /\ access \subseteq Grant /\ listed \subseteq access
  /\ open = {} /\ closed = {}
  /\ resourceOf \in [Order -> Resource \cup {"none"}]
  /\ excused = {} /\ changing = {}

Next ==
  \/ \E o \in Order, r \in Resource : Give(o, r)
  \/ \E o \in Given : GiveAgain(o) \/ Erase(o) \/ Unlist(o) \/ Close(o)
  \/ \E g \in Grant : Change(g) \/ SetAccess(g) \/ Settle(g)

Spec == Init /\ [][Next]_vars
=============================================================================
