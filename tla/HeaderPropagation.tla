------------------------- MODULE HeaderPropagation -------------------------
(***************************************************************************)
(* What the headers package promises to the services of a call tree,       *)
(* without contexts, metadata or names of keys.  Every handler has a view: *)
(* the root and the propagating headers go on to every service it calls,   *)
(* what it sets as outbound is what the callee finds inbound, and nothing  *)
(* inbound goes any further.                                               *)
(***************************************************************************)
EXTENDS Naturals, Sequences

CONSTANTS
  Messages,   \* names of the protobuf messages used as headers
  Data,       \* their encodings
  Absent      \* no header of that name

VARIABLE view  \* the headers that each handler has, in the order of the calls

Column == [Messages -> Data \cup {Absent}]
View == [root : Column, propagating : Column, inbound : Column, outbound : Column]
Blank == [m \in Messages |-> Absent]

\* A chain of calls starts at a service with nothing inbound.
Init ==
  \E v \in View : v.inbound = Blank /\ view = <<v>>

Set(i) ==
  \E m \in Messages, d \in Data :
    LET v == view[i]
    IN  \/ view' = [view EXCEPT ![i] = [v EXCEPT !.propagating = [v.propagating EXCEPT ![m] = d]]]
        \/ view' = [view EXCEPT ![i] = [v EXCEPT !.outbound = [v.outbound EXCEPT ![m] = d]]]

Call(i) ==
  view' = Append(view, [root |-> view[i].root, propagating |-> view[i].propagating,
                        inbound |-> view[i].outbound, outbound |-> Blank])

Next == \E i \in DOMAIN view : Set(i) \/ Call(i)

Spec == Init /\ [][Next]_view
=============================================================================
