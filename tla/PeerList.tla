------------------------------ MODULE PeerList ------------------------------
(***************************************************************************)
(* The list of peers the TUI keeps (ui/app.go): Discovery's callbacks      *)
(* change it, App's keys read it.                                          *)
(***************************************************************************)
EXTENDS Naturals, Sequences, FiniteSets

CONSTANT None    (* an empty field                                          *)
VARIABLE rows    (* m.peers                                                 *)

Or(new, old) == IF new = None THEN old ELSE new

samePeer(a, b) ==
  IF a.id # None /\ b.id # None THEN a.id = b.id
  ELSE \/ a.nick # None /\ a.nick = b.nick
       \/ a.addrs # None /\ a.addrs = b.addrs

First(indices) == CHOOSE i \in indices : \A j \in indices : i <= j

(* What info says, and what it leaves open as it was.                      *)
Updated(old, info) ==
  [id |-> Or(info.id, old.id), nick |-> Or(info.nick, old.nick),
   addrs |-> Or(info.addrs, old.addrs), source |-> Or(info.source, old.source)]

(* The first row of the same peer is updated, else a row is added.         *)
appendOrUpdate(list, info) ==
  LET same == {i \in DOMAIN list : samePeer(list[i], info)}
  IN IF same = {} THEN Append(list, info)
     ELSE [list EXCEPT ![First(same)] = Updated(@, info)]

(* A loop that appends what it keeps: the positions in kept, in order.     *)
Picked(list, kept) ==
  [n \in 1..Cardinality(kept) |->
     list[CHOOSE i \in kept : Cardinality({j \in kept : j <= i}) = n]]

removePeer(list, id) == Picked(list, {i \in DOMAIN list : list[i].id # id})
=============================================================================
