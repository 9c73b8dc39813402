------------------------------ MODULE Delivery ------------------------------
(***************************************************************************)
(* What the forwarder promises, whatever buffers it keeps: an event handed *)
(* to it is held until the server has taken it or until it is discarded    *)
(* for a stated reason, it never just disappears; and the events it still  *)
(* holds reach the server in the order they were offered.  A discarded     *)
(* event may still arrive, late, from a connection that was carrying it.   *)
(***************************************************************************)
EXTENDS Naturals

CONSTANT Events   (* natural numbers, in the order they are offered      *)

VARIABLES
  held,       (* accepted, neither delivered nor discarded                 *)
  delivered,  (* taken by the server                                       *)
  discarded   (* given up, and not delivered                               *)

vars == <<held, delivered, discarded>>

Known == held \cup delivered \cup discarded

Init == held = {} /\ delivered = {} /\ discarded = {}

(* Accepting an event may cost older ones.                                 *)
Accept(e, dropped) ==
  /\ \A k \in Known : k < e
  /\ dropped \subseteq held
  /\ held' = (held \cup {e}) \ dropped
  /\ discarded' = discarded \cup dropped
  /\ UNCHANGED delivered

Discard(dropped) ==
  /\ dropped \subseteq held
  /\ held' = held \ dropped
  /\ discarded' = discarded \cup dropped
  /\ UNCHANGED delivered

Deliver(es) ==
  /\ es \subseteq held \cup discarded
  /\ \A e \in es \cap held, d \in delivered : d < e
  /\ delivered' = delivered \cup es
  /\ held' = held \ es
  /\ discarded' = discarded \ es

Next ==
  \/ \E e \in Events, dropped \in SUBSET held : Accept(e, dropped)
  \/ \E dropped \in SUBSET held : Discard(dropped)
  \/ \E es \in SUBSET (held \cup discarded) : Deliver(es)

Spec == Init /\ [][Next]_vars
=============================================================================
