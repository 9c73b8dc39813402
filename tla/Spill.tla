------------------------------- MODULE Spill -------------------------------
(***************************************************************************)
(* The two buffer tiers of the forwarder, as operators on values: the redb *)
(* table behind plugins/plugin-transport/src/spill.rs and the batching     *)
(* predicates of actor.rs.                                                 *)
(*                                                                         *)
(* The table is a function from sequence numbers to events.  An event is a *)
(* natural number (its position in the order in which the bus offered it); *)
(* Size gives the length of its JSON encoding, which is both its footprint *)
(* on disk and what estimate_size returns.  The counter `bytes` of the     *)
(* struct is the sum of the encodings of the rows on every path of the     *)
(* code, so it is derived here (Bytes) instead of kept.                    *)
(***************************************************************************)
EXTENDS Naturals, Sequences, FiniteSets, FiniteSetsExt

CONSTANTS
  Size,            (* Size[e]: encoded length of event e                   *)
  SpillMaxBytes,   (* spill_max_bytes: retention cap of the disk tier      *)
  BatchMaxEvents,  (* batch_max_events                                     *)
  BatchMaxBytes    (* batch_max_bytes                                      *)

Before(rows, q) == {p \in DOMAIN rows : p < q}
Bytes(rows)     == MapThenSumSet(LAMBDA q : Size[rows[q]], DOMAIN rows)
NoRows          == [q \in {} |-> 0]

(* One past the largest key, 0 for an empty table: Spill::open.            *)
NextKey(rows) == IF DOMAIN rows = {} THEN 0 ELSE Max(DOMAIN rows) + 1

(* Spill::push inserts each event at the write cursor ...                  *)
Appended(rows, w, evs) ==
  [q \in DOMAIN rows \cup w .. (w + Len(evs) - 1) |->
      IF q \in DOMAIN rows THEN rows[q] ELSE evs[q - w + 1]]

(* ... and then enforces the cap: Spill::enforce_cap deletes from the      *)
(* oldest row until what is retained fits, so a row survives exactly when  *)
(* it and everything after it fit.                                         *)
Capped(rows) ==
  Restrict(rows, {q \in DOMAIN rows :
                    Bytes(Restrict(rows, DOMAIN rows \ Before(rows, q))) <= SpillMaxBytes})

Pushed(rows, w, evs) == IF evs = <<>> THEN rows ELSE Capped(Appended(rows, w, evs))

(* Mutated form: an ack that empties the table.                            *)
AckedThrough_All(rows, batch) == NoRows

(* Spill::ack_through: delete every row up to the largest key of a batch.  *)
AckedThrough(rows, batch) ==
  Restrict(rows, {q \in DOMAIN rows : \A h \in DOMAIN batch : h < q})

(* Spill::drain_batch (nothing is removed): from the oldest row on, until  *)
(* one has no room; the first row is returned whatever its size.           *)
RowFits(rows, q) ==
  \/ Before(rows, q) = {}
  \/ /\ Cardinality(Before(rows, q)) < BatchMaxEvents
     /\ Bytes(Restrict(rows, Before(rows, q) \cup {q})) <= BatchMaxBytes

Drained(rows) ==
  Restrict(rows, {q \in DOMAIN rows : \A p \in Before(rows, q) \cup {q} : RowFits(rows, p)})

(* batch_has_room and plan_batch: how many of the candidate events, taken  *)
(* in order, fit on top of a batch; all the later ones overflow.           *)
SeqBytes(evs) == MapThenSumSet(LAMBDA i : Size[evs[i]], DOMAIN evs)

HasRoom(batch, taken) ==
  \/ DOMAIN batch = {} /\ Len(taken) = 1
  \/ /\ Cardinality(DOMAIN batch) + Len(taken) <= BatchMaxEvents
     /\ Bytes(batch) + SeqBytes(taken) <= BatchMaxBytes

KeepLen(batch, cands) ==
  Max({k \in 0 .. Len(cands) :
         \A i \in 1 .. k : HasRoom(batch, SubSeq(cands, 1, i))})

(* The condition under which try_flush tops a batch up from the ring.      *)
CanTopUp(batch) ==
  /\ Cardinality(DOMAIN batch) < BatchMaxEvents
  /\ Bytes(batch) < BatchMaxBytes
=============================================================================
