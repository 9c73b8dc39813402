--------------------------- MODULE ForwarderProofs ---------------------------
(* Theorems of Forwarder, for any sizes of events, batches and buffers and *)
(* any number of sessions, restarts and disk faults.                       *)
EXTENDS Forwarder, SequenceFacts, FiniteSetTheorems, WellFoundedInduction

(***************************************************************************)
(* Types and what holds in each phase.                                     *)
(***************************************************************************)
RowSets == UNION {[D -> Events] : D \in SUBSET Nat}
Batches == [id : Nat, rows : RowSets]

Types ==
  /\ phase \in Phases /\ shutdown \in BOOLEAN
  /\ ring \in Seq(Events) /\ Len(ring) <= RingCapacity /\ overflow \in Seq(Events)
  /\ write_cursor \in Nat /\ rows \in RowSets /\ batch \in RowSets
  /\ sess \in 0 .. MaxSessions /\ sent \in Nat
  /\ pending \in Seq(Batches) /\ conns \in [Sessions -> Seq(Batches)] /\ acks \in Seq(Nat)
  /\ delivered \subseteq Events /\ offered \in 0 .. MaxEvents /\ fate \in [Events -> Fates]
  /\ starts \in Nat /\ faults \in Nat

(* Where the process has nothing in its hands, and every key ever in use   *)
(* lies below the write cursor.                                            *)
Phased ==
  /\ \A q \in DOMAIN rows : q < write_cursor
  /\ phase \in InSession => sess \in Sessions
  /\ phase \notin InSession => pending = <<>> /\ acks = <<>>
  /\ phase \notin {"topup", "spilling", "sending"} => batch = NoRows
  /\ phase = "topup" => batch = Drained(rows) \/ (batch = NoRows /\ "drain" \in Faulty)
  /\ phase # "spilling" => overflow = <<>>

(***************************************************************************)
(* An ack deletes only what the server has taken.                          *)
(***************************************************************************)
(* The batches whose acknowledgement would still be believed.              *)
Open == {batch} \cup {b.rows : b \in Elems(pending)}

(* Of the rows up to the last of such a batch none is missing from it: an  *)
(* ack_through deletes no row but the batch's own.                         *)
Covering ==
  \A b \in Open : \A h \in DOMAIN b :
    /\ h < write_cursor
    /\ \A q \in DOMAIN rows : q <= h => q \in DOMAIN b /\ b[q] = rows[q]

(* A batch id names one batch, and an ack in transit one the server took.  *)
Named ==
  /\ \A b \in AllBatches : b.id < sent
  /\ \A b, c \in AllBatches : b.id = c.id => b = c
  /\ \A k \in Elems(acks) : k < sent
  /\ \A k \in Elems(acks) : \A b \in Elems(pending) : b.id = k => Elems(b.rows) \subseteq delivered

(***************************************************************************)
(* Order.                                                                  *)
(***************************************************************************)
Ascending(f) == \A p, q \in DOMAIN f : p < q => f[p] < f[q]
AllBelow(es, fs) == \A e \in es, f \in fs : e < f

Carried == Elems(batch) \cup UNION {Elems(b.rows) : b \in AllBatches}

Ordered ==
  /\ Ascending(ring) /\ Ascending(overflow) /\ Ascending(rows)
  /\ Ascending(batch) /\ \A b \in AllBatches : Ascending(b.rows)
  /\ AllBelow(Elems(overflow), Elems(ring))
  /\ AllBelow(Elems(rows) \cup Carried, Elems(overflow) \cup Elems(ring))

Offered ==
  /\ Buffered \cup Carried \cup delivered \subseteq 1 .. offered
  /\ \A e \in Events : e > offered => fate[e] = "none"

Closed(es) ==
  \A d \in es : \A e \in Events : e < d => e \in es \cup delivered \/ fate[e] # "none"

(* Nothing older than what a batch carries, or the server has, is left     *)
(* behind.                                                                 *)
Complete ==
  /\ Closed(delivered) /\ Closed(Elems(batch))
  /\ \A b \in AllBatches : Closed(Elems(b.rows))

(* The only fate an event can meet while it is on disk or being carried.   *)
Fated ==
  /\ \A e \in Elems(rows) \cup Carried : fate[e] \in {"none", "spill_cap"}
  /\ \A e \in Elems(overflow) \cup Elems(ring) : fate[e] = "none"

SmallBatches == IsFiniteSet(DOMAIN batch) /\ Cardinality(DOMAIN batch) <= BatchMaxEvents

(***************************************************************************)
(* The table, as a function on a set of keys.                              *)
(***************************************************************************)
LEMMA RowSetsMean ==
  /\ \A f \in RowSets : DOMAIN f \subseteq Nat /\ f = [q \in DOMAIN f |-> f[q]] /\ \A q \in DOMAIN f : f[q] \in Events
  /\ \A D \in SUBSET Nat : \A f \in [D -> Events] : f \in RowSets
BY DEF RowSets

LEMMA NoRowsFacts == NoRows \in RowSets /\ DOMAIN NoRows = {} /\ Elems(NoRows) = {}
<1>1. NoRows \in [{} -> Events] /\ DOMAIN NoRows = {}
  BY DEF NoRows
<1>2. QED
  BY <1>1, RowSetsMean DEF Elems

LEMMA RestrictFacts ==
  ASSUME NEW f \in RowSets, NEW S \in SUBSET DOMAIN f
  PROVE  /\ Restrict(f, S) \in RowSets /\ DOMAIN Restrict(f, S) = S
         /\ \A q \in S : Restrict(f, S)[q] = f[q]
         /\ Elems(Restrict(f, S)) \subseteq Elems(f)
<1>1. DOMAIN f \subseteq Nat /\ \A q \in DOMAIN f : f[q] \in Events
  BY RowSetsMean
<1>2. Restrict(f, S) = [q \in S |-> f[q]]
  BY DEF Restrict
<1>3. Restrict(f, S) \in [S -> Events]
  BY <1>1, <1>2
<1>4. Restrict(f, S) \in RowSets
  BY <1>1, <1>3, RowSetsMean
<1>5. QED
  BY <1>2, <1>4 DEF Elems

(* New rows go above the old ones, in the order of the events.             *)
LEMMA AppendedFacts ==
  ASSUME NEW f \in RowSets, NEW w \in Nat, NEW evs \in Seq(Events), \A q \in DOMAIN f : q < w
  PROVE  /\ Appended(f, w, evs) \in RowSets
         /\ \A q \in DOMAIN f : q \in DOMAIN Appended(f, w, evs) /\ Appended(f, w, evs)[q] = f[q]
         /\ \A i \in DOMAIN evs :
              w + i - 1 \in DOMAIN Appended(f, w, evs) /\ Appended(f, w, evs)[w + i - 1] = evs[i]
         /\ \A q \in DOMAIN Appended(f, w, evs) \ DOMAIN f : \E i \in DOMAIN evs : q = w + i - 1
         /\ \A q \in DOMAIN Appended(f, w, evs) : q < w + Len(evs)
         /\ Elems(Appended(f, w, evs)) = Elems(f) \cup Elems(evs)
         /\ evs = <<>> => Appended(f, w, evs) = f
<1> DEFINE g == Appended(f, w, evs)
           n == Len(evs)
<1>1. DOMAIN f \subseteq Nat /\ f = [q \in DOMAIN f |-> f[q]] /\ \A q \in DOMAIN f : f[q] \in Events
  BY RowSetsMean
<1>2. n \in Nat /\ DOMAIN evs = 1 .. n /\ \A i \in 1 .. n : evs[i] \in Events
  <2> HIDE DEF Events
  <2>1. QED
    OBVIOUS
<1>3. g = [q \in DOMAIN f \cup w .. (w + n - 1) |-> IF q \in DOMAIN f THEN f[q] ELSE evs[q - w + 1]]
  BY DEF Appended
<1>33. evs = <<>> => n = 0
  OBVIOUS
<1> HIDE DEF g, n
<1>4. \A q \in w .. (w + n - 1) : q \in Nat /\ q - w + 1 \in 1 .. n /\ q \notin DOMAIN f /\ q = w + (q - w + 1) - 1
  BY <1>1, <1>2
<1>5. /\ DOMAIN g = DOMAIN f \cup w .. (w + n - 1) /\ \A q \in DOMAIN f : g[q] = f[q]
      /\ \A q \in w .. (w + n - 1) : g[q] = evs[q - w + 1]
  BY <1>3, <1>4
<1>6. g \in [DOMAIN f \cup w .. (w + n - 1) -> Events] /\ DOMAIN f \cup w .. (w + n - 1) \in SUBSET Nat
  BY <1>1, <1>2, <1>3, <1>4
<1>7. g \in RowSets
  BY <1>6, RowSetsMean
<1>8. \A i \in DOMAIN evs : w + i - 1 \in w .. (w + n - 1) /\ (w + i - 1) - w + 1 = i
  BY <1>2
<1>9. \A i \in DOMAIN evs : w + i - 1 \in DOMAIN g /\ g[w + i - 1] = evs[i]
  BY <1>5, <1>8
<1>10. \A q \in DOMAIN g \ DOMAIN f : \E i \in DOMAIN evs : q = w + i - 1
  BY <1>2, <1>4, <1>5
<1>11. \A q \in DOMAIN g : q < w + n
  BY <1>1, <1>2, <1>5
<1>12. Elems(g) = Elems(f) \cup Elems(evs)
  <2>1. Elems(evs) \subseteq Elems(g) /\ Elems(f) \subseteq Elems(g)
    BY <1>5, <1>9 DEF Elems
  <2>2. ASSUME NEW q \in DOMAIN g PROVE g[q] \in Elems(f) \cup Elems(evs)
    <3>1. CASE q \in DOMAIN f
      BY <1>5, <3>1 DEF Elems
    <3>2. CASE q \notin DOMAIN f
      <4>1. PICK i \in DOMAIN evs : q = w + i - 1
        BY <1>10, <3>2
      <4>2. QED
        BY <1>9, <4>1 DEF Elems
    <3>3. QED
      BY <3>1, <3>2
  <2>3. QED
    BY <2>1, <2>2 DEF Elems
<1>13. ASSUME evs = <<>> PROVE g = f
  <2>1. w .. (w + n - 1) = {}
    BY <1>13, <1>33
  <2>2. g = [q \in DOMAIN f |-> f[q]]
    BY <1>3, <2>1
  <2>3. QED
    BY <1>1, <2>2
<1>14. QED
  BY <1>5, <1>7, <1>9, <1>10, <1>11, <1>12, <1>13 DEF g, n

(* What the rows then hold, the empty append, and the keys it adds.        *)
LEMMA AppendedElems ==
  ASSUME NEW f \in RowSets, NEW w \in Nat, NEW evs \in Seq(Events), \A q \in DOMAIN f : q < w
  PROVE  Elems(Appended(f, w, evs)) = Elems(f) \cup Elems(evs)
BY AppendedFacts

LEMMA AppendedNothing ==
  ASSUME NEW f \in RowSets, NEW w \in Nat, NEW evs \in Seq(Events), \A q \in DOMAIN f : q < w, evs = <<>>
  PROVE  Appended(f, w, evs) = f
BY AppendedFacts

LEMMA AppendedKeys ==
  ASSUME NEW f \in RowSets, NEW w \in Nat, NEW evs \in Seq(Events), \A q \in DOMAIN f : q < w
  PROVE  \A q \in DOMAIN Appended(f, w, evs) \ DOMAIN f : \E i \in DOMAIN evs : q = w + i - 1
BY AppendedFacts

(* What survives the cap was there.                                        *)
LEMMA PushedFacts ==
  ASSUME NEW f \in RowSets, NEW w \in Nat, NEW evs \in Seq(Events), \A q \in DOMAIN f : q < w
  PROVE  /\ Pushed(f, w, evs) \in RowSets
         /\ DOMAIN Pushed(f, w, evs) \subseteq DOMAIN Appended(f, w, evs)
         /\ \A q \in DOMAIN Pushed(f, w, evs) : Pushed(f, w, evs)[q] = Appended(f, w, evs)[q]
<1>1. Appended(f, w, evs) \in RowSets /\ (evs = <<>> => Appended(f, w, evs) = f)
  BY AppendedFacts
<1>2. CASE evs = <<>>
  BY <1>1, <1>2 DEF Pushed
<1>3. CASE evs # <<>>
  <2>1. Pushed(f, w, evs) = Capped(Appended(f, w, evs))
    BY <1>3 DEF Pushed
  <2> DEFINE g == Appended(f, w, evs)
             S == {q \in DOMAIN g : Bytes(Restrict(g, DOMAIN g \ Before(g, q))) <= SpillMaxBytes}
  <2>2. Capped(g) = Restrict(g, S) /\ S \in SUBSET DOMAIN g
    BY DEF Capped
  <2> HIDE DEF g, S
  <2>3. /\ Restrict(g, S) \in RowSets /\ DOMAIN Restrict(g, S) = S
        /\ \A q \in S : Restrict(g, S)[q] = g[q]
    BY <1>1, <2>2, RestrictFacts DEF g
  <2>4. QED
    BY <2>1, <2>2, <2>3 DEF g
<1>4. QED
  BY <1>2, <1>3

LEMMA AckedFacts ==
  ASSUME NEW f \in RowSets, NEW b
  PROVE  /\ AckedThrough(f, b) \in RowSets
         /\ DOMAIN AckedThrough(f, b) = {q \in DOMAIN f : \A h \in DOMAIN b : h < q}
         /\ \A q \in DOMAIN AckedThrough(f, b) : AckedThrough(f, b)[q] = f[q]
<1> DEFINE S == {q \in DOMAIN f : \A h \in DOMAIN b : h < q}
<1>1. AckedThrough(f, b) = Restrict(f, S) /\ S \in SUBSET DOMAIN f
  BY DEF AckedThrough
<1> HIDE DEF S
<1>2. QED
  BY <1>1, RestrictFacts DEF S

LEMMA AckedRows ==
  ASSUME NEW f \in RowSets, NEW b, NEW g \in {f, AckedThrough(f, b)}
  PROVE  g \in RowSets /\ \A q \in DOMAIN g : q \in DOMAIN f /\ g[q] = f[q]
<1>1. CASE g = f
  BY <1>1
<1>2. CASE g = AckedThrough(f, b)
  <2>0. /\ AckedThrough(f, b) \in RowSets
        /\ DOMAIN AckedThrough(f, b) = {q \in DOMAIN f : \A h \in DOMAIN b : h < q}
        /\ \A q \in DOMAIN AckedThrough(f, b) : AckedThrough(f, b)[q] = f[q]
    BY AckedFacts
  <2>1. /\ g \in RowSets /\ DOMAIN g = {q \in DOMAIN f : \A h \in DOMAIN b : h < q}
        /\ \A q \in DOMAIN g : g[q] = f[q]
    BY <1>2, <2>0
  <2>2. QED
    BY <2>1
<1>3. QED
  BY <1>1, <1>2

(* A drained batch leaves out no row below its last.                       *)
LEMMA DrainedFacts ==
  ASSUME NEW f \in RowSets
  PROVE  /\ Drained(f) \in RowSets /\ DOMAIN Drained(f) \subseteq DOMAIN f
         /\ \A q \in DOMAIN Drained(f) : Drained(f)[q] = f[q]
         /\ \A q \in DOMAIN f : \A h \in DOMAIN Drained(f) : q <= h => q \in DOMAIN Drained(f)
         /\ \A q \in DOMAIN Drained(f) : RowFits(f, q)
         /\ \A q \in DOMAIN f \ DOMAIN Drained(f) :
              \E p \in DOMAIN f : p <= q /\ p \notin DOMAIN Drained(f) /\ ~RowFits(f, p)
<1> DEFINE S == {q \in DOMAIN f : \A p \in Before(f, q) \cup {q} : RowFits(f, p)}
<1>1. Drained(f) = Restrict(f, S) /\ S \in SUBSET DOMAIN f
  BY DEF Drained
<1>2. DOMAIN f \subseteq Nat
  BY RowSetsMean
<1>3. \A q \in DOMAIN f : \A h \in S : q <= h => q \in S
  BY <1>2 DEF Before
<1>4. \A q \in S : RowFits(f, q)
  OBVIOUS
<1>5. \A q \in DOMAIN f \ S : \E p \in DOMAIN f : p <= q /\ p \notin S /\ ~RowFits(f, p)
  BY <1>2 DEF Before
<1> HIDE DEF S
<1>6. /\ Restrict(f, S) \in RowSets /\ DOMAIN Restrict(f, S) = S
      /\ \A q \in S : Restrict(f, S)[q] = f[q]
  BY <1>1, RestrictFacts
<1>7. QED
  BY <1>1, <1>3, <1>4, <1>5, <1>6

(***************************************************************************)
(* Greatest and least elements, and the ring cut in pieces.                *)
(***************************************************************************)
LEMMA LeastElement ==
  ASSUME NEW T \in SUBSET Nat, T # {}
  PROVE  \E n \in T : \A m \in T : n <= m
<1>1. IsWellFoundedOn(OpToRel(<, Nat), Nat)
  BY NatLessThanWellFounded
<1>2. PICK n \in T : \A m \in T : ~(<<m, n>> \in OpToRel(<, Nat))
  BY <1>1, WFMin
<1>3. \A m \in T : ~(m < n)
  BY <1>2 DEF OpToRel
<1>4. QED
  BY <1>3

LEMMA GreatestElement ==
  ASSUME NEW S \in SUBSET Nat, S # {}, NEW n \in Nat, \A x \in S : x <= n
  PROVE  Max(S) \in S /\ \A x \in S : x <= Max(S)
<1> DEFINE T == {m \in Nat : \A x \in S : x <= m}
<1>1. T \in SUBSET Nat /\ T # {}
  OBVIOUS
<1>2. PICK m \in T : \A k \in T : m <= k
  <2> HIDE DEF T
  <2>1. QED
    BY <1>1, LeastElement
<1>3. m \in S
  <2> SUFFICES ASSUME m \notin S PROVE FALSE
    OBVIOUS
  <2>1. m \in Nat /\ \A x \in S : x \in Nat /\ x < m
    OBVIOUS
  <2>2. m - 1 \in Nat
    <3>1. PICK x \in S : TRUE
      OBVIOUS
    <3>2. x \in Nat /\ x < m
      BY <2>1, <3>1
    <3>3. QED
      BY <2>1, <3>2
  <2>22. \A x \in S : x <= m - 1
    BY <2>1
  <2>3. m - 1 \in T
    BY <2>2, <2>22
  <2>4. QED
    BY <1>2, <2>3
<1>4. \E x \in S : \A y \in S : x >= y
  BY <1>3
<1>5. Max(S) \in S /\ \A y \in S : Max(S) >= y
  BY <1>4 DEF Max
<1>6. QED
  BY <1>5

LEMMA NextKeyFacts ==
  ASSUME NEW f \in RowSets, NEW w \in Nat, \A q \in DOMAIN f : q < w
  PROVE  NextKey(f) \in Nat /\ \A q \in DOMAIN f : q < NextKey(f)
<1>1. DOMAIN f \in SUBSET Nat
  BY RowSetsMean
<1>2. CASE DOMAIN f = {}
  BY <1>2 DEF NextKey
<1>3. CASE DOMAIN f # {}
  <2>1. \A x \in DOMAIN f : x <= w
    BY <1>1
  <2>2. Max(DOMAIN f) \in DOMAIN f /\ \A x \in DOMAIN f : x <= Max(DOMAIN f)
    BY <1>1, <1>3, <2>1, GreatestElement
  <2>3. NextKey(f) = Max(DOMAIN f) + 1
    BY <1>3 DEF NextKey
  <2>4. QED
    BY <1>1, <2>2, <2>3
<1>4. QED
  BY <1>2, <1>3

LEMMA KeepLenFacts ==
  ASSUME NEW b, NEW s \in Seq(Events)
  PROVE  /\ KeepLen(b, s) \in 0 .. Len(s)
         /\ \A i \in 1 .. KeepLen(b, s) : HasRoom(b, SubSeq(s, 1, i))
<1> DEFINE S == {k \in 0 .. Len(s) : \A i \in 1 .. k : HasRoom(b, SubSeq(s, 1, i))}
<1>1. Len(s) \in Nat
  OBVIOUS
<1>2. S \in SUBSET Nat /\ 0 \in S /\ \A k \in S : k <= Len(s)
  BY <1>1
<1>3. KeepLen(b, s) = Max(S)
  BY DEF KeepLen
<1>4. Max(S) \in S
  <2> HIDE DEF S
  <2>1. QED
    BY <1>1, <1>2, GreatestElement
<1>5. QED
  BY <1>3, <1>4

LEMMA ElemsIsRange == \A s : Elems(s) = Range(s)
BY DEF Elems, Range

(* A ring cut in three: what joins the batch, what overflows, what stays.  *)
LEMMA SplitFacts ==
  ASSUME NEW r \in Seq(Events), NEW t \in 0 .. Len(r), NEW k \in 0 .. t
  PROVE  /\ SubSeq(SubSeq(r, 1, t), 1, k) \in Seq(Events) /\ Len(SubSeq(SubSeq(r, 1, t), 1, k)) = k
         /\ SubSeq(SubSeq(r, 1, t), k + 1, t) \in Seq(Events)
         /\ Len(SubSeq(SubSeq(r, 1, t), k + 1, t)) = t - k
         /\ SubSeq(r, t + 1, Len(r)) \in Seq(Events) /\ Len(SubSeq(r, t + 1, Len(r))) = Len(r) - t
         /\ SubSeq(r, 1, t) \in Seq(Events) /\ Len(SubSeq(r, 1, t)) = t
         /\ \A i \in 1 .. k : SubSeq(SubSeq(r, 1, t), 1, k)[i] = r[i]
         /\ \A i \in 1 .. t - k : SubSeq(SubSeq(r, 1, t), k + 1, t)[i] = r[k + i]
         /\ \A i \in 1 .. Len(r) - t : SubSeq(r, t + 1, Len(r))[i] = r[t + i]
<1> HIDE DEF Events
<1> DEFINE c == SubSeq(r, 1, t)
<1>1. c \in Seq(Events) /\ Len(c) = t /\ \A i \in 1 .. t : c[i] = r[i]
  OBVIOUS
<1>2. /\ SubSeq(r, t + 1, Len(r)) \in Seq(Events) /\ Len(SubSeq(r, t + 1, Len(r))) = Len(r) - t
      /\ \A i \in 1 .. Len(r) - t : SubSeq(r, t + 1, Len(r))[i] = r[t + i]
  OBVIOUS
<1> HIDE DEF c
<1>3. SubSeq(c, 1, k) \in Seq(Events) /\ Len(SubSeq(c, 1, k)) = k /\ \A i \in 1 .. k : SubSeq(c, 1, k)[i] = c[i]
  BY <1>1
<1>4. /\ SubSeq(c, k + 1, t) \in Seq(Events) /\ Len(SubSeq(c, k + 1, t)) = t - k
      /\ \A i \in 1 .. t - k : SubSeq(c, k + 1, t)[i] = c[k + i]
  BY <1>1
<1>5. /\ \A i \in 1 .. k : SubSeq(c, 1, k)[i] = r[i]
      /\ \A i \in 1 .. t - k : SubSeq(c, k + 1, t)[i] = r[k + i]
  <2>1. \A i \in 1 .. k : i \in 1 .. t
    OBVIOUS
  <2>2. \A i \in 1 .. t - k : k + i \in 1 .. t
    OBVIOUS
  <2>3. QED
    BY <1>1, <1>3, <1>4, <2>1, <2>2
<1>6. QED
  BY <1>1, <1>2, <1>3, <1>4, <1>5 DEF c

(***************************************************************************)
(* What a push does, whether it succeeds or fails.                         *)
(***************************************************************************)
LEMMA PushRows ==
  ASSUME NEW evs \in Seq(Events), write_cursor \in Nat, rows \in RowSets, faults \in Nat,
         \A q \in DOMAIN rows : q < write_cursor,
         PushTo(evs) \/ PushFails(evs)
  PROVE  /\ rows' \in RowSets /\ write_cursor' \in Nat /\ write_cursor <= write_cursor'
         /\ faults' \in {faults, faults + 1}
         /\ \A q \in DOMAIN rows' : q < write_cursor'
         /\ \A q \in DOMAIN rows' :
              \/ q \in DOMAIN rows /\ rows'[q] = rows[q]
              \/ write_cursor <= q /\ \E i \in DOMAIN evs : q = write_cursor + i - 1 /\ rows'[q] = evs[i]
         /\ Elems(rows') \subseteq Elems(rows) \cup Elems(evs)
         /\ evs = <<>> => rows' = rows /\ write_cursor' = write_cursor
<1> DEFINE w == write_cursor
           n == Len(evs)
           g == Appended(rows, w, evs)
           h == Pushed(rows, w, evs)
<1>0. DOMAIN rows \subseteq Nat /\ n \in Nat /\ (evs = <<>> <=> n = 0) /\ DOMAIN evs = 1 .. n
  <2> HIDE DEF Events
  <2>1. QED
    BY RowSetsMean
<1>1. /\ g \in RowSets
      /\ \A q \in DOMAIN rows : q \in DOMAIN g /\ g[q] = rows[q]
      /\ \A i \in DOMAIN evs : w + i - 1 \in DOMAIN g /\ g[w + i - 1] = evs[i]
      /\ \A q \in DOMAIN g \ DOMAIN rows : \E i \in DOMAIN evs : q = w + i - 1
      /\ \A q \in DOMAIN g : q < w + n
      /\ Elems(g) = Elems(rows) \cup Elems(evs)
  BY AppendedFacts
<1>2. /\ h \in RowSets /\ DOMAIN h \subseteq DOMAIN g /\ \A q \in DOMAIN h : h[q] = g[q]
      /\ evs = <<>> => h = rows
  BY PushedFacts DEF Pushed
<1>3. \/ rows' = h /\ w' = w + n /\ faults' = faults
      \/ evs # <<>> /\ rows' = rows /\ w' \in w .. (w + n) /\ faults' = faults + 1
      \/ evs # <<>> /\ rows' = g /\ w' = w + n /\ faults' = faults + 1
  BY DEF PushTo, PushFails, Fault
<1> HIDE DEF g, h, n
<1>4. w' \in Nat /\ w <= w' /\ faults' \in {faults, faults + 1} /\ rows' \in RowSets
  BY <1>0, <1>1, <1>2, <1>3
<1>5. rows' = rows \/ (w' = w + n /\ DOMAIN rows' \subseteq DOMAIN g /\ \A q \in DOMAIN rows' : rows'[q] = g[q])
  BY <1>1, <1>2, <1>3
<1>6. CASE rows' = rows
  BY <1>0, <1>2, <1>3, <1>4, <1>6
<1>7. CASE w' = w + n /\ DOMAIN rows' \subseteq DOMAIN g /\ \A q \in DOMAIN rows' : rows'[q] = g[q]
  <2>2. ASSUME NEW q \in DOMAIN rows'
        PROVE  \/ q \in DOMAIN rows /\ rows'[q] = rows[q]
               \/ w <= q /\ \E i \in DOMAIN evs : q = w + i - 1 /\ rows'[q] = evs[i]
    <3>1. CASE q \in DOMAIN rows
      BY <1>1, <1>7, <3>1
    <3>2. CASE q \notin DOMAIN rows
      <4>1. PICK i \in DOMAIN evs : q = w + i - 1
        BY <1>1, <1>7, <3>2
      <4>2. QED
        BY <1>0, <1>1, <1>7, <4>1
    <3>3. QED
      BY <3>1, <3>2
  <2>3. \A q \in DOMAIN rows' : q < w'
    BY <1>1, <1>7
  <2>4. Elems(rows') \subseteq Elems(g)
    BY <1>7 DEF Elems
  <2>5. evs = <<>> => rows' = rows /\ w' = w
    BY <1>0, <1>2, <1>3
  <2>6. QED
    BY <1>1, <1>4, <2>2, <2>3, <2>4, <2>5
<1>8. QED
  BY <1>5, <1>6, <1>7

LEMMA PushFates ==
  ASSUME NEW evs, fate \in [Events -> Fates], PushLoss(evs), faults \in Nat,
         faults' = faults \/ faults' = faults + 1
  PROVE  /\ fate' \in [Events -> Fates]
         /\ \A e \in Events : fate[e] # "none" \/ e \in Elems(rows') => fate'[e] = fate[e]
         /\ \A e \in Events : e \notin Elems(rows) \cup Elems(evs) => fate'[e] = fate[e]
         /\ \A e \in Events : e \in Elems(rows) \cup Elems(evs) =>
              e \in Elems(rows') \/ fate'[e] # "none"
         /\ \A e \in Events : e \notin Elems(evs) => fate'[e] \in {fate[e], "spill_cap"}
         /\ faults' = faults => \A e \in Events : fate'[e] \in {fate[e], "spill_cap"}
<1>1. \A e \in Events :
        fate'[e] = IF fate[e] # "none" \/ e \notin (Elems(rows) \cup Elems(evs)) \ Elems(rows') THEN fate[e]
                   ELSE IF e \in Elems(evs) /\ faults' > faults THEN "disk_error"
                   ELSE "spill_cap"
  BY DEF PushLoss
<1>2. fate' \in [Events -> Fates]
  BY DEF PushLoss, Fates
<1>3. faults' = faults => ~(faults' > faults)
  OBVIOUS
<1>4. QED
  BY <1>1, <1>2, <1>3

(***************************************************************************)
(* Types and phases are kept.                                              *)
(***************************************************************************)
TypeInv == Types /\ Phased

LEMMA InitTypes == Init => TypeInv
<1> SUFFICES ASSUME Init PROVE TypeInv
  OBVIOUS
<1>1. \A S : <<>> \in Seq(S) /\ Len(<<>>) = 0
  OBVIOUS
<1>2. 0 \in 0 .. MaxSessions /\ 0 \in 0 .. MaxEvents /\ 0 <= RingCapacity
  BY ForwarderAssumption
<1>3. conns \in [Sessions -> Seq(Batches)]
  BY <1>1 DEF Init
<1>4. Types
  BY <1>1, <1>2, <1>3, NoRowsFacts DEF Init, Types, Phases, Fates
<1>5. Phased
  BY NoRowsFacts DEF Init, Phased, InSession
<1>6. QED
  BY <1>4, <1>5 DEF TypeInv

(* What each of the two cuts of TopUp does.                                *)
LEMMA TopUpCuts ==
  ASSUME TypeInv, TopUp
  PROVE  \/ UNCHANGED <<ring, rows, write_cursor, batch, overflow, fate, faults>>
         \/ \E t \in 1 .. Len(ring) : \E k \in 0 .. t : \E keep \in Seq(Events) :
              /\ Len(keep) = k /\ \A i \in 1 .. k : keep[i] = ring[i]
              /\ ring' \in Seq(Events) /\ Len(ring') = Len(ring) - t
              /\ \A i \in 1 .. Len(ring) - t : ring'[i] = ring[t + i]
              /\ overflow' \in Seq(Events) /\ Len(overflow') = t - k
              /\ \A i \in 1 .. t - k : overflow'[i] = ring[k + i]
              /\ PushOrFail(keep)
              /\ \/ PushTo(keep) /\ batch' = Appended(batch, write_cursor, keep)
                 \/ PushFails(keep) /\ UNCHANGED batch
              /\ k > 0 => HasRoom(batch, <<ring[1]>>)
              /\ \A i \in 1 .. k : Cardinality(DOMAIN batch) + i <= BatchMaxEvents \/ (DOMAIN batch = {} /\ i = 1)
<1> DEFINE take  == Min({BatchMaxEvents - Cardinality(DOMAIN batch), Len(ring)})
           cands == SubSeq(ring, 1, take)
           k     == KeepLen(batch, cands)
           keep  == SubSeq(cands, 1, k)
<1>1. SUFFICES ASSUME CanTopUp(batch), ring # <<>>
               PROVE  \E t \in 1 .. Len(ring) : \E n \in 0 .. t : \E s \in Seq(Events) :
              /\ Len(s) = n /\ \A i \in 1 .. n : s[i] = ring[i]
              /\ ring' \in Seq(Events) /\ Len(ring') = Len(ring) - t
              /\ \A i \in 1 .. Len(ring) - t : ring'[i] = ring[t + i]
              /\ overflow' \in Seq(Events) /\ Len(overflow') = t - n
              /\ \A i \in 1 .. t - n : overflow'[i] = ring[n + i]
              /\ PushOrFail(s)
              /\ \/ PushTo(s) /\ batch' = Appended(batch, write_cursor, s)
                 \/ PushFails(s) /\ UNCHANGED batch
              /\ n > 0 => HasRoom(batch, <<ring[1]>>)
              /\ \A i \in 1 .. n : Cardinality(DOMAIN batch) + i <= BatchMaxEvents \/ (DOMAIN batch = {} /\ i = 1)
  BY DEF TopUp
<1>2. /\ ring' = SubSeq(ring, take + 1, Len(ring)) /\ overflow' = SubSeq(cands, Len(keep) + 1, take)
      /\ \/ PushTo(keep) /\ batch' = Appended(batch, write_cursor, keep)
         \/ PushFails(keep) /\ UNCHANGED batch
      /\ PushLoss(keep)
  BY <1>1 DEF TopUp
<1>3. ring \in Seq(Events) /\ Len(ring) \in Nat \ {0}
  <2> HIDE DEF Events
  <2>1. ring \in Seq(Events)
    BY DEF TypeInv, Types
  <2>2. QED
    BY <1>1, <2>1
<1>4. take \in 1 .. Len(ring)
  <2>1. IsFiniteSet(DOMAIN batch)
    <3>1. DOMAIN batch \subseteq DOMAIN rows /\ batch \in RowSets
      BY DrainedFacts, NoRowsFacts DEF TopUp, TypeInv, Types, Phased
    <3>2. DOMAIN batch \in SUBSET Nat /\ write_cursor \in Nat /\ \A q \in DOMAIN batch : q <= write_cursor
      BY SMTT(40), <3>1, RowSetsMean DEF TypeInv, Types, Phased
    <3>3. QED
      BY <3>2, FS_BoundedSetOfNaturals
  <2>2. Cardinality(DOMAIN batch) \in Nat
    BY <2>1, FS_CardinalityType
  <2> DEFINE a == BatchMaxEvents - Cardinality(DOMAIN batch)
  <2>3. a \in Nat \ {0}
    BY <1>1, <2>2, ForwarderAssumption DEF CanTopUp
  <2> HIDE DEF a
  <2>4. Min({a, Len(ring)}) \in {a, Len(ring)} /\ Min({a, Len(ring)}) <= Len(ring)
    BY <1>3, <2>3 DEF Min
  <2>5. QED
    BY <1>3, <2>3, <2>4 DEF a
<1>5. cands \in Seq(Events) /\ Len(cands) = take
  <2> HIDE DEF Events, take
  <2>1. QED
    BY <1>3, <1>4
<1> HIDE DEF take
<1>6. k \in 0 .. take /\ \A i \in 1 .. k : HasRoom(batch, SubSeq(cands, 1, i))
  <2> HIDE DEF cands
  <2>1. QED
    BY <1>5, KeepLenFacts
<1> HIDE DEF k
<1>7. /\ keep \in Seq(Events) /\ Len(keep) = k /\ \A i \in 1 .. k : keep[i] = ring[i]
      /\ SubSeq(cands, k + 1, take) \in Seq(Events) /\ Len(SubSeq(cands, k + 1, take)) = take - k
      /\ \A i \in 1 .. take - k : SubSeq(cands, k + 1, take)[i] = ring[k + i]
      /\ SubSeq(ring, take + 1, Len(ring)) \in Seq(Events)
      /\ Len(SubSeq(ring, take + 1, Len(ring))) = Len(ring) - take
      /\ \A i \in 1 .. Len(ring) - take : SubSeq(ring, take + 1, Len(ring))[i] = ring[take + i]
  <2> take \in 0 .. Len(ring)
    BY <1>4
  <2>1. QED
    BY <1>3, <1>6, SplitFacts
<1>8. \A i \in 1 .. k : Len(SubSeq(cands, 1, i)) = i /\ (i = 1 => SubSeq(cands, 1, i) = <<ring[1]>>)
  <2> SUFFICES ASSUME NEW i \in 1 .. k
               PROVE  Len(SubSeq(cands, 1, i)) = i /\ (i = 1 => SubSeq(cands, 1, i) = <<ring[1]>>)
    OBVIOUS
  <2>1. i \in 0 .. take /\ take \in 0 .. Len(ring)
    BY <1>4, <1>6
  <2>2. SubSeq(cands, 1, i) \in Seq(Events) /\ Len(SubSeq(cands, 1, i)) = i /\ \A j \in 1 .. i : SubSeq(cands, 1, i)[j] = ring[j]
    BY <1>3, <2>1, SplitFacts
  <2> DEFINE u == SubSeq(cands, 1, i)
  <2>3. ASSUME i = 1 PROVE u = <<ring[1]>>
    <3>0. u \in Seq(Events) /\ Len(u) = i /\ \A j \in 1 .. i : u[j] = ring[j]
      BY <2>2
    <3> HIDE DEF u, Events
    <3>1. u \in Seq(Events) /\ Len(u) = 1 /\ u[1] = ring[1]
      BY <2>3, <3>0
    <3>2. u # <<>> /\ Len(u) <= 1
      <4>1. Len(u) > 0 /\ Len(<<>>) = 0 /\ Len(u) <= 1
        BY <3>1
      <4>2. QED
        BY <4>1
    <3>3. u = <<u[1]>>
      BY <3>1, <3>2, Singleton
    <3>4. QED
      BY <3>1, <3>3
  <2>4. QED
    BY <2>2, <2>3
<1>9. k > 0 => HasRoom(batch, <<ring[1]>>)
  <2>1. k > 0 => 1 \in 1 .. k
    BY <1>6
  <2>2. QED
    BY <1>6, <1>8, <2>1
<1>10. \A i \in 1 .. k : Cardinality(DOMAIN batch) + i <= BatchMaxEvents \/ (DOMAIN batch = {} /\ i = 1)
  <2>1. \A i \in 1 .. k : HasRoom(batch, SubSeq(cands, 1, i)) /\ Len(SubSeq(cands, 1, i)) = i
    BY <1>6, <1>8
  <2> HIDE DEF cands
  <2>2. QED
    BY <2>1 DEF HasRoom
<1> HIDE DEF keep, cands
<1>11. PushOrFail(keep)
  BY <1>2 DEF PushOrFail
<1>12. overflow' = SubSeq(cands, k + 1, take)
  BY <1>2, <1>7
<1>13. QED
  <2>1. keep \in Seq(Events)
    BY <1>7
  <2> WITNESS take \in 1 .. Len(ring), k \in 0 .. take, keep \in Seq(Events)
  <2>2. QED
    BY <1>2, <1>4, <1>6, <1>7, <1>9, <1>10, <1>11, <1>12

(* A push from a buffer keeps types; the rest of the state is the action's.*)
LEMMA PushTypes ==
  ASSUME TypeInv, NEW evs \in Seq(Events), PushOrFail(evs)
  PROVE  /\ rows' \in RowSets /\ write_cursor' \in Nat /\ write_cursor <= write_cursor'
         /\ faults' \in Nat /\ fate' \in [Events -> Fates]
         /\ \A q \in DOMAIN rows' : q < write_cursor'
<1>1. /\ write_cursor \in Nat /\ rows \in RowSets /\ faults \in Nat /\ fate \in [Events -> Fates]
      /\ \A q \in DOMAIN rows : q < write_cursor
  BY DEF TypeInv, Types, Phased
<1>2. (PushTo(evs) \/ PushFails(evs)) /\ PushLoss(evs)
  BY DEF PushOrFail
<1>3. /\ rows' \in RowSets /\ write_cursor' \in Nat /\ write_cursor <= write_cursor'
      /\ faults' \in {faults, faults + 1} /\ \A q \in DOMAIN rows' : q < write_cursor'
  BY <1>1, <1>2, PushRows
<1>4. fate' \in [Events -> Fates]
  BY <1>1, <1>2, <1>3, PushFates
<1>5. QED
  BY <1>1, <1>3, <1>4

LEMMA LostTypes ==
  ASSUME NEW es, NEW why \in Fates, NEW f \in [Events -> Fates], fate = f
  PROVE  /\ Lost(es, why) \in [Events -> Fates]
         /\ \A e \in Events : Lost(es, why)[e] = IF e \in es /\ f[e] = "none" THEN why ELSE f[e]
BY DEF Lost

(* What a step that loses events leaves of their fates.                    *)
LEMMA LossMarks ==
  ASSUME fate \in [Events -> Fates], NEW es,
         NEW why \in {"ring_full", "process_exit", "oversize"}, fate' = Lost(es, why)
  PROVE  /\ fate' \in [Events -> Fates]
         /\ \A e \in Events : fate'[e] = IF e \in es /\ fate[e] = "none" THEN why ELSE fate[e]
<1>1. why \in Fates
  BY DEF Fates
<1>2. /\ Lost(es, why) \in [Events -> Fates]
      /\ \A e \in Events : Lost(es, why)[e] = IF e \in es /\ fate[e] = "none" THEN why ELSE fate[e]
  BY <1>1, LostTypes
<1>3. QED
  BY Zenon, <1>2

LEMMA ProcessTypes == TypeInv /\ (Process \/ UNCHANGED vars) => TypeInv'
<1> SUFFICES ASSUME TypeInv, Process \/ UNCHANGED vars PROVE TypeInv'
  OBVIOUS
<1>0. Types /\ Phased
  BY DEF TypeInv
<1>1. CASE Offer
  <2>0. /\ offered < MaxEvents /\ offered' = offered + 1
        /\ UNCHANGED <<phase, shutdown, rows, write_cursor, batch, overflow, session, delivered, bounds>>
        /\ \/ /\ Len(ring) >= RingCapacity /\ ring' = Append(Tail(ring), offered + 1)
              /\ fate' = Lost({Head(ring)}, "ring_full")
           \/ /\ ~(Len(ring) >= RingCapacity) /\ ring' = Append(ring, offered + 1)
              /\ UNCHANGED fate
    BY <1>1 DEF Offer
  <2>1. offered + 1 \in Events /\ offered' \in 0 .. MaxEvents
    <3>1. MaxEvents \in Nat
      BY ForwarderAssumption
    <3>2. QED
      BY <1>0, <2>0, <3>1 DEF Types, Events
  <2>2. fate' \in [Events -> Fates]
    <3>1. fate \in [Events -> Fates]
      BY Zenon, <1>0 DEF Types
    <3>2. fate' = Lost({Head(ring)}, "ring_full") \/ fate' = fate
      BY Zenon, <2>0
    <3>3. QED
      BY Zenon, <3>1, <3>2, LossMarks
  <2>3. ring' \in Seq(Events) /\ Len(ring') <= RingCapacity
    <3>1. ring \in Seq(Events) /\ Len(ring) <= RingCapacity /\ RingCapacity \in Nat \ {0}
      BY <1>0, ForwarderAssumption DEF Types
    <3> DEFINE x == offered + 1
    <3>2. x \in Events
      BY <2>1
    <3>3. \/ Len(ring) >= RingCapacity /\ ring' = Append(Tail(ring), x)
          \/ ~(Len(ring) >= RingCapacity) /\ ring' = Append(ring, x)
      BY <2>0
    <3> HIDE DEF Events, x
    <3>4. CASE Len(ring) >= RingCapacity /\ ring' = Append(Tail(ring), x)
      <4>1. Len(ring) > 0 /\ Len(<<>>) = 0
        BY <3>1, <3>4
      <4>2. ring # <<>>
        BY <4>1
      <4>3. Tail(ring) \in Seq(Events) /\ Len(Tail(ring)) = Len(ring) - 1
        BY <3>1, <4>2
      <4>4. Append(Tail(ring), x) \in Seq(Events) /\ Len(Append(Tail(ring), x)) = Len(Tail(ring)) + 1
        BY <3>2, <4>3
      <4>5. QED
        BY <3>1, <3>4, <4>3, <4>4
    <3>5. CASE ~(Len(ring) >= RingCapacity) /\ ring' = Append(ring, x)
      <4>1. Append(ring, x) \in Seq(Events) /\ Len(Append(ring, x)) = Len(ring) + 1 /\ Len(ring) \in Nat
        BY <3>1, <3>2
      <4>2. QED
        BY <3>1, <3>5, <4>1
    <3>6. QED
      BY <3>3, <3>4, <3>5
  <2>4. Types'
    BY <1>0, <2>0, <2>1, <2>2, <2>3 DEF Types, session, bounds
  <2>5. Phased'
    BY <1>0, <2>0 DEF Phased, session
  <2>6. QED
    BY <2>4, <2>5 DEF TypeInv
<1>2. CASE Start
  <2>0. /\ phase = "off" /\ shutdown' = FALSE /\ phase' \in {"backoff", "buffering", "stopped"}
        /\ starts' = starts + 1 /\ write_cursor' \in {write_cursor, NextKey(rows)} /\ faults' \in {faults, faults + 1}
        /\ UNCHANGED <<ring, rows, batch, overflow, session, delivered, offered, fate>>
    BY <1>2 DEF Start, Fault
  <2>1. write_cursor' \in Nat /\ \A q \in DOMAIN rows' : q < write_cursor'
    <3>1. NextKey(rows) \in Nat /\ \A q \in DOMAIN rows : q < NextKey(rows)
      BY <1>0, NextKeyFacts DEF Types, Phased
    <3>2. QED
      BY <1>0, <2>0, <3>1 DEF Types, Phased
  <2>2. shutdown' \in BOOLEAN
    BY <2>0
  <2>3. starts' \in Nat /\ faults' \in Nat /\ phase' \in Phases
    BY <1>0, <2>0 DEF Types, Phases
  <2>4. Types'
    BY <1>0, <2>0, <2>1, <2>2, <2>3 DEF Types, session
  <2>5. Phased'
    BY <1>0, <2>0, <2>1 DEF Phased, session, InSession
  <2>6. QED
    BY <2>4, <2>5 DEF TypeInv
<1>3. CASE TriggerShutdown
  BY <1>0, <1>3 DEF TriggerShutdown, buffers, session, bounds, TypeInv, Types, Phased
<1>4. CASE ProcessGone
  <2>1. /\ phase' = "off" /\ ring' = <<>> /\ overflow' = <<>> /\ batch' = NoRows /\ pending' = <<>> /\ acks' = <<>>
        /\ UNCHANGED <<shutdown, rows, write_cursor, sess, conns, sent, delivered, offered, bounds>>
        /\ fate' = Lost((Elems(ring) \cup Elems(overflow)) \ Elems(rows), "process_exit")
    BY <1>4 DEF ProcessGone
  <2>2. \A S : <<>> \in Seq(S) /\ Len(<<>>) = 0
    OBVIOUS
  <2>3. fate' \in [Events -> Fates]
    <3>1. fate \in [Events -> Fates]
      BY Zenon, <1>0 DEF Types
    <3>2. QED
      BY Zenon, <2>1, <3>1, LossMarks
  <2>4. 0 <= RingCapacity
    BY ForwarderAssumption
  <2>5. Types'
    BY <1>0, <2>1, <2>2, <2>3, <2>4, NoRowsFacts DEF Types, bounds, Phases
  <2>6. Phased'
    BY <1>0, <2>1 DEF Phased, InSession
  <2>7. QED
    BY <2>5, <2>6 DEF TypeInv
<1>5. CASE BufferRing
  <2>0. /\ phase = "buffering" /\ PushOrFail(ring) /\ ring' = <<>> /\ phase' \in {"buffering", "stopped"}
        /\ UNCHANGED <<shutdown, batch, overflow, session, delivered, offered, starts>>
    BY <1>5 DEF BufferRing
  <2>1. /\ rows' \in RowSets /\ write_cursor' \in Nat /\ faults' \in Nat /\ fate' \in [Events -> Fates]
        /\ \A q \in DOMAIN rows' : q < write_cursor'
    <3>1. ring \in Seq(Events)
      BY <1>0 DEF Types
    <3>2. QED
      BY <2>0, <3>1, PushTypes
  <2>2. ring' \in Seq(Events) /\ Len(ring') <= RingCapacity
    <3>1. \A S : <<>> \in Seq(S) /\ Len(<<>>) = 0
      OBVIOUS
    <3>2. QED
      BY <2>0, <3>1, ForwarderAssumption
  <2>3. Types'
    BY <1>0, <2>0, <2>1, <2>2 DEF Types, session, Phases
  <2>4. Phased'
    BY <1>0, <2>0, <2>1 DEF Phased, session, InSession
  <2>5. QED
    BY <2>3, <2>4 DEF TypeInv
<1>6. CASE UNCHANGED vars
  BY <1>0, <1>6 DEF vars, buffers, session, bounds, TypeInv, Types, Phased
<1>7. QED
  BY <1>1, <1>2, <1>3, <1>4, <1>5, <1>6 DEF Process, ProcessExit, Crash

(* The batches in the hands of the session and the peer, step by step.     *)
LEMMA SendBatchSets ==
  ASSUME TypeInv, SendBatch
  PROVE  /\ Message \in Batches /\ pending' \in Seq(Batches) /\ conns' \in [Sessions -> Seq(Batches)]
         /\ Elems(pending') \subseteq Elems(pending) \cup {Message}
         /\ AllBatches' \subseteq AllBatches \cup {Message}
<1>0. /\ sess \in Sessions /\ sent \in Nat /\ batch \in RowSets
      /\ pending \in Seq(Batches) /\ conns \in [Sessions -> Seq(Batches)]
  BY DEF TypeInv, Types, Phased, SendBatch, InSession
<1>1. Message \in Batches
  BY <1>0 DEF Message, Batches
<1> DEFINE m == Message
<1>2. /\ conns' = [conns EXCEPT ![sess] = Append(conns[sess], m)]
      /\ pending' \in {Append(pending, m), <<>>}
  BY DEF SendBatch, EndSession
<1>3. m \in Batches
  BY <1>1
<1> HIDE DEF m, Batches
<1>4. /\ Append(pending, m) \in Seq(Batches) /\ Range(Append(pending, m)) = Range(pending) \cup {m}
  BY <1>0, <1>3, AppendRange
<1>5. conns[sess] \in Seq(Batches)
  BY <1>0
<1>6. /\ Append(conns[sess], m) \in Seq(Batches)
      /\ Range(Append(conns[sess], m)) = Range(conns[sess]) \cup {m}
  BY <1>3, <1>5, AppendRange
<1>7. <<>> \in Seq(Batches) /\ Range(<<>>) = {}
  BY DEF Range
<1>8. pending' \in Seq(Batches) /\ Range(pending') \subseteq Range(pending) \cup {m}
  BY <1>2, <1>4, <1>7
<1>9. /\ conns' \in [Sessions -> Seq(Batches)]
      /\ \A s \in Sessions : Range(conns'[s]) \subseteq Range(conns[s]) \cup {m}
  BY <1>0, <1>2, <1>6
<1>10. QED
  BY <1>3, <1>8, <1>9, ElemsIsRange DEF AllBatches, m

LEMMA AckSets ==
  ASSUME TypeInv, Ack
  PROVE  /\ acks' \in Seq(Nat) /\ Head(acks) \in Elems(acks) /\ Elems(acks') \subseteq Elems(acks)
         /\ pending' \in Seq(Batches) /\ Elems(pending') \subseteq Elems(pending)
         /\ \E b \in Elems(pending) : b.id = Head(acks) /\ rows' \in {rows, AckedThrough(rows, b.rows)}
<1>0. acks \in Seq(Nat) /\ acks # <<>> /\ acks' = Tail(acks) /\ pending \in Seq(Batches)
  BY DEF TypeInv, Types, Ack
<1>1. PICK i \in DOMAIN pending :
        /\ pending[i].id = Head(acks)
        /\ pending' = SubSeq(pending, 1, i - 1) \o SubSeq(pending, i + 1, Len(pending))
        /\ rows' \in {rows, AckedThrough(rows, pending[i].rows)}
  BY DEF Ack
<1>2. Head(acks) \in Elems(acks) /\ Tail(acks) \in Seq(Nat) /\ Elems(Tail(acks)) \subseteq Elems(acks)
  <2>1. Head(acks) \in Nat /\ Tail(acks) \in Seq(Nat) /\ Range(acks) = {Head(acks)} \cup Range(Tail(acks))
    BY <1>0, TailRange
  <2>2. QED
    BY <2>1, ElemsIsRange
<1> HIDE DEF Batches
<1>3. i \in 1 .. Len(pending) /\ pending' = RemoveAt(pending, i)
  <2>1. pending' = RemoveAt(pending, i)
    BY <1>1, Zenon DEF RemoveAt
  <2>2. QED
    BY <1>0, <2>1
<1>4. RemoveAt(pending, i) \in Seq(Batches) /\ Range(RemoveAt(pending, i)) \subseteq Range(pending)
  BY <1>0, <1>3, RemoveAtRange
<1>5. pending[i] \in Elems(pending)
  BY <1>1 DEF Elems
<1>6. QED
  BY <1>0, <1>1, <1>2, <1>3, <1>4, <1>5, ElemsIsRange

LEMMA PeerSets ==
  ASSUME TypeInv, NEW s \in Sessions, conns[s] # <<>>,
         conns' = [conns EXCEPT ![s] = Tail(conns[s])] \/ conns' = [conns EXCEPT ![s] = <<>>],
         UNCHANGED pending
  PROVE  /\ conns' \in [Sessions -> Seq(Batches)] /\ AllBatches' \subseteq AllBatches
         /\ Head(conns[s]) \in AllBatches /\ Head(conns[s]) \in Batches
<1>0. conns \in [Sessions -> Seq(Batches)] /\ conns[s] \in Seq(Batches)
  BY DEF TypeInv, Types
<1> HIDE DEF Batches
<1>1. /\ Head(conns[s]) \in Batches /\ Tail(conns[s]) \in Seq(Batches)
      /\ Range(conns[s]) = {Head(conns[s])} \cup Range(Tail(conns[s]))
  BY <1>0, TailRange
<1>2. <<>> \in Seq(Batches) /\ Range(<<>>) = {}
  BY DEF Range
<1>3. /\ conns' \in [Sessions -> Seq(Batches)]
      /\ \A t \in Sessions : Range(conns'[t]) \subseteq Range(conns[t])
  BY <1>0, <1>1, <1>2
<1>4. QED
  BY <1>1, <1>3, ElemsIsRange DEF AllBatches

LEMMA PeerTypes == TypeInv /\ Peer => TypeInv'
<1> SUFFICES ASSUME TypeInv, NEW s \in Sessions, ServerTakes(s) \/ ConnectionDies(s) PROVE TypeInv'
  BY DEF Peer
<1>0. Types /\ Phased
  BY DEF TypeInv
<1>1. /\ conns[s] # <<>> /\ UNCHANGED <<phase, shutdown, buffers, pending, sess, sent, offered, fate, bounds>>
      /\ conns' = [conns EXCEPT ![s] = Tail(conns[s])] \/ conns' = [conns EXCEPT ![s] = <<>>]
      /\ delivered' \in {delivered, delivered \cup Elems(Head(conns[s]).rows)}
      /\ acks' = acks \/ (phase \in InSession /\ acks' = Append(acks, Head(conns[s]).id))
  BY DEF ServerTakes, ConnectionDies
<1>2. conns' \in [Sessions -> Seq(Batches)] /\ Head(conns[s]) \in Batches
  BY <1>1, PeerSets
<1>3. Head(conns[s]).id \in Nat /\ Head(conns[s]).rows \in RowSets
  BY <1>2 DEF Batches
<1>4. Elems(Head(conns[s]).rows) \subseteq Events
  BY <1>3, RowSetsMean DEF Elems
<1>5. acks' \in Seq(Nat)
  <2> DEFINE k == Head(conns[s]).id
  <2>1. k \in Nat /\ acks \in Seq(Nat) /\ (acks' = acks \/ acks' = Append(acks, k))
    BY <1>0, <1>1, <1>3 DEF Types
  <2> HIDE DEF k
  <2>2. QED
    BY <2>1
<1>6. Types'
  BY <1>0, <1>1, <1>2, <1>4, <1>5 DEF Types, buffers, bounds
<1>7. Phased'
  BY <1>0, <1>1 DEF Phased, buffers
<1>8. QED
  BY <1>6, <1>7 DEF TypeInv

LEMMA ActorTypes == TypeInv /\ Actor => TypeInv'
<1> SUFFICES ASSUME TypeInv, Actor PROVE TypeInv'
  OBVIOUS
<1>0. Types /\ Phased
  BY DEF TypeInv
<1>00. <<>> \in Seq(Batches) /\ <<>> \in Seq(Nat) /\ <<>> \in Seq(Events) /\ Len(<<>>) = 0
  <2> HIDE DEF Batches, Events
  <2>1. QED
    OBVIOUS
<1>1. CASE LeaveLoop \/ Connect \/ ConnectFails
  <2>1. /\ phase \in {"backoff", "connecting"} /\ phase' \in {"exiting", "connecting", "backoff"}
        /\ UNCHANGED <<shutdown, buffers, session, delivered, offered, fate, bounds>>
    BY <1>1 DEF LeaveLoop, Connect, ConnectFails
  <2>2. Types'
    BY <1>0, <2>1 DEF Types, buffers, session, bounds, Phases
  <2>3. Phased'
    BY <1>0, <2>1 DEF Phased, buffers, session, InSession
  <2>4. QED
    BY <2>2, <2>3 DEF TypeInv
<1>2. CASE HandshakeOk
  <2>1. /\ phase = "connecting" /\ sess < MaxSessions /\ phase' = "online" /\ sess' = sess + 1
        /\ UNCHANGED <<shutdown, buffers, pending, conns, acks, sent, delivered, offered, fate, bounds>>
    BY <1>2 DEF HandshakeOk
  <2>2. sess' \in 0 .. MaxSessions /\ sess' \in Sessions
    <3>1. MaxSessions \in Nat
      BY ForwarderAssumption
    <3>2. QED
      BY <1>0, <2>1, <3>1 DEF Types, Sessions
  <2>3. Types'
    BY <1>0, <2>1, <2>2 DEF Types, buffers, bounds, Phases
  <2>4. Phased'
    BY <1>0, <2>1, <2>2 DEF Phased, buffers, InSession
  <2>5. QED
    BY <2>3, <2>4 DEF TypeInv
<1>3. CASE Disconnect \/ StopOnline
  <2>1. /\ phase = "online" /\ phase' \in {"backoff", "exiting"} /\ pending' = <<>> /\ acks' = <<>>
        /\ UNCHANGED <<shutdown, buffers, sess, conns, sent, delivered, offered, fate, bounds>>
    BY <1>3 DEF Disconnect, StopOnline, EndSession
  <2>2. Types'
    BY <1>0, <1>00, <2>1 DEF Types, buffers, bounds, Phases
  <2>3. Phased'
    BY <1>0, <2>1 DEF Phased, buffers, InSession
  <2>4. QED
    BY <2>2, <2>3 DEF TypeInv
<1>4. CASE PersistLeftover
  <2>0. /\ phase = "exiting" /\ PushOrFail(ring) /\ ring' = <<>> /\ phase' = "stopped"
        /\ UNCHANGED <<shutdown, batch, overflow, session, delivered, offered, starts>>
    BY <1>4 DEF PersistLeftover
  <2>1. /\ rows' \in RowSets /\ write_cursor' \in Nat /\ faults' \in Nat /\ fate' \in [Events -> Fates]
        /\ \A q \in DOMAIN rows' : q < write_cursor'
    <3>1. ring \in Seq(Events)
      BY <1>0 DEF Types
    <3>2. QED
      BY <2>0, <3>1, PushTypes
  <2>2. ring' \in Seq(Events) /\ Len(ring') <= RingCapacity
    BY <1>00, <2>0, ForwarderAssumption
  <2>3. Types'
    BY <1>0, <2>0, <2>1, <2>2 DEF Types, session, Phases
  <2>4. Phased'
    BY <1>0, <2>0, <2>1 DEF Phased, session, InSession
  <2>5. QED
    BY <2>3, <2>4 DEF TypeInv
<1>5. CASE FlushSpill
  <2>0. /\ phase = "online" /\ phase' = "topup" /\ faults' \in {faults, faults + 1}
        /\ UNCHANGED <<shutdown, ring, rows, write_cursor, overflow, session, delivered, offered, fate, starts>>
        /\ batch' = Drained(rows) \/ (batch' = NoRows /\ "drain" \in Faulty)
    BY <1>5 DEF FlushSpill, Fault
  <2>1. Drained(rows) \in RowSets /\ Drained(rows') = Drained(rows)
    BY <1>0, <2>0, DrainedFacts DEF Types
  <2>2. batch' \in RowSets /\ faults' \in Nat
    BY <1>0, <2>0, <2>1, NoRowsFacts DEF Types
  <2>3. Types'
    BY <1>0, <2>0, <2>2 DEF Types, session, Phases
  <2>4. Phased'
    BY <1>0, <2>0, <2>1 DEF Phased, session, InSession
  <2>5. QED
    BY <2>3, <2>4 DEF TypeInv
<1>6. CASE TopUp
  <2>0. /\ phase = "topup" /\ phase' = "spilling"
        /\ UNCHANGED <<shutdown, session, delivered, offered, starts>>
    BY <1>6 DEF TopUp
  <2>1. /\ ring' \in Seq(Events) /\ Len(ring') <= RingCapacity /\ overflow' \in Seq(Events)
        /\ rows' \in RowSets /\ batch' \in RowSets /\ write_cursor' \in Nat /\ faults' \in Nat
        /\ fate' \in [Events -> Fates] /\ \A q \in DOMAIN rows' : q < write_cursor'
    <3>1. CASE UNCHANGED <<ring, rows, write_cursor, batch, overflow, fate, faults>>
      BY <1>0, <3>1 DEF Types, Phased
    <3>2. ASSUME NEW t \in 1 .. Len(ring), NEW k \in 0 .. t, NEW keep \in Seq(Events),
                 ring' \in Seq(Events), Len(ring') = Len(ring) - t, overflow' \in Seq(Events), PushOrFail(keep),
                 batch' \in {batch, Appended(batch, write_cursor, keep)}
          PROVE  /\ ring' \in Seq(Events) /\ Len(ring') <= RingCapacity /\ overflow' \in Seq(Events)
                 /\ rows' \in RowSets /\ batch' \in RowSets /\ write_cursor' \in Nat /\ faults' \in Nat
                 /\ fate' \in [Events -> Fates] /\ \A q \in DOMAIN rows' : q < write_cursor'
      <4>1. /\ rows' \in RowSets /\ write_cursor' \in Nat /\ faults' \in Nat /\ fate' \in [Events -> Fates]
            /\ \A q \in DOMAIN rows' : q < write_cursor'
        BY <3>2, PushTypes
      <4>2. \A q \in DOMAIN batch : q < write_cursor
        BY <1>0, <2>0, DrainedFacts, NoRowsFacts DEF Types, Phased
      <4>3. Appended(batch, write_cursor, keep) \in RowSets
        <5>1. batch \in RowSets /\ write_cursor \in Nat
          BY Zenon, <1>0 DEF Types
        <5>2. QED
          BY Zenon, <4>2, <5>1, AppendedFacts
      <4>4. Len(ring') <= RingCapacity
        <5>1. Len(ring) \in Nat /\ Len(ring) <= RingCapacity
          <6> HIDE DEF Events
          <6>1. QED
            BY <1>0 DEF Types
        <5>2. QED
          BY SMTT(40), <3>2, <5>1, ForwarderAssumption
      <4>5. QED
        BY <1>0, <3>2, <4>1, <4>3, <4>4 DEF Types
    <3> HIDE DEF Events, RowSets
    <3>3. CASE ~UNCHANGED <<ring, rows, write_cursor, batch, overflow, fate, faults>>
      <4>1. PICK t \in 1 .. Len(ring) : \E k \in 0 .. t : \E keep \in Seq(Events) :
              /\ ring' \in Seq(Events) /\ Len(ring') = Len(ring) - t
              /\ overflow' \in Seq(Events) /\ PushOrFail(keep)
              /\ batch' \in {batch, Appended(batch, write_cursor, keep)}
        BY ZenonT(60), <1>6, <3>3, TopUpCuts
      <4>2. PICK k \in 0 .. t : \E keep \in Seq(Events) :
              /\ ring' \in Seq(Events) /\ Len(ring') = Len(ring) - t
              /\ overflow' \in Seq(Events) /\ PushOrFail(keep)
              /\ batch' \in {batch, Appended(batch, write_cursor, keep)}
        BY <4>1
      <4>3. QED
        BY <3>2, <4>2
    <3>4. QED
      BY <3>1, <3>3
  <2>2. Types'
    BY <1>0, <2>0, <2>1 DEF Types, session, Phases
  <2>3. Phased'
    BY <1>0, <2>0, <2>1 DEF Phased, session, InSession
  <2>4. QED
    BY <2>2, <2>3 DEF TypeInv
<1>7. CASE SpillOverflow
  <2>0. /\ phase = "spilling" /\ phase' = "sending" /\ PushOrFail(overflow) /\ overflow' = <<>>
        /\ UNCHANGED <<shutdown, ring, batch, session, delivered, offered, starts>>
    BY <1>7 DEF SpillOverflow
  <2>1. /\ rows' \in RowSets /\ write_cursor' \in Nat /\ faults' \in Nat /\ fate' \in [Events -> Fates]
        /\ \A q \in DOMAIN rows' : q < write_cursor'
    <3>1. overflow \in Seq(Events)
      BY <1>0 DEF Types
    <3>2. QED
      BY <2>0, <3>1, PushTypes
  <2>2. Types'
    BY <1>0, <1>00, <2>0, <2>1 DEF Types, session, Phases
  <2>3. Phased'
    BY <1>0, <2>0, <2>1 DEF Phased, session, InSession
  <2>4. QED
    BY <2>2, <2>3 DEF TypeInv
<1>8. CASE SendBatch
  <2>0. /\ phase = "sending" /\ sent' = sent + 1 /\ batch' = NoRows
        /\ \/ phase' = "online" /\ acks' = acks
           \/ phase' = "backoff" /\ pending' = <<>> /\ acks' = <<>>
        /\ UNCHANGED <<shutdown, ring, rows, write_cursor, overflow, sess, delivered, offered, fate, bounds>>
    BY <1>8 DEF SendBatch, EndSession
  <2>1. pending' \in Seq(Batches) /\ conns' \in [Sessions -> Seq(Batches)]
    BY <1>8, SendBatchSets
  <2>2. Types'
    BY <1>0, <1>00, <2>0, <2>1, NoRowsFacts DEF Types, bounds, Phases
  <2>3. Phased'
    BY <1>0, <2>0 DEF Phased, InSession
  <2>4. QED
    BY <2>2, <2>3 DEF TypeInv
<1>9. CASE SkipBatch
  <2>0. /\ phase = "sending" /\ phase' = "online" /\ batch' = NoRows
        /\ rows' \in {rows, AckedThrough(rows, batch)} /\ faults' \in {faults, faults + 1}
        /\ fate' \in {fate, Lost(Elems(batch), "oversize")}
        /\ UNCHANGED <<shutdown, ring, write_cursor, overflow, session, delivered, offered, starts>>
    BY <1>9 DEF SkipBatch, Fault
  <2>1. rows' \in RowSets /\ \A q \in DOMAIN rows' : q < write_cursor'
    <3>1. /\ AckedThrough(rows, batch) \in RowSets
          /\ DOMAIN AckedThrough(rows, batch) = {q \in DOMAIN rows : \A h \in DOMAIN batch : h < q}
      BY <1>0, AckedFacts DEF Types
    <3>2. QED
      BY <1>0, <2>0, <3>1 DEF Types, Phased
  <2>2. fate' \in [Events -> Fates] /\ faults' \in Nat
    <3>1. fate \in [Events -> Fates] /\ faults \in Nat
      BY Zenon, <1>0 DEF Types
    <3>2. fate' \in [Events -> Fates]
      <4>1. fate' = fate \/ fate' = Lost(Elems(batch), "oversize")
        BY Zenon, <2>0
      <4>2. QED
        BY Zenon, <3>1, <4>1, LossMarks
    <3>3. faults' \in Nat
      BY <2>0, <3>1
    <3>4. QED
      BY Zenon, <3>2, <3>3
  <2>3. Types'
    BY <1>0, <2>0, <2>1, <2>2, NoRowsFacts DEF Types, session, Phases
  <2>4. Phased'
    BY <1>0, <2>0, <2>1 DEF Phased, session, InSession
  <2>5. QED
    BY <2>3, <2>4 DEF TypeInv
<1>10. CASE Ack
  <2>0. /\ phase = "online" /\ faults' \in {faults, faults + 1}
        /\ UNCHANGED <<phase, shutdown, ring, write_cursor, batch, overflow, sess, conns, sent,
                       delivered, offered, fate, starts>>
    BY <1>10 DEF Ack, Fault
  <2>1. /\ acks' \in Seq(Nat) /\ pending' \in Seq(Batches)
        /\ \E b \in Elems(pending) : rows' \in {rows, AckedThrough(rows, b.rows)}
    BY <1>10, AckSets
  <2>2. rows' \in RowSets /\ \A q \in DOMAIN rows' : q < write_cursor'
    <3>1. PICK b : rows' \in {rows, AckedThrough(rows, b.rows)}
      BY <2>1
    <3>2. /\ AckedThrough(rows, b.rows) \in RowSets
          /\ DOMAIN AckedThrough(rows, b.rows) = {q \in DOMAIN rows : \A h \in DOMAIN b.rows : h < q}
      BY <1>0, AckedFacts DEF Types
    <3>3. QED
      BY <1>0, <2>0, <3>1, <3>2 DEF Types, Phased
  <2>3. Types'
    BY <1>0, <2>0, <2>1, <2>2 DEF Types
  <2>4. Phased'
    BY <1>0, <2>0, <2>2 DEF Phased, InSession
  <2>5. QED
    BY <2>3, <2>4 DEF TypeInv
<1>11. QED
  BY <1>1, <1>2, <1>3, <1>4, <1>5, <1>6, <1>7, <1>8, <1>9, <1>10 DEF Actor

LEMMA TypesKept == TypeInv /\ [Next]_vars => TypeInv'
BY ProcessTypes, ActorTypes, PeerTypes DEF Next

LEMMA TypesMean == TypeInv => TypeOK
<1> SUFFICES ASSUME TypeInv PROVE TypeOK
  OBVIOUS
<1>0. Types /\ Phased
  BY DEF TypeInv
<1>1. rows \in RowSets /\ batch \in RowSets /\ pending \in Seq(Batches) /\ conns \in [Sessions -> Seq(Batches)]
  BY <1>0 DEF Types
<1>2. \A b \in AllBatches : b \in Batches
  <2> HIDE DEF Batches
  <2>1. Range(pending) \subseteq Batches /\ \A s \in Sessions : Range(conns[s]) \subseteq Batches
    BY <1>1 DEF Range
  <2>2. QED
    BY <2>1, ElemsIsRange DEF AllBatches
<1>3. \A b \in AllBatches : b.id \in Nat /\ b.rows \in RowSets
  BY <1>2 DEF Batches
<1>4. \A f \in RowSets : DOMAIN f \subseteq Nat /\ f \in [DOMAIN f -> Events]
  BY RowSetsMean
<1>5. pending \in Seq(AllBatches) /\ conns \in [Sessions -> Seq(AllBatches)]
  <2> HIDE DEF Batches
  <2>1. \A u \in Seq(Batches) : \A A : Range(u) \subseteq A => u \in Seq(A)
    BY DEF Range
  <2>2. Range(pending) \subseteq AllBatches /\ \A s \in Sessions : Range(conns[s]) \subseteq AllBatches
    BY ElemsIsRange DEF AllBatches
  <2>3. QED
    BY <1>1, <2>1, <2>2
<1>6. DOMAIN rows \subseteq 0 .. (write_cursor - 1)
  BY <1>0, <1>1, <1>4 DEF Types, Phased
<1>7. QED
  BY <1>0, <1>1, <1>3, <1>4, <1>5, <1>6 DEF TypeOK, Types

(* The forwarder's state is always well formed, and while a process runs   *)
(* every key of the table lies below its write cursor.                     *)
THEOREM TypeCorrect == Spec => []TypeOK
<1>1. Spec => []TypeInv
  BY InitTypes, TypesKept, PTL DEF Spec
<1>2. QED
  BY <1>1, TypesMean, PTL

(***************************************************************************)
(* No silent loss.  An ack_through deletes up to a key; that it deletes no *)
(* more than its batch needs the drain and the top-up to agree on when a   *)
(* batch is full.                                                          *)
(***************************************************************************)
(* drain_batch stopped early only where batch_has_room refuses too.        *)
StopsAlike ==
  \A f \in RowSets : \A e \in Events :
    IsFiniteSet(DOMAIN f) /\ Drained(f) # f => ~HasRoom(Drained(f), <<e>>)

LEMMA FiniteTable ==
  ASSUME NEW f \in RowSets, NEW w \in Nat, \A q \in DOMAIN f : q < w
  PROVE  IsFiniteSet(DOMAIN f) /\ Cardinality(DOMAIN f) \in Nat
<1>1. DOMAIN f \in SUBSET Nat
  BY RowSetsMean
<1>2. \A q \in DOMAIN f : q <= w
  BY <1>1
<1>3. IsFiniteSet(DOMAIN f)
  BY <1>1, <1>2, FS_BoundedSetOfNaturals
<1>4. QED
  BY <1>3, FS_CardinalityType

(* The batch covers its range as long as new rows go above the cursor.     *)
LEMMA CoveringKept ==
  ASSUME TypeInv, Covering, write_cursor' \in Nat, write_cursor <= write_cursor',
         \A q \in DOMAIN rows' : (q \in DOMAIN rows /\ rows'[q] = rows[q]) \/ write_cursor <= q,
         rows' \in RowSets,
         batch' \in {batch, NoRows}, Elems(pending') \subseteq Elems(pending) \cup {[id |-> sent, rows |-> batch]}
  PROVE  Covering'
<1> SUFFICES ASSUME NEW b \in Open', NEW h \in DOMAIN b
             PROVE  /\ h < write_cursor'
                    /\ \A q \in DOMAIN rows' : q <= h => q \in DOMAIN b /\ b[q] = rows'[q]
  BY DEF Covering
<1>1. b \in Open
  <2>1. b \in {batch, NoRows} \/ \E c \in Elems(pending) \cup {[id |-> sent, rows |-> batch]} : b = c.rows
    BY DEF Open
  <2>2. b # NoRows
    BY NoRowsFacts
  <2>3. QED
    BY <2>1, <2>2 DEF Open
<1>2. /\ h < write_cursor
      /\ \A q \in DOMAIN rows : q <= h => q \in DOMAIN b /\ b[q] = rows[q]
  BY <1>1 DEF Covering
<1>3. h \in Nat
  <2>1. batch \in RowSets /\ pending \in Seq(Batches)
    BY DEF TypeInv, Types
  <2>2. \A c \in Elems(pending) : c.rows \in RowSets
    <3> HIDE DEF RowSets
    <3>1. Range(pending) \subseteq Batches
      <4> HIDE DEF Batches
      <4>1. QED
        BY <2>1 DEF Range
    <3>2. QED
      BY <3>1, ElemsIsRange DEF Batches
  <2>3. b \in RowSets
    BY <1>1, <2>1, <2>2 DEF Open
  <2>4. QED
    BY <2>3, RowSetsMean
<1>4. write_cursor \in Nat /\ DOMAIN rows' \subseteq Nat
  BY RowSetsMean DEF TypeInv, Types
<1>5. QED
  BY <1>2, <1>3, <1>4

LEMMA TopUpCovers ==
  ASSUME TypeInv, Covering, TopUp, "drain" \notin Faulty, StopsAlike
  PROVE  Covering'
<1>0. /\ write_cursor \in Nat /\ rows \in RowSets /\ batch \in RowSets /\ ring \in Seq(Events)
      /\ \A q \in DOMAIN rows : q < write_cursor
      /\ phase = "topup" /\ batch = Drained(rows)
      /\ UNCHANGED <<shutdown, session, delivered, offered, starts>> /\ faults \in Nat
  BY DEF TypeInv, Types, Phased, TopUp
<1>1. DOMAIN rows \subseteq Nat /\ DOMAIN batch \subseteq DOMAIN rows /\ \A q \in DOMAIN batch : batch[q] = rows[q]
  BY <1>0, DrainedFacts, RowSetsMean
<1>2. CASE UNCHANGED <<ring, rows, write_cursor, batch, overflow, fate, faults>>
  <2>1. Open' = Open /\ rows' = rows /\ write_cursor' = write_cursor
    BY <1>0, <1>2 DEF Open, session
  <2>2. QED
    BY <2>1 DEF Covering
<1>3. ASSUME NEW t \in 1 .. Len(ring), NEW k \in 0 .. t, NEW keep \in Seq(Events),
             Len(keep) = k, PushOrFail(keep),
             \/ PushTo(keep) /\ batch' = Appended(batch, write_cursor, keep)
             \/ PushFails(keep) /\ UNCHANGED batch,
             k > 0 => HasRoom(batch, <<ring[1]>>)
      PROVE  Covering'
  <2>1. /\ rows' \in RowSets /\ write_cursor' \in Nat /\ write_cursor <= write_cursor'
        /\ \A q \in DOMAIN rows' :
             \/ q \in DOMAIN rows /\ rows'[q] = rows[q]
             \/ write_cursor <= q /\ \E i \in DOMAIN keep : q = write_cursor + i - 1 /\ rows'[q] = keep[i]
        /\ \A q \in DOMAIN rows' : q < write_cursor'
    BY <1>0, <1>3, PushRows
  <2>2. CASE batch' = batch
    <3>1. pending' = pending
      BY <1>0 DEF session
    <3>2. QED
      BY <2>1, <2>2, <3>1, CoveringKept
  <2>3. CASE PushTo(keep) /\ batch' = Appended(batch, write_cursor, keep) /\ k > 0
    <3>1. batch = rows
      <4>1. ring[1] \in Events
        <5> HIDE DEF Events
        <5>1. QED
          BY <1>0
      <4>2. IsFiniteSet(DOMAIN rows)
        BY <1>0, FiniteTable
      <4>3. QED
        BY <1>0, <1>3, <2>3, <4>1, <4>2 DEF StopsAlike
    <3>2. /\ \A q \in DOMAIN rows : q \in DOMAIN batch' /\ batch'[q] = rows[q]
          /\ \A i \in DOMAIN keep : write_cursor + i - 1 \in DOMAIN batch' /\ batch'[write_cursor + i - 1] = keep[i]
          /\ \A q \in DOMAIN batch' : q < write_cursor + Len(keep)
      <4>1. /\ rows \in RowSets /\ write_cursor \in Nat
            /\ \A q \in DOMAIN rows : q < write_cursor
        BY Zenon, <1>0
      <4> DEFINE g == Appended(rows, write_cursor, keep)
      <4>2. /\ \A q \in DOMAIN rows : q \in DOMAIN g /\ g[q] = rows[q]
            /\ \A i \in DOMAIN keep : write_cursor + i - 1 \in DOMAIN g /\ g[write_cursor + i - 1] = keep[i]
            /\ \A q \in DOMAIN g : q < write_cursor + Len(keep)
        BY <4>1, AppendedFacts
      <4> HIDE DEF g
      <4>3. batch' = g
        BY Zenon, <2>3, <3>1 DEF g
      <4>4. QED
        BY Zenon, <4>2, <4>3
    <3>3. write_cursor' = write_cursor + Len(keep)
      BY <2>3 DEF PushTo
    <3>4. \A q \in DOMAIN rows' : q \in DOMAIN batch' /\ batch'[q] = rows'[q]
      BY <2>1, <3>2
    <3>5. \A h \in DOMAIN batch' : h < write_cursor'
      BY <3>2, <3>3
    <3>6. ASSUME NEW b \in Elems(pending), NEW h \in DOMAIN b.rows
          PROVE  h < write_cursor' /\ \A q \in DOMAIN rows' : q <= h => q \in DOMAIN b.rows /\ b.rows[q] = rows'[q]
      <4>1. /\ h < write_cursor
            /\ \A q \in DOMAIN rows : q <= h => q \in DOMAIN b.rows /\ b.rows[q] = rows[q]
        BY <3>6 DEF Covering, Open
      <4>2. h \in Nat /\ DOMAIN rows' \subseteq Nat
        <5>1. b \in Batches
          <6> HIDE DEF Batches
          <6>1. pending \in Seq(Batches)
            BY DEF TypeInv, Types
          <6>2. QED
            BY <6>1 DEF Elems
        <5>2. b.rows \in RowSets
          BY <5>1 DEF Batches
        <5>3. QED
          BY <2>1, <5>2, RowSetsMean
      <4>3. QED
        BY <1>0, <2>1, <4>1, <4>2
    <3>7. pending' = pending
      BY <1>0 DEF session
    <3>8. ASSUME NEW b \in Open', NEW h \in DOMAIN b
          PROVE  h < write_cursor' /\ \A q \in DOMAIN rows' : q <= h => q \in DOMAIN b /\ b[q] = rows'[q]
      <4>1. CASE b = batch'
        BY <3>4, <3>5, <4>1
      <4>2. CASE \E c \in Elems(pending) : b = c.rows
        BY <3>6, <4>2
      <4>3. QED
        BY <3>7, <4>1, <4>2 DEF Open
    <3>9. QED
      BY <3>8 DEF Covering
  <2>4. CASE PushTo(keep) /\ batch' = Appended(batch, write_cursor, keep) /\ ~(k > 0)
    <3>1. keep = <<>>
      <4> HIDE DEF Events
      <4>1. Len(keep) = 0
        BY <1>3, <2>4
      <4>2. QED
        BY <4>1
    <3>2. \A q \in DOMAIN batch : q < write_cursor
      BY <1>0, <1>1
    <3>3. batch' = batch
      BY <1>0, <2>4, <3>1, <3>2, AppendedNothing
    <3>4. QED
      BY <2>2, <3>3
  <2>5. QED
    BY <1>3, <2>2, <2>3, <2>4
<1>4. CASE ~UNCHANGED <<ring, rows, write_cursor, batch, overflow, fate, faults>>
  <2>1. PICK t \in 1 .. Len(ring) : \E k \in 0 .. t : \E keep \in Seq(Events) :
          /\ Len(keep) = k /\ PushOrFail(keep)
          /\ \/ PushTo(keep) /\ batch' = Appended(batch, write_cursor, keep)
             \/ PushFails(keep) /\ UNCHANGED batch
          /\ k > 0 => HasRoom(batch, <<ring[1]>>)
    BY ZenonT(60), <1>4, TopUpCuts
  <2>2. PICK k \in 0 .. t : \E keep \in Seq(Events) :
          /\ Len(keep) = k /\ PushOrFail(keep)
          /\ \/ PushTo(keep) /\ batch' = Appended(batch, write_cursor, keep)
             \/ PushFails(keep) /\ UNCHANGED batch
          /\ k > 0 => HasRoom(batch, <<ring[1]>>)
    BY <2>1
  <2>3. QED
    BY <1>3, <2>2
<1>5. QED
  BY <1>2, <1>4

(* Only SendBatch makes a batch, only ServerTakes an ack and a delivery.   *)
LEMMA MessagesMove ==
  ASSUME TypeInv, [Next]_vars
  PROVE  \/ SendBatch
         \/ \E s \in Sessions : ServerTakes(s)
         \/ /\ AllBatches' \subseteq AllBatches /\ Elems(pending') \subseteq Elems(pending)
            /\ Elems(acks') \subseteq Elems(acks) /\ sent' = sent /\ delivered' = delivered
<1> DEFINE Goal == /\ AllBatches' \subseteq AllBatches /\ Elems(pending') \subseteq Elems(pending)
                   /\ Elems(acks') \subseteq Elems(acks) /\ sent' = sent /\ delivered' = delivered
<1>0. /\ pending \in Seq(Batches) /\ acks \in Seq(Nat)
      /\ Elems(<<>>) = {} /\ <<>> \in Seq(Batches)
  BY DEF TypeInv, Types, Elems
<1>1. CASE UNCHANGED <<session, delivered>>
  BY <1>1 DEF session, AllBatches
<1>2. CASE pending' = <<>> /\ acks' = <<>> /\ UNCHANGED <<conns, sent, delivered>>
  BY <1>0, <1>2 DEF AllBatches
<1>3. CASE HandshakeOk
  BY <1>3 DEF HandshakeOk, AllBatches
<1>4. CASE Ack
  <2>1. Elems(acks') \subseteq Elems(acks) /\ Elems(pending') \subseteq Elems(pending)
    BY <1>4, AckSets
  <2>2. UNCHANGED <<conns, sent, delivered>>
    BY <1>4 DEF Ack
  <2>3. QED
    BY <2>1, <2>2 DEF AllBatches
<1>5. ASSUME NEW s \in Sessions, ConnectionDies(s) PROVE Goal
  <2>1. /\ conns[s] # <<>> /\ conns' = [conns EXCEPT ![s] = <<>>]
        /\ UNCHANGED <<pending, sent, acks, delivered>>
    BY <1>5 DEF ConnectionDies
  <2>2. AllBatches' \subseteq AllBatches
    BY <2>1, PeerSets
  <2>3. QED
    BY <2>1, <2>2
<1>6. CASE Process
  <2>1. Offer \/ Start \/ TriggerShutdown \/ BufferRing => UNCHANGED <<session, delivered>>
    BY DEF Offer, Start, TriggerShutdown, BufferRing
  <2>2. ProcessGone => pending' = <<>> /\ acks' = <<>> /\ UNCHANGED <<conns, sent, delivered>>
    BY DEF ProcessGone
  <2>3. QED
    BY <1>1, <1>2, <1>6, <2>1, <2>2 DEF Process, ProcessExit, Crash
<1>7. CASE Actor
  <2>1. LeaveLoop \/ Connect \/ ConnectFails \/ PersistLeftover \/ FlushSpill \/ TopUp \/ SpillOverflow \/ SkipBatch
          => UNCHANGED <<session, delivered>>
    BY DEF LeaveLoop, Connect, ConnectFails, PersistLeftover, FlushSpill, TopUp, SpillOverflow, SkipBatch
  <2>2. Disconnect \/ StopOnline => pending' = <<>> /\ acks' = <<>> /\ UNCHANGED <<conns, sent, delivered>>
    BY DEF Disconnect, StopOnline, EndSession
  <2>3. QED
    BY <1>1, <1>2, <1>3, <1>4, <1>7, <2>1, <2>2 DEF Actor
<1>8. CASE Peer
  BY <1>5, <1>8 DEF Peer
<1>9. CASE UNCHANGED vars
  BY <1>1, <1>9 DEF vars
<1>10. QED
  BY <1>6, <1>7, <1>8, <1>9 DEF Next

LEMMA NamedKept ==
  ASSUME TypeInv, Named, [Next]_vars
  PROVE  Named'
<1>0. /\ \A b \in AllBatches : b.id < sent
      /\ \A b, c \in AllBatches : b.id = c.id => b = c
      /\ \A k \in Elems(acks) : k < sent
      /\ \A k \in Elems(acks) : \A b \in Elems(pending) : b.id = k => Elems(b.rows) \subseteq delivered
  BY DEF Named
<1>1. sent \in Nat /\ (\A b \in AllBatches : b.id \in Nat) /\ acks \in Seq(Nat) /\ Elems(pending) \subseteq AllBatches
  BY TypesMean DEF TypeInv, Types, TypeOK, AllBatches
<1>11. Elems(acks) \subseteq Nat
  BY <1>1 DEF Elems
<1>2. CASE /\ AllBatches' \subseteq AllBatches /\ Elems(pending') \subseteq Elems(pending)
           /\ Elems(acks') \subseteq Elems(acks) /\ sent' = sent /\ delivered' = delivered
  BY <1>0, <1>2 DEF Named
<1>3. CASE SendBatch
  <2>1. /\ AllBatches' \subseteq AllBatches \cup {Message} /\ Elems(pending') \subseteq Elems(pending) \cup {Message}
    BY <1>3, SendBatchSets
  <2>2. sent' = sent + 1 /\ delivered' = delivered /\ Message.id = sent /\ (acks' = acks \/ acks' = <<>>)
    BY <1>3 DEF SendBatch, EndSession, Message
  <2>3. Elems(acks') \subseteq Elems(acks)
    BY <2>2 DEF Elems
  <2> DEFINE m == Message
  <2>4. m.id = sent
    BY <2>2
  <2> HIDE DEF m
  <2>5. \A b \in AllBatches \cup {m} : b.id < sent + 1
    BY <1>0, <1>1, <2>4
  <2>6. \A b, c \in AllBatches \cup {m} : b.id = c.id => b = c
    BY <1>0, <1>1, <2>4
  <2>7. \A k \in Elems(acks) : k < sent + 1
    BY <1>0, <1>1, <1>11
  <2>8. \A k \in Elems(acks) : \A b \in Elems(pending) \cup {m} : b.id = k => Elems(b.rows) \subseteq delivered
    BY <1>0, <1>1, <1>11, <2>4
  <2>9. AllBatches' \subseteq AllBatches \cup {m} /\ Elems(pending') \subseteq Elems(pending) \cup {m}
    BY <2>1 DEF m
  <2>10. QED
    BY <2>2, <2>3, <2>5, <2>6, <2>7, <2>8, <2>9 DEF Named
<1>4. ASSUME NEW s \in Sessions, ServerTakes(s) PROVE Named'
  <2> DEFINE m == Head(conns[s])
  <2>1. /\ conns[s] # <<>> /\ conns' = [conns EXCEPT ![s] = Tail(conns[s])] /\ UNCHANGED <<pending, sent>>
        /\ delivered' = delivered \cup Elems(m.rows)
        /\ acks' = acks \/ acks' = Append(acks, m.id)
    BY <1>4 DEF ServerTakes
  <2>2. AllBatches' \subseteq AllBatches /\ m \in AllBatches
    BY <2>1, PeerSets
  <2> HIDE DEF m
  <2>3. Elems(acks') \subseteq Elems(acks) \cup {m.id}
    <3>1. m.id \in Nat
      BY <1>1, <2>2
    <3>2. Range(Append(acks, m.id)) = Range(acks) \cup {m.id}
      BY <1>1, <3>1, AppendRange
    <3>3. QED
      BY <2>1, <3>2, ElemsIsRange
  <2>4. \A b \in Elems(pending) : b.id = m.id => Elems(b.rows) \subseteq delivered'
    BY <1>0, <1>1, <2>1, <2>2
  <2>5. QED
    BY <1>0, <2>1, <2>2, <2>3, <2>4 DEF Named
<1>5. QED
  BY <1>2, <1>3, <1>4, MessagesMove

LEMMA CoveredKept ==
  ASSUME TypeInv, Covering, [Next]_vars, TypeInv', "drain" \notin Faulty, StopsAlike
  PROVE  Covering'
<1>0. /\ write_cursor \in Nat /\ rows \in RowSets /\ \A q \in DOMAIN rows : q < write_cursor
      /\ DOMAIN rows \subseteq Nat
      /\ faults \in Nat /\ ring \in Seq(Events) /\ overflow \in Seq(Events)
  BY RowSetsMean DEF TypeInv, Types, Phased
<1>1. ASSUME NEW evs \in Seq(Events), PushOrFail(evs), batch' = batch, pending' = pending
      PROVE  Covering'
  <2>1. /\ rows' \in RowSets /\ write_cursor' \in Nat /\ write_cursor <= write_cursor'
        /\ \A q \in DOMAIN rows' : (q \in DOMAIN rows /\ rows'[q] = rows[q]) \/ write_cursor <= q
    BY <1>0, <1>1, PushRows DEF PushOrFail
  <2>2. QED
    BY <1>1, <2>1, CoveringKept
<1>2. ASSUME rows' \in RowSets, \A q \in DOMAIN rows' : q \in DOMAIN rows /\ rows'[q] = rows[q],
             write_cursor' = write_cursor, batch' \in {batch, NoRows},
             Elems(pending') \subseteq Elems(pending) \cup {[id |-> sent, rows |-> batch]}
      PROVE  Covering'
  BY <1>0, <1>2, CoveringKept
<1>3. CASE UNCHANGED <<rows, write_cursor, batch, pending>>
  BY <1>0, <1>2, <1>3
<1>4. CASE Start \/ ProcessGone
  <2>1. phase' \notin InSession /\ batch' = NoRows
    BY <1>4, <1>0 DEF Start, ProcessGone, InSession, TypeInv, Phased
  <2>2. pending' = <<>>
    BY <2>1 DEF TypeInv, Phased
  <2>3. Open' = {NoRows}
    BY <2>1, <2>2 DEF Open, Elems
  <2>4. QED
    BY <2>3, NoRowsFacts DEF Covering
<1>5. CASE Process
  <2>1. Offer \/ TriggerShutdown => UNCHANGED <<rows, write_cursor, batch, pending>>
    BY DEF Offer, TriggerShutdown, buffers, session
  <2>2. BufferRing => PushOrFail(ring) /\ UNCHANGED <<batch, pending>>
    BY DEF BufferRing, session
  <2>3. QED
    BY <1>0, <1>1, <1>3, <1>4, <1>5, <2>1, <2>2 DEF Process, ProcessExit, Crash
<1>6. CASE Disconnect \/ StopOnline
  <2>1. UNCHANGED <<rows, write_cursor, batch>> /\ pending' = <<>>
    BY <1>6 DEF Disconnect, StopOnline, EndSession, buffers
  <2>2. Elems(pending') = {}
    BY <2>1 DEF Elems
  <2>3. QED
    BY <1>0, <1>2, <2>1, <2>2
<1>7. CASE FlushSpill
  <2>1. batch' = Drained(rows) /\ UNCHANGED <<rows, write_cursor, pending>>
    BY <1>7 DEF FlushSpill, Fault, session
  <2>2. /\ DOMAIN batch' \subseteq DOMAIN rows /\ \A q \in DOMAIN batch' : batch'[q] = rows[q]
        /\ \A q \in DOMAIN rows : \A h \in DOMAIN batch' : q <= h => q \in DOMAIN batch'
    BY <1>0, <2>1, DrainedFacts
  <2>3. Open' \subseteq Open \cup {batch'}
    BY <2>1 DEF Open
  <2>4. QED
    BY <1>0, <2>1, <2>2, <2>3 DEF Covering
<1>8. CASE SendBatch
  <2>1. UNCHANGED <<rows, write_cursor>> /\ batch' = NoRows
    BY <1>8 DEF SendBatch
  <2>2. Elems(pending') \subseteq Elems(pending) \cup {[id |-> sent, rows |-> batch]}
    BY <1>8, SendBatchSets DEF Message
  <2>3. QED
    BY <1>0, <1>2, <2>1, <2>2
<1>9. CASE SkipBatch
  <2>1. rows' \in {rows, AckedThrough(rows, batch)} /\ batch' = NoRows /\ UNCHANGED <<write_cursor, pending>>
    BY <1>9 DEF SkipBatch, session
  <2>2. rows' \in RowSets /\ \A q \in DOMAIN rows' : q \in DOMAIN rows /\ rows'[q] = rows[q]
    BY <1>0, <2>1, AckedRows
  <2>3. QED
    BY <1>2, <2>1, <2>2
<1>10. CASE Ack
  <2>1. Elems(pending') \subseteq Elems(pending) /\ \E b \in Elems(pending) : rows' \in {rows, AckedThrough(rows, b.rows)}
    BY <1>10, AckSets
  <2>2. UNCHANGED <<write_cursor, batch>>
    BY <1>10 DEF Ack
  <2>3. rows' \in RowSets /\ \A q \in DOMAIN rows' : q \in DOMAIN rows /\ rows'[q] = rows[q]
    <3>1. PICK b : rows' \in {rows, AckedThrough(rows, b.rows)}
      BY <2>1
    <3>2. QED
      BY <1>0, <3>1, AckedRows
  <2>4. QED
    BY <1>2, <2>1, <2>2, <2>3
<1>11. CASE Actor
  <2>1. LeaveLoop \/ Connect \/ ConnectFails \/ HandshakeOk => UNCHANGED <<rows, write_cursor, batch, pending>>
    BY DEF LeaveLoop, Connect, ConnectFails, HandshakeOk, buffers, session
  <2>2. /\ PersistLeftover => PushOrFail(ring) /\ UNCHANGED <<batch, pending>>
        /\ SpillOverflow => PushOrFail(overflow) /\ UNCHANGED <<batch, pending>>
    BY DEF PersistLeftover, SpillOverflow, session
  <2>3. QED
    BY <1>0, <1>1, <1>3, <1>6, <1>7, <1>8, <1>9, <1>10, <1>11, <2>1, <2>2, TopUpCovers DEF Actor
<1>12. Peer => UNCHANGED <<rows, write_cursor, batch, pending>>
  BY DEF Peer, ServerTakes, ConnectionDies, buffers
<1>13. UNCHANGED vars => UNCHANGED <<rows, write_cursor, batch, pending>>
  BY DEF vars, buffers, session
<1>14. QED
  BY <1>3, <1>5, <1>11, <1>12, <1>13 DEF Next

(* A push accounts for every event it was given and every row there was.   *)
LEMMA PushAccounts ==
  ASSUME TypeInv, NEW evs \in Seq(Events), PushOrFail(evs)
  PROVE  /\ \A e \in Events : fate[e] # "none" => fate'[e] = fate[e]
         /\ \A e \in Events : e \in Elems(rows) \cup Elems(evs) => e \in Elems(rows') \/ fate'[e] # "none"
<1>1. /\ write_cursor \in Nat /\ rows \in RowSets /\ faults \in Nat /\ fate \in [Events -> Fates]
      /\ \A q \in DOMAIN rows : q < write_cursor
  BY DEF TypeInv, Types, Phased
<1>2. (PushTo(evs) \/ PushFails(evs)) /\ PushLoss(evs)
  BY DEF PushOrFail
<1>3. faults' \in {faults, faults + 1}
  BY <1>1, <1>2, PushRows
<1>4. QED
  BY <1>1, <1>2, <1>3, PushFates

(* Between them the three pieces of a ring hold all of it.                 *)
LEMMA PiecesCover ==
  ASSUME NEW r \in Seq(Events), NEW t \in 1 .. Len(r), NEW k \in 0 .. t,
         NEW a \in Seq(Events), Len(a) = k, \A i \in 1 .. k : a[i] = r[i],
         NEW b \in Seq(Events), Len(b) = t - k, \A i \in 1 .. t - k : b[i] = r[k + i],
         NEW c \in Seq(Events), Len(c) = Len(r) - t, \A i \in 1 .. Len(r) - t : c[i] = r[t + i]
  PROVE  Elems(r) \subseteq Elems(a) \cup Elems(b) \cup Elems(c)
<1> HIDE DEF Events
<1>1. /\ DOMAIN r = 1 .. Len(r) /\ DOMAIN a = 1 .. k /\ Len(r) \in Nat
      /\ DOMAIN b = 1 .. t - k /\ DOMAIN c = 1 .. Len(r) - t
  OBVIOUS
<1>2. ASSUME NEW i \in 1 .. Len(r)
      PROVE  r[i] \in Elems(a) \cup Elems(b) \cup Elems(c)
  <2>1. CASE i <= k
    <3>1. i \in DOMAIN a /\ a[i] = r[i]
      BY <1>1, <2>1
    <3>2. QED
      BY <3>1 DEF Elems
  <2>2. CASE k < i /\ i <= t
    <3>1. i - k \in 1 .. t - k /\ k + (i - k) = i
      BY <2>2
    <3>2. i - k \in DOMAIN b /\ b[i - k] = r[i]
      BY <1>1, <3>1
    <3>3. QED
      BY <3>2 DEF Elems
  <2>3. CASE t < i
    <3>1. i - t \in 1 .. Len(r) - t /\ t + (i - t) = i
      BY <1>1, <2>3
    <3>2. i - t \in DOMAIN c /\ c[i - t] = r[i]
      BY <1>1, <3>1
    <3>3. QED
      BY <3>2 DEF Elems
  <2>4. QED
    BY <2>1, <2>2, <2>3
<1>3. QED
  BY <1>1, <1>2 DEF Elems

LEMMA TopUpAccounts ==
  ASSUME TypeInv, TopUp
  PROVE  /\ \A e \in Events : fate[e] # "none" => fate'[e] = fate[e]
         /\ \A e \in Events : e \in Buffered => e \in Buffered' \/ fate'[e] # "none"
<1>0. ring \in Seq(Events) /\ overflow = <<>>
  BY DEF TypeInv, Types, Phased, TopUp
<1>1. CASE UNCHANGED <<ring, rows, write_cursor, batch, overflow, fate, faults>>
  BY <1>1 DEF Buffered
<1>2. ASSUME NEW t \in 1 .. Len(ring), NEW k \in 0 .. t, NEW keep \in Seq(Events),
             Len(keep) = k, \A i \in 1 .. k : keep[i] = ring[i],
             ring' \in Seq(Events), Len(ring') = Len(ring) - t, \A i \in 1 .. Len(ring) - t : ring'[i] = ring[t + i],
             overflow' \in Seq(Events), Len(overflow') = t - k, \A i \in 1 .. t - k : overflow'[i] = ring[k + i],
             PushOrFail(keep)
      PROVE  /\ \A e \in Events : fate[e] # "none" => fate'[e] = fate[e]
             /\ \A e \in Events : e \in Buffered => e \in Buffered' \/ fate'[e] # "none"
  <2>1. /\ \A e \in Events : fate[e] # "none" => fate'[e] = fate[e]
        /\ \A e \in Events : e \in Elems(rows) \cup Elems(keep) => e \in Elems(rows') \/ fate'[e] # "none"
    BY <1>2, PushAccounts
  <2>2. Elems(ring) \subseteq Elems(keep) \cup Elems(overflow') \cup Elems(ring')
    BY <1>0, <1>2, PiecesCover
  <2>3. Elems(overflow) = {}
    BY <1>0 DEF Elems
  <2>4. QED
    BY <2>1, <2>2, <2>3 DEF Buffered
<1>3. CASE ~UNCHANGED <<ring, rows, write_cursor, batch, overflow, fate, faults>>
  <2>1. PICK t \in 1 .. Len(ring) : \E k \in 0 .. t : \E keep \in Seq(Events) :
          /\ Len(keep) = k /\ \A i \in 1 .. k : keep[i] = ring[i]
          /\ ring' \in Seq(Events) /\ Len(ring') = Len(ring) - t
          /\ \A i \in 1 .. Len(ring) - t : ring'[i] = ring[t + i]
          /\ overflow' \in Seq(Events) /\ Len(overflow') = t - k
          /\ \A i \in 1 .. t - k : overflow'[i] = ring[k + i]
          /\ PushOrFail(keep)
    BY ZenonT(60), <1>3, TopUpCuts
  <2>2. PICK k \in 0 .. t : \E keep \in Seq(Events) :
          /\ Len(keep) = k /\ \A i \in 1 .. k : keep[i] = ring[i]
          /\ ring' \in Seq(Events) /\ Len(ring') = Len(ring) - t
          /\ \A i \in 1 .. Len(ring) - t : ring'[i] = ring[t + i]
          /\ overflow' \in Seq(Events) /\ Len(overflow') = t - k
          /\ \A i \in 1 .. t - k : overflow'[i] = ring[k + i]
          /\ PushOrFail(keep)
    BY <2>1
  <2>3. QED
    BY <1>2, <2>2
<1>4. QED
  BY <1>1, <1>3

LEMMA OfferRing ==
  ASSUME TypeInv, Offer
  PROVE  /\ offered < MaxEvents /\ offered' = offered + 1 /\ offered + 1 \in Events
         /\ Elems(ring') \subseteq Elems(ring) \cup {offered + 1} /\ offered + 1 \in Elems(ring')
         /\ \/ Elems(ring) \subseteq Elems(ring') /\ fate' = fate
            \/ /\ ring # <<>> /\ Head(ring) \in Elems(ring)
               /\ Elems(ring') = Elems(Tail(ring)) \cup {offered + 1}
               /\ Elems(ring) = Elems(Tail(ring)) \cup {Head(ring)}
               /\ fate' = Lost({Head(ring)}, "ring_full")
         /\ UNCHANGED <<phase, shutdown, rows, write_cursor, batch, overflow, session, delivered, bounds>>
<1> DEFINE x == offered + 1
<1>1. /\ offered < MaxEvents /\ offered' = x
      /\ UNCHANGED <<phase, shutdown, rows, write_cursor, batch, overflow, session, delivered, bounds>>
      /\ \/ /\ Len(ring) >= RingCapacity /\ ring' = Append(Tail(ring), x)
            /\ fate' = Lost({Head(ring)}, "ring_full")
         \/ ~(Len(ring) >= RingCapacity) /\ ring' = Append(ring, x) /\ UNCHANGED fate
  BY DEF Offer
<1>2. ring \in Seq(Events) /\ RingCapacity \in Nat \ {0} /\ MaxEvents \in Nat /\ offered \in Nat
  BY ForwarderAssumption DEF TypeInv, Types
<1>3. x \in Events
  BY <1>1, <1>2 DEF Events
<1> HIDE DEF x, Events
<1>4. CASE Len(ring) >= RingCapacity /\ ring' = Append(Tail(ring), x) /\ fate' = Lost({Head(ring)}, "ring_full")
  <2>1. ring # <<>>
    <3>1. Len(ring) > 0 /\ Len(<<>>) = 0
      BY <1>2, <1>4
    <3>2. QED
      BY <3>1
  <2> DEFINE h == Head(ring)
             u == Tail(ring)
  <2>2. h \in Events /\ u \in Seq(Events) /\ Range(ring) = {h} \cup Range(u)
    BY <1>2, <2>1, TailRange
  <2> HIDE DEF h, u
  <2>3. Range(Append(u, x)) = Range(u) \cup {x}
    BY <1>3, <2>2, AppendRange
  <2>4. ring' = Append(u, x)
    BY <1>4 DEF u
  <2>5. Elems(ring) = Elems(u) \cup {h} /\ Elems(ring') = Elems(u) \cup {x}
    BY <2>2, <2>3, <2>4, ElemsIsRange
  <2>6. QED
    BY <1>1, <1>3, <1>4, <2>1, <2>5 DEF h, u, x
<1>5. CASE ring' = Append(ring, x) /\ UNCHANGED fate
  <2>1. Range(Append(ring, x)) = Range(ring) \cup {x}
    BY <1>2, <1>3, AppendRange
  <2>2. Elems(ring') = Elems(ring) \cup {x}
    BY <1>5, <2>1, ElemsIsRange
  <2>3. QED
    BY <1>1, <1>3, <1>5, <2>2 DEF x
<1>6. QED
  BY <1>1, <1>4, <1>5

(* Each step accounts for what it takes out of the buffers.                *)
LEMMA StepAccounts ==
  ASSUME TypeInv, Covering, Named, [Next]_vars
  PROVE  /\ \A e \in Events : fate[e] # "none" => fate'[e] # "none"
         /\ delivered \subseteq delivered'
         /\ \A e \in Events : e \in Buffered => e \in Buffered' \cup delivered' \/ fate'[e] # "none"
         /\ offered' = offered \/ Offer
<1> DEFINE Goal == /\ \A e \in Events : fate[e] # "none" => fate'[e] # "none"
                   /\ delivered \subseteq delivered'
                   /\ \A e \in Events : e \in Buffered => e \in Buffered' \cup delivered' \/ fate'[e] # "none"
                   /\ offered' = offered \/ Offer
<1>0. Types /\ Phased /\ Elems(<<>>) = {}
  BY DEF TypeInv, Elems
<1>1. CASE UNCHANGED <<ring, rows, overflow, delivered, fate, offered>>
  BY <1>1 DEF Buffered
<1>2. CASE Offer
  <2>0. UNCHANGED <<rows, overflow, delivered>>
    BY <1>2 DEF Offer
  <2>1. fate \in [Events -> Fates] /\ "ring_full" \in Fates
    BY <1>0 DEF Types, Fates
  <2>2. CASE Elems(ring) \subseteq Elems(ring') /\ fate' = fate
    BY <1>2, <2>0, <2>2 DEF Buffered
  <2>3. CASE /\ Elems(ring') = Elems(Tail(ring)) \cup {offered + 1}
             /\ Elems(ring) = Elems(Tail(ring)) \cup {Head(ring)}
             /\ fate' = Lost({Head(ring)}, "ring_full")
    <3> DEFINE h == Head(ring)
               u == Tail(ring)
    <3>1. \A e \in Events : fate'[e] = IF e \in {h} /\ fate[e] = "none" THEN "ring_full" ELSE fate[e]
      BY Zenon, <2>1, <2>3, LossMarks
    <3>2. Elems(ring') = Elems(u) \cup {offered + 1} /\ Elems(ring) = Elems(u) \cup {h}
      BY <2>3
    <3> HIDE DEF h, u
    <3>3. QED
      BY <1>2, <2>0, <3>1, <3>2 DEF Buffered
  <2>4. QED
    BY <1>2, <2>2, <2>3, OfferRing
<1>3. CASE ProcessGone
  <2>1. /\ fate' = Lost((Elems(ring) \cup Elems(overflow)) \ Elems(rows), "process_exit")
        /\ UNCHANGED <<rows, delivered, offered>>
    BY <1>3 DEF ProcessGone
  <2>2. \A e \in Events : fate'[e] = IF e \in (Elems(ring) \cup Elems(overflow)) \ Elems(rows) /\ fate[e] = "none"
                                    THEN "process_exit" ELSE fate[e]
    <3>1. fate \in [Events -> Fates]
      BY Zenon, <1>0 DEF Types
    <3>2. QED
      BY Zenon, <2>1, <3>1, LossMarks
  <2>3. QED
    BY <2>1, <2>2 DEF Buffered
<1>4. CASE BufferRing \/ PersistLeftover
  <2>1. PushOrFail(ring) /\ UNCHANGED <<overflow, delivered, offered>>
    BY <1>4 DEF BufferRing, PersistLeftover
  <2>2. ring \in Seq(Events)
    BY <1>0 DEF Types
  <2>3. QED
    BY <2>1, <2>2, PushAccounts DEF Buffered
<1>5. CASE SpillOverflow
  <2>1. PushOrFail(overflow) /\ UNCHANGED <<ring, delivered, offered>>
    BY <1>5 DEF SpillOverflow
  <2>2. overflow \in Seq(Events)
    BY <1>0 DEF Types
  <2>3. QED
    BY <2>1, <2>2, PushAccounts DEF Buffered
<1>6. CASE TopUp
  <2>1. UNCHANGED <<delivered, offered>>
    BY <1>6 DEF TopUp
  <2>2. QED
    BY <1>6, <2>1, TopUpAccounts
<1>7. ASSUME NEW b, UNCHANGED <<ring, overflow, delivered, offered>>,
             rows' = AckedThrough(rows, b),
             \A h \in DOMAIN b : \A q \in DOMAIN rows : q <= h => q \in DOMAIN b /\ b[q] = rows[q],
             DOMAIN b \subseteq Nat,
             \A e \in Events : fate[e] # "none" => fate'[e] # "none",
             \A e \in Elems(b) : e \in Events => e \in delivered \/ fate'[e] # "none"
      PROVE  Goal
  <2>1. rows \in RowSets /\ DOMAIN rows \subseteq Nat /\ \A q \in DOMAIN rows : rows[q] \in Events
    BY <1>0, RowSetsMean DEF Types
  <2>2. /\ DOMAIN rows' = {q \in DOMAIN rows : \A h \in DOMAIN b : h < q}
        /\ \A q \in DOMAIN rows' : rows'[q] = rows[q]
    BY ZenonT(60), <1>7, <2>1, AckedFacts
  <2>3. \A q \in DOMAIN rows : q \in DOMAIN rows' \/ rows[q] \in Elems(b)
    BY <1>7, <2>1, <2>2 DEF Elems
  <2>4. \A e \in Elems(rows) : e \in Elems(rows') \/ e \in Elems(b)
    BY <2>2, <2>3 DEF Elems
  <2>5. QED
    BY <1>7, <2>4 DEF Buffered
<1>8. CASE SkipBatch
  <2>0. UNCHANGED <<ring, overflow, delivered, offered>>
    BY <1>8 DEF SkipBatch
  <2>1. CASE UNCHANGED <<rows, fate>>
    BY <1>1, <2>0, <2>1
  <2>2. CASE rows' = AckedThrough(rows, batch) /\ fate' = Lost(Elems(batch), "oversize")
    <3>1. \A e \in Events : fate'[e] = IF e \in Elems(batch) /\ fate[e] = "none" THEN "oversize" ELSE fate[e]
      <4>1. fate \in [Events -> Fates]
        BY Zenon, <1>0 DEF Types
      <4>2. QED
        BY Zenon, <2>2, <4>1, LossMarks
    <3>2. \A h \in DOMAIN batch : \A q \in DOMAIN rows : q <= h => q \in DOMAIN batch /\ batch[q] = rows[q]
      BY DEF Covering, Open
    <3>3. DOMAIN batch \subseteq Nat
      BY <1>0, RowSetsMean DEF Types
    <3>4. QED
      BY <1>7, <2>0, <2>2, <3>1, <3>2, <3>3
  <2>3. QED
    BY <1>8, <2>1, <2>2 DEF SkipBatch
<1>9. CASE Ack
  <2>1. /\ Head(acks) \in Elems(acks)
        /\ \E b \in Elems(pending) : b.id = Head(acks) /\ rows' \in {rows, AckedThrough(rows, b.rows)}
    BY <1>9, AckSets
  <2>2. UNCHANGED <<ring, overflow, delivered, offered, fate>>
    BY <1>9 DEF Ack
  <2>3. PICK b \in Elems(pending) : b.id = Head(acks) /\ rows' \in {rows, AckedThrough(rows, b.rows)}
    BY <2>1
  <2>4. Elems(b.rows) \subseteq delivered
    BY <2>1, <2>3 DEF Named
  <2>5. \A h \in DOMAIN b.rows : \A q \in DOMAIN rows : q <= h => q \in DOMAIN b.rows /\ b.rows[q] = rows[q]
    BY <2>3 DEF Covering, Open
  <2>6. DOMAIN b.rows \subseteq Nat
    BY <2>3, TypesMean DEF TypeOK, AllBatches
  <2>7. CASE rows' = rows
    BY <1>1, <2>2, <2>7
  <2>8. CASE rows' = AckedThrough(rows, b.rows)
    BY <1>7, <2>2, <2>4, <2>5, <2>6, <2>8
  <2>9. QED
    BY <2>3, <2>7, <2>8
<1>10. CASE Process
  <2>1. Start \/ TriggerShutdown => UNCHANGED <<ring, rows, overflow, delivered, fate, offered>>
    BY DEF Start, TriggerShutdown, buffers
  <2>2. QED
    BY <1>1, <1>2, <1>3, <1>4, <1>10, <2>1 DEF Process, ProcessExit, Crash
<1>11. CASE Actor
  <2>1. LeaveLoop \/ Connect \/ ConnectFails \/ HandshakeOk \/ Disconnect \/ StopOnline \/ FlushSpill \/ SendBatch
          => UNCHANGED <<ring, rows, overflow, delivered, fate, offered>>
    BY DEF LeaveLoop, Connect, ConnectFails, HandshakeOk, Disconnect, StopOnline, FlushSpill, SendBatch, buffers
  <2>2. QED
    BY <1>1, <1>4, <1>5, <1>6, <1>8, <1>9, <1>11, <2>1 DEF Actor
<1>12. CASE Peer
  <2>1. /\ UNCHANGED <<ring, rows, overflow, fate, offered>> /\ delivered \subseteq delivered'
    BY <1>12 DEF Peer, ServerTakes, ConnectionDies, buffers
  <2>2. QED
    BY <2>1 DEF Buffered
<1>13. CASE UNCHANGED vars
  BY <1>1, <1>13 DEF vars, buffers
<1>14. QED
  BY <1>10, <1>11, <1>12, <1>13 DEF Next

LEMMA NothingLost ==
  ASSUME TypeInv, Covering, Named, NoSilentLoss, [Next]_vars, TypeInv'
  PROVE  NoSilentLoss'
<1>1. /\ \A e \in Events : fate[e] # "none" => fate'[e] # "none"
      /\ delivered \subseteq delivered'
      /\ \A e \in Events : e \in Buffered => e \in Buffered' \cup delivered' \/ fate'[e] # "none"
      /\ offered' = offered \/ Offer
  BY StepAccounts
<1>2. \A e \in 1 .. offered : e \in Events
  <2>1. MaxEvents \in Nat /\ offered \in 0 .. MaxEvents
    BY ForwarderAssumption DEF TypeInv, Types
  <2>2. QED
    BY <2>1 DEF Events
<1>3. \A e \in 1 .. offered : e \in Buffered' \cup delivered' \/ fate'[e] # "none"
  BY <1>1, <1>2 DEF NoSilentLoss
<1>4. CASE offered' = offered
  BY <1>3, <1>4 DEF NoSilentLoss
<1>5. CASE Offer
  <2>1. offered' = offered + 1 /\ offered + 1 \in Elems(ring')
    BY <1>5, OfferRing
  <2>2. \A e \in 1 .. offered' : e \in 1 .. offered \/ e = offered + 1
    BY <2>1 DEF TypeInv, Types
  <2>3. QED
    BY <1>3, <2>1, <2>2 DEF NoSilentLoss, Buffered
<1>6. QED
  BY <1>1, <1>4, <1>5

LossInv == TypeInv /\ Covering /\ Named /\ NoSilentLoss

LEMMA LossHolds ==
  ASSUME "drain" \notin Faulty, StopsAlike
  PROVE  Spec => []LossInv
<1>1. Init => LossInv
  <2> SUFFICES ASSUME Init PROVE LossInv
    OBVIOUS
  <2>1. Open = {NoRows} /\ AllBatches = {} /\ Elems(acks) = {} /\ 1 .. offered = {} /\ Elems(pending) = {}
    BY DEF Init, Open, AllBatches, Elems
  <2>2. QED
    BY <2>1, InitTypes, NoRowsFacts DEF LossInv, Covering, Named, NoSilentLoss
<1>2. LossInv /\ [Next]_vars => LossInv'
  BY TypesKept, CoveredKept, NamedKept, NothingLost DEF LossInv
<1>3. QED
  BY <1>1, <1>2, PTL DEF Spec

(* Whatever is delayed, lost, repeated or restarted, and whichever writes  *)
(* fail, no event disappears without a trace, as long as the drain of the  *)
(* spill works and stops where the top-up would.                           *)
THEOREM NothingDisappears ==
  ASSUME "drain" \notin Faulty, StopsAlike
  PROVE  Spec => []NoSilentLoss
BY LossHolds, PTL DEF LossInv

(***************************************************************************)
(* Order.                                                                  *)
(***************************************************************************)
LEMMA EventsAreNumbers ==
  /\ Events \subseteq Nat /\ MaxEvents \in Nat
  /\ \A u \in Seq(Events) : Elems(u) \subseteq Events /\ DOMAIN u = 1 .. Len(u) /\ Len(u) \in Nat
  /\ \A f \in RowSets : Elems(f) \subseteq Events
<1>1. MaxEvents \in Nat
  BY ForwarderAssumption
<1>2. Events \subseteq Nat
  BY <1>1 DEF Events
<1>3. \A u \in Seq(Events) : Elems(u) \subseteq Events /\ DOMAIN u = 1 .. Len(u) /\ Len(u) \in Nat
  <2> HIDE DEF Events
  <2>1. QED
    BY DEF Elems
<1>4. \A f \in RowSets : Elems(f) \subseteq Events
  BY RowSetsMean DEF Elems
<1>5. QED
  BY <1>1, <1>2, <1>3, <1>4

LEMMA AppendedAscends ==
  ASSUME NEW f \in RowSets, NEW w \in Nat, NEW evs \in Seq(Events), \A q \in DOMAIN f : q < w,
         Ascending(f), Ascending(evs), AllBelow(Elems(f), Elems(evs)), NEW g \in RowSets,
         \A q \in DOMAIN g :
           \/ q \in DOMAIN f /\ g[q] = f[q]
           \/ w <= q /\ \E i \in DOMAIN evs : q = w + i - 1 /\ g[q] = evs[i]
  PROVE  Ascending(g)
<1> SUFFICES ASSUME NEW p \in DOMAIN g, NEW q \in DOMAIN g, p < q PROVE g[p] < g[q]
  BY DEF Ascending
<1>0. p \in Nat /\ q \in Nat /\ DOMAIN f \subseteq Nat /\ DOMAIN evs \subseteq Nat
  BY RowSetsMean, EventsAreNumbers
<1>1. CASE q \in DOMAIN f /\ g[q] = f[q]
  <2>1. p \in DOMAIN f /\ g[p] = f[p]
    BY <1>0, <1>1
  <2>2. QED
    BY <1>1, <2>1 DEF Ascending
<1>2. CASE w <= q /\ \E i \in DOMAIN evs : q = w + i - 1 /\ g[q] = evs[i]
  <2>1. PICK j \in DOMAIN evs : q = w + j - 1 /\ g[q] = evs[j]
    BY <1>2
  <2>2. CASE p \in DOMAIN f /\ g[p] = f[p]
    <3>1. f[p] \in Elems(f) /\ evs[j] \in Elems(evs)
      BY <2>2 DEF Elems
    <3>2. QED
      BY <2>1, <2>2, <3>1 DEF AllBelow
  <2>3. CASE \E i \in DOMAIN evs : p = w + i - 1 /\ g[p] = evs[i]
    <3>1. PICK i \in DOMAIN evs : p = w + i - 1 /\ g[p] = evs[i]
      BY <2>3
    <3>2. i < j
      BY SMTT(40), <1>0, <2>1, <3>1
    <3>3. QED
      BY <2>1, <3>1, <3>2 DEF Ascending
  <2>4. QED
    BY <2>2, <2>3
<1>3. QED
  BY <1>1, <1>2

(* What a cut keeps of the order of a ring.                                *)
LEMMA PieceAscends ==
  ASSUME NEW r \in Seq(Events), Ascending(r), NEW u \in Seq(Events), NEW k \in Nat,
         k + Len(u) <= Len(r), \A i \in 1 .. Len(u) : u[i] = r[k + i]
  PROVE  /\ Ascending(u)
         /\ \A e \in Elems(u) : \E i \in 1 .. Len(r) : e = r[i] /\ k < i /\ i <= k + Len(u)
         /\ Elems(u) \subseteq Elems(r)
<1>0. /\ DOMAIN r = 1 .. Len(r) /\ DOMAIN u = 1 .. Len(u) /\ Len(r) \in Nat /\ Len(u) \in Nat
  BY EventsAreNumbers
<1>1. \A i \in 1 .. Len(u) : k + i \in 1 .. Len(r) /\ k < k + i /\ k + i <= k + Len(u)
  BY <1>0
<1>2. \A i, j \in 1 .. Len(u) : i < j => k + i < k + j
  BY <1>0
<1>3. Ascending(u)
  BY <1>0, <1>1, <1>2 DEF Ascending
<1>4. \A e \in Elems(u) : \E i \in 1 .. Len(u) : e = u[i]
  BY <1>0 DEF Elems
<1>5. \A e \in Elems(u) : \E i \in 1 .. Len(r) : e = r[i] /\ k < i /\ i <= k + Len(u)
  BY <1>1, <1>4
<1>6. Elems(u) \subseteq Elems(r)
  BY <1>0, <1>5 DEF Elems
<1>7. QED
  BY <1>3, <1>5, <1>6

LEMMA PiecesBelow ==
  ASSUME NEW r \in Seq(Events), Ascending(r), NEW A, NEW B, NEW k \in Nat,
         \A e \in A : \E i \in 1 .. Len(r) : e = r[i] /\ i <= k,
         \A e \in B : \E i \in 1 .. Len(r) : e = r[i] /\ k < i
  PROVE  AllBelow(A, B)
<1> SUFFICES ASSUME NEW e \in A, NEW f \in B PROVE e < f
  BY DEF AllBelow
<1>1. PICK i \in 1 .. Len(r) : e = r[i] /\ i <= k
  OBVIOUS
<1>2. PICK j \in 1 .. Len(r) : f = r[j] /\ k < j
  OBVIOUS
<1>3. i < j /\ i \in DOMAIN r /\ j \in DOMAIN r
  BY <1>1, <1>2, EventsAreNumbers
<1>4. QED
  BY <1>1, <1>2, <1>3 DEF Ascending

(* The steps that put nothing new anywhere but in the batch.               *)
LEMMA OrderedRests ==
  ASSUME TypeInv, Ordered, \A q \in DOMAIN rows' : q \in DOMAIN rows /\ rows'[q] = rows[q],
         ring' \in {ring, <<>>}, overflow' \in {overflow, <<>>},
         \/ \A q \in DOMAIN batch' : q \in DOMAIN batch /\ batch'[q] = batch[q]
         \/ \A q \in DOMAIN batch' : q \in DOMAIN rows /\ batch'[q] = rows[q],
         \A b \in AllBatches' : b \in AllBatches \/ b.rows = batch
  PROVE  Ordered'
<1>0. Elems(<<>>) = {} /\ Ascending(<<>>)
  BY DEF Elems, Ascending
<1>1. Elems(rows') \subseteq Elems(rows) /\ Ascending(rows')
  BY DEF Elems, Ordered, Ascending
<1>2. Elems(batch') \subseteq Elems(rows) \cup Elems(batch) /\ Ascending(batch')
  <2>1. CASE \A q \in DOMAIN batch' : q \in DOMAIN batch /\ batch'[q] = batch[q]
    BY <2>1 DEF Elems, Ordered, Ascending
  <2>2. CASE \A q \in DOMAIN batch' : q \in DOMAIN rows /\ batch'[q] = rows[q]
    BY <2>2 DEF Elems, Ordered, Ascending
  <2>3. QED
    BY <2>1, <2>2
<1>3. \A b \in AllBatches' : Ascending(b.rows) /\ Elems(b.rows) \subseteq Carried
  BY DEF Ordered, Carried
<1>4. Carried' \subseteq Carried \cup Elems(rows)
  <2>1. Elems(batch) \subseteq Carried
    BY DEF Carried
  <2>2. Carried' = Elems(batch') \cup UNION {Elems(b.rows) : b \in AllBatches'}
    BY DEF Carried
  <2>3. QED
    BY <1>2, <1>3, <2>1, <2>2
<1>5. Elems(ring') \subseteq Elems(ring) /\ Ascending(ring') /\ Elems(overflow') \subseteq Elems(overflow) /\ Ascending(overflow')
  BY <1>0 DEF Ordered
<1>6. AllBelow(Elems(overflow'), Elems(ring'))
  BY <1>5 DEF Ordered, AllBelow
<1>7. AllBelow(Elems(rows') \cup Carried', Elems(overflow') \cup Elems(ring'))
  BY <1>1, <1>4, <1>5 DEF Ordered, AllBelow
<1>8. QED
  BY <1>1, <1>2, <1>3, <1>5, <1>6, <1>7 DEF Ordered

(* A buffer pushed to disk, everything else in place.                      *)
LEMMA OrderedPushes ==
  ASSUME TypeInv, Ordered, NEW evs \in Seq(Events), PushOrFail(evs), Ascending(evs),
         AllBelow(Elems(rows), Elems(evs)),
         batch' = batch, UNCHANGED <<pending, conns>>, ring' \in {ring, <<>>}, overflow' = <<>>,
         AllBelow(Elems(evs), Elems(ring'))
  PROVE  Ordered'
<1>0. /\ Elems(<<>>) = {} /\ Ascending(<<>>)
      /\ write_cursor \in Nat /\ rows \in RowSets /\ faults \in Nat /\ \A q \in DOMAIN rows : q < write_cursor
  BY DEF Elems, Ascending, TypeInv, Types, Phased
<1>1. /\ rows' \in RowSets
      /\ \A q \in DOMAIN rows' :
           \/ q \in DOMAIN rows /\ rows'[q] = rows[q]
           \/ write_cursor <= q /\ \E i \in DOMAIN evs : q = write_cursor + i - 1 /\ rows'[q] = evs[i]
      /\ Elems(rows') \subseteq Elems(rows) \cup Elems(evs)
  BY <1>0, PushRows DEF PushOrFail
<1>2. Ascending(rows')
  BY <1>0, <1>1, AppendedAscends DEF Ordered
<1>3. AllBatches' = AllBatches /\ Carried' = Carried
  BY DEF AllBatches, Carried
<1>4. Elems(ring') \subseteq Elems(ring) /\ Ascending(ring')
  BY <1>0 DEF Ordered
<1>5. AllBelow(Elems(rows') \cup Carried', Elems(overflow') \cup Elems(ring'))
  BY <1>0, <1>1, <1>3, <1>4 DEF Ordered, AllBelow
<1>6. AllBelow(Elems(overflow'), Elems(ring'))
  BY <1>0 DEF AllBelow
<1>7. QED
  BY <1>0, <1>2, <1>3, <1>4, <1>5, <1>6 DEF Ordered

(* A top-up cuts an ordered ring into three ordered pieces.                *)
LEMMA TopUpPieces ==
  ASSUME TypeInv, Ascending(ring), TopUp,
         ~UNCHANGED <<ring, rows, write_cursor, batch, overflow, fate, faults>>
  PROVE  \E keep \in Seq(Events) :
           /\ Ascending(keep) /\ Ascending(overflow') /\ Ascending(ring')
           /\ Elems(ring) = Elems(keep) \cup Elems(overflow') \cup Elems(ring')
           /\ AllBelow(Elems(keep), Elems(overflow') \cup Elems(ring')) /\ AllBelow(Elems(overflow'), Elems(ring'))
           /\ PushOrFail(keep)
           /\ \/ PushTo(keep) /\ batch' = Appended(batch, write_cursor, keep)
              \/ PushFails(keep) /\ batch' = batch
           /\ keep # <<>> => /\ ring[1] \in Events /\ HasRoom(batch, <<ring[1]>>)
                             /\ \/ Cardinality(DOMAIN batch) + Len(keep) <= BatchMaxEvents
                                \/ DOMAIN batch = {} /\ Len(keep) = 1
<1>0. ring \in Seq(Events) /\ Len(ring) \in Nat
  BY EventsAreNumbers DEF TypeInv, Types
<1>1. PICK t \in 1 .. Len(ring) : \E k \in 0 .. t : \E keep \in Seq(Events) :
        /\ Len(keep) = k /\ \A i \in 1 .. k : keep[i] = ring[i]
        /\ ring' \in Seq(Events) /\ Len(ring') = Len(ring) - t
        /\ \A i \in 1 .. Len(ring) - t : ring'[i] = ring[t + i]
        /\ overflow' \in Seq(Events) /\ Len(overflow') = t - k
        /\ \A i \in 1 .. t - k : overflow'[i] = ring[k + i]
        /\ PushOrFail(keep)
        /\ \/ PushTo(keep) /\ batch' = Appended(batch, write_cursor, keep)
           \/ PushFails(keep) /\ UNCHANGED batch
        /\ k > 0 => HasRoom(batch, <<ring[1]>>)
        /\ \A i \in 1 .. k : Cardinality(DOMAIN batch) + i <= BatchMaxEvents \/ (DOMAIN batch = {} /\ i = 1)
  BY TopUpCuts
<1>2. PICK k \in 0 .. t : \E keep \in Seq(Events) :
        /\ Len(keep) = k /\ \A i \in 1 .. k : keep[i] = ring[i]
        /\ ring' \in Seq(Events) /\ Len(ring') = Len(ring) - t
        /\ \A i \in 1 .. Len(ring) - t : ring'[i] = ring[t + i]
        /\ overflow' \in Seq(Events) /\ Len(overflow') = t - k
        /\ \A i \in 1 .. t - k : overflow'[i] = ring[k + i]
        /\ PushOrFail(keep)
        /\ \/ PushTo(keep) /\ batch' = Appended(batch, write_cursor, keep)
           \/ PushFails(keep) /\ UNCHANGED batch
        /\ k > 0 => HasRoom(batch, <<ring[1]>>)
        /\ \A i \in 1 .. k : Cardinality(DOMAIN batch) + i <= BatchMaxEvents \/ (DOMAIN batch = {} /\ i = 1)
  BY <1>1
<1>3. PICK keep \in Seq(Events) :
        /\ Len(keep) = k /\ \A i \in 1 .. k : keep[i] = ring[i]
        /\ ring' \in Seq(Events) /\ Len(ring') = Len(ring) - t
        /\ \A i \in 1 .. Len(ring) - t : ring'[i] = ring[t + i]
        /\ overflow' \in Seq(Events) /\ Len(overflow') = t - k
        /\ \A i \in 1 .. t - k : overflow'[i] = ring[k + i]
        /\ PushOrFail(keep)
        /\ \/ PushTo(keep) /\ batch' = Appended(batch, write_cursor, keep)
           \/ PushFails(keep) /\ UNCHANGED batch
        /\ k > 0 => HasRoom(batch, <<ring[1]>>)
        /\ \A i \in 1 .. k : Cardinality(DOMAIN batch) + i <= BatchMaxEvents \/ (DOMAIN batch = {} /\ i = 1)
  BY <1>2
<1>4. t \in Nat /\ k \in Nat /\ k <= t /\ t <= Len(ring)
  BY <1>0
<1>5. /\ Ascending(keep) /\ Elems(keep) \subseteq Elems(ring)
      /\ \A e \in Elems(keep) : \E i \in 1 .. Len(ring) : e = ring[i] /\ i <= k
  <2>1. 0 + Len(keep) <= Len(ring) /\ (\A i \in 1 .. Len(keep) : keep[i] = ring[0 + i]) /\ 0 \in Nat /\ 0 + Len(keep) = k
    BY <1>0, <1>3, <1>4
  <2>2. /\ Ascending(keep) /\ Elems(keep) \subseteq Elems(ring)
        /\ \A e \in Elems(keep) : \E i \in 1 .. Len(ring) : e = ring[i] /\ 0 < i /\ i <= 0 + Len(keep)
    <3> HIDE DEF Ascending, Elems
    <3>1. QED
      BY <1>0, <2>1, PieceAscends
  <2>3. QED
    BY <2>1, <2>2
<1>6. /\ Ascending(overflow') /\ Elems(overflow') \subseteq Elems(ring)
      /\ \A e \in Elems(overflow') : \E i \in 1 .. Len(ring) : e = ring[i] /\ k < i /\ i <= t
  <2> DEFINE u == overflow'
  <2>1. u \in Seq(Events) /\ k + Len(u) <= Len(ring) /\ (\A i \in 1 .. Len(u) : u[i] = ring[k + i]) /\ k + Len(u) = t
    BY <1>0, <1>3, <1>4
  <2> HIDE DEF u
  <2>2. /\ Ascending(u) /\ Elems(u) \subseteq Elems(ring)
        /\ \A e \in Elems(u) : \E i \in 1 .. Len(ring) : e = ring[i] /\ k < i /\ i <= k + Len(u)
    BY <1>0, <1>4, <2>1, PieceAscends
  <2>3. QED
    BY <2>1, <2>2 DEF u
<1>7. /\ Ascending(ring') /\ Elems(ring') \subseteq Elems(ring)
      /\ \A e \in Elems(ring') : \E i \in 1 .. Len(ring) : e = ring[i] /\ t < i
  <2> DEFINE u == ring'
  <2>1. u \in Seq(Events) /\ t + Len(u) <= Len(ring) /\ (\A i \in 1 .. Len(u) : u[i] = ring[t + i])
    BY <1>0, <1>3, <1>4
  <2> HIDE DEF u
  <2>2. /\ Ascending(u) /\ Elems(u) \subseteq Elems(ring)
        /\ \A e \in Elems(u) : \E i \in 1 .. Len(ring) : e = ring[i] /\ t < i /\ i <= t + Len(u)
    BY <1>0, <1>4, <2>1, PieceAscends
  <2>3. QED
    BY <2>2 DEF u
<1>8. AllBelow(Elems(keep), Elems(overflow') \cup Elems(ring'))
  <2>1. \A e \in Elems(overflow') \cup Elems(ring') : \E i \in 1 .. Len(ring) : e = ring[i] /\ k < i
    BY <1>4, <1>6, <1>7
  <2>2. QED
    BY <1>0, <1>4, <1>5, <2>1, PiecesBelow
<1>9. AllBelow(Elems(overflow'), Elems(ring'))
  <2> DEFINE A == Elems(overflow')
             B == Elems(ring')
  <2>1. \A e \in A : \E i \in 1 .. Len(ring) : e = ring[i] /\ i <= t
    BY <1>6
  <2>2. \A e \in B : \E i \in 1 .. Len(ring) : e = ring[i] /\ t < i
    BY <1>7
  <2> HIDE DEF A, B
  <2>3. ring \in Seq(Events) /\ t \in Nat /\ Ascending(ring)
    BY <1>0, <1>4
  <2>4. AllBelow(A, B)
    <3> HIDE DEF Ascending, AllBelow, Events
    <3>1. QED
      BY <2>1, <2>2, <2>3, PiecesBelow
  <2>5. QED
    BY <2>4 DEF A, B
<1>10. Elems(ring) \subseteq Elems(keep) \cup Elems(overflow') \cup Elems(ring')
  BY <1>0, <1>3, PiecesCover
<1>11. ASSUME keep # <<>>
       PROVE  /\ ring[1] \in Events /\ HasRoom(batch, <<ring[1]>>)
              /\ \/ Cardinality(DOMAIN batch) + Len(keep) <= BatchMaxEvents
                 \/ DOMAIN batch = {} /\ Len(keep) = 1
  <2>1. k > 0 /\ k \in 1 .. k
    <3> HIDE DEF Events
    <3>1. QED
      BY <1>3, <1>11
  <2>2. ring[1] \in Events
    <3> HIDE DEF Events
    <3>1. QED
      BY <1>0, <1>4, <2>1
  <2>3. QED
    BY <1>3, <2>1, <2>2
<1>12. QED
  <2> HIDE DEF Events
  <2> WITNESS keep \in Seq(Events)
  <2>1. QED
    BY <1>3, <1>5, <1>6, <1>7, <1>8, <1>9, <1>10, <1>11

LEMMA OrderedTopUp ==
  ASSUME TypeInv, Ordered, TopUp
  PROVE  Ordered'
<1>0. /\ ring \in Seq(Events) /\ write_cursor \in Nat /\ rows \in RowSets /\ batch \in RowSets /\ faults \in Nat
      /\ (\A q \in DOMAIN rows : q < write_cursor) /\ (\A q \in DOMAIN batch : q < write_cursor)
      /\ UNCHANGED session
  BY DrainedFacts, NoRowsFacts DEF TypeInv, Types, Phased, TopUp
<1>1. CASE UNCHANGED <<ring, rows, write_cursor, batch, overflow, fate, faults>>
  <2>1. AllBatches' = AllBatches
    BY <1>0 DEF session, AllBatches
  <2>2. QED
    BY <1>1, <2>1, OrderedRests
<1>2. CASE ~UNCHANGED <<ring, rows, write_cursor, batch, overflow, fate, faults>>
  <2>1. PICK keep \in Seq(Events) :
          /\ Ascending(keep) /\ Ascending(overflow') /\ Ascending(ring')
          /\ Elems(ring) = Elems(keep) \cup Elems(overflow') \cup Elems(ring')
          /\ AllBelow(Elems(keep), Elems(overflow') \cup Elems(ring')) /\ AllBelow(Elems(overflow'), Elems(ring'))
          /\ PushOrFail(keep)
          /\ batch' \in {batch, Appended(batch, write_cursor, keep)}
    BY <1>2, TopUpPieces DEF Ordered
  <2>2. AllBelow(Elems(rows) \cup Carried, Elems(ring)) /\ Elems(batch) \subseteq Carried
    BY DEF Ordered, AllBelow, Carried
  <2>3. /\ rows' \in RowSets
        /\ \A q \in DOMAIN rows' :
             \/ q \in DOMAIN rows /\ rows'[q] = rows[q]
             \/ write_cursor <= q /\ \E i \in DOMAIN keep : q = write_cursor + i - 1 /\ rows'[q] = keep[i]
        /\ Elems(rows') \subseteq Elems(rows) \cup Elems(keep)
    BY <1>0, <2>1, PushRows DEF PushOrFail
  <2>4. AllBelow(Elems(rows), Elems(keep)) /\ AllBelow(Elems(batch), Elems(keep))
    BY <2>1, <2>2 DEF AllBelow
  <2>5. Ascending(rows')
    <3>1. keep \in Seq(Events) /\ Ascending(keep) /\ Ascending(rows)
      BY <2>1 DEF Ordered
    <3>2. QED
      BY <1>0, <2>3, <2>4, <3>1, AppendedAscends
  <2>6. Ascending(batch') /\ Elems(batch') \subseteq Elems(batch) \cup Elems(keep)
    <3> DEFINE g == Appended(batch, write_cursor, keep)
    <3>1. /\ g \in RowSets /\ Elems(g) = Elems(batch) \cup Elems(keep)
          /\ \A q \in DOMAIN batch : q \in DOMAIN g /\ g[q] = batch[q]
          /\ \A i \in DOMAIN keep : write_cursor + i - 1 \in DOMAIN g /\ g[write_cursor + i - 1] = keep[i]
          /\ \A q \in DOMAIN g \ DOMAIN batch : \E i \in DOMAIN keep : q = write_cursor + i - 1
      BY <1>0, AppendedFacts
    <3> HIDE DEF g
    <3>2. \A q \in DOMAIN g :
             \/ q \in DOMAIN batch /\ g[q] = batch[q]
             \/ write_cursor <= q /\ \E i \in DOMAIN keep : q = write_cursor + i - 1 /\ g[q] = keep[i]
      <4>1. \A i \in DOMAIN keep : i \in Nat /\ 1 <= i
        BY EventsAreNumbers
      <4>2. QED
        BY <1>0, <3>1, <4>1
    <3>3. Ascending(g)
      BY <1>0, <2>1, <2>4, <3>1, <3>2, AppendedAscends DEF Ordered
    <3>4. batch' \in {batch, g}
      BY <2>1 DEF g
    <3>5. QED
      BY <3>1, <3>3, <3>4 DEF Ordered
  <2>7. AllBatches' = AllBatches
    BY <1>0 DEF session, AllBatches
  <2>8. Carried' \subseteq Carried \cup Elems(keep)
    BY <2>6, <2>7 DEF Carried
  <2>9. AllBelow(Elems(rows') \cup Carried', Elems(overflow') \cup Elems(ring'))
    BY <2>1, <2>2, <2>3, <2>8 DEF AllBelow
  <2>10. \A b \in AllBatches' : Ascending(b.rows)
    BY <2>7 DEF Ordered
  <2>11. QED
    BY <2>1, <2>5, <2>6, <2>9, <2>10 DEF Ordered
<1>3. QED
  BY <1>1, <1>2

LEMMA BatchesMove ==
  ASSUME TypeInv, [Next]_vars
  PROVE  \/ AllBatches' \subseteq AllBatches
         \/ SendBatch /\ AllBatches' \subseteq AllBatches \cup {Message} /\ Message.rows = batch
<1>1. SendBatch => AllBatches' \subseteq AllBatches \cup {Message} /\ Message.rows = batch
  BY SendBatchSets DEF Message
<1>2. ASSUME NEW s \in Sessions, ServerTakes(s) PROVE AllBatches' \subseteq AllBatches
  <2>1. conns[s] # <<>> /\ conns' = [conns EXCEPT ![s] = Tail(conns[s])] /\ UNCHANGED pending
    BY <1>2 DEF ServerTakes
  <2>2. QED
    BY <2>1, PeerSets
<1>3. QED
  BY <1>1, <1>2, MessagesMove

LEMMA RingAscends ==
  ASSUME TypeInv, Ascending(ring), Offer, \A e \in Elems(ring) : e <= offered
  PROVE  Ascending(ring')
<1> DEFINE x == offered + 1
<1>0. ring \in Seq(Events) /\ offered \in Nat /\ RingCapacity \in Nat \ {0} /\ x \in Events
  BY SMTT(40), ForwarderAssumption, OfferRing DEF TypeInv, Types
<1>1. ASSUME NEW u \in Seq(Events), Ascending(u), Elems(u) \subseteq Elems(ring)
      PROVE  Ascending(Append(u, x))
  <2>1. \A i \in DOMAIN u : u[i] < x
    <3>1. \A i \in DOMAIN u : u[i] \in Elems(u) /\ u[i] \in Nat
      BY <1>1, EventsAreNumbers DEF Elems
    <3>2. QED
      BY <1>0, <1>1, <3>1
  <2>2. /\ DOMAIN u = 1 .. Len(u) /\ Len(u) \in Nat /\ DOMAIN Append(u, x) = 1 .. Len(u) + 1
        /\ Append(u, x)[Len(u) + 1] = x /\ \A i \in 1 .. Len(u) : Append(u, x)[i] = u[i]
    <3> HIDE DEF Events, x
    <3>1. QED
      BY <1>0
  <2> DEFINE n == Len(u)
             a == Append(u, x)
  <2>3. /\ DOMAIN u = 1 .. n /\ n \in Nat /\ DOMAIN a = 1 .. n + 1 /\ a[n + 1] = x /\ \A i \in 1 .. n : a[i] = u[i]
    BY <2>2
  <2> HIDE DEF n, a, x
  <2>4. \A p, q \in 1 .. n + 1 : p < q => a[p] < a[q]
    <3> TAKE p, q \in 1 .. n + 1
    <3> HAVE p < q
    <3>1. p \in 1 .. n /\ (q \in 1 .. n \/ q = n + 1)
      BY <2>3
    <3>2. QED
      BY <1>1, <2>1, <2>3, <3>1 DEF Ascending
  <2>5. QED
    BY <2>3, <2>4 DEF a, Ascending
<1>2. CASE Len(ring) >= RingCapacity /\ ring' = Append(Tail(ring), x)
  <2>1. ring # <<>>
    <3>1. Len(ring) > 0 /\ Len(<<>>) = 0
      BY <1>0, <1>2
    <3>2. QED
      BY <3>1
  <2>2. /\ Tail(ring) \in Seq(Events) /\ 1 + Len(Tail(ring)) <= Len(ring)
        /\ \A i \in 1 .. Len(Tail(ring)) : Tail(ring)[i] = ring[1 + i]
    <3> HIDE DEF Events, x
    <3>1. QED
      BY <1>0, <2>1
  <2> DEFINE u == Tail(ring)
  <2>3. u \in Seq(Events) /\ 1 + Len(u) <= Len(ring) /\ 1 \in Nat /\ \A i \in 1 .. Len(u) : u[i] = ring[1 + i]
    BY <2>2
  <2> HIDE DEF u, x
  <2>4. Ascending(u) /\ Elems(u) \subseteq Elems(ring)
    BY <1>0, <2>3, PieceAscends
  <2>5. QED
    BY <1>1, <1>2, <2>3, <2>4 DEF u
<1>3. CASE ring' = Append(ring, x)
  BY <1>0, <1>1, <1>3
<1>4. QED
  BY <1>2, <1>3 DEF Offer

LEMMA OrderedKept ==
  ASSUME TypeInv, Ordered, Offered, [Next]_vars
  PROVE  Ordered'
<1>0. /\ Types /\ Phased /\ rows \in RowSets /\ batch \in RowSets /\ ring \in Seq(Events) /\ overflow \in Seq(Events)
      /\ Elems(<<>>) = {} /\ Elems(NoRows) = {} /\ DOMAIN NoRows = {}
  BY NoRowsFacts DEF TypeInv, Types, Elems
<1>1. \A b \in AllBatches' : b \in AllBatches \/ b.rows = batch
  BY BatchesMove
<1>2. ASSUME \A q \in DOMAIN rows' : q \in DOMAIN rows /\ rows'[q] = rows[q],
             ring' \in {ring, <<>>}, overflow' \in {overflow, <<>>}, batch' \in {batch, NoRows}
      PROVE  Ordered'
  BY <1>0, <1>1, <1>2, OrderedRests
<1>3. CASE Offer
  <2>1. /\ Elems(ring') \subseteq Elems(ring) \cup {offered + 1}
        /\ UNCHANGED <<rows, batch, overflow, session>>
    BY <1>3, OfferRing
  <2>2. offered \in Nat /\ \A e \in Buffered \cup Carried : e \in Nat /\ e <= offered
    <3>1. offered \in Nat
      BY <1>0 DEF Types
    <3>2. QED
      BY <3>1 DEF Offered
  <2>3. Ascending(ring')
    BY <1>3, <2>2, RingAscends DEF Ordered, Buffered
  <2>4. AllBatches' = AllBatches /\ Carried' = Carried
    BY <2>1 DEF AllBatches, Carried, session
  <2>5. AllBelow(Elems(overflow), Elems(ring')) /\ AllBelow(Elems(rows) \cup Carried, Elems(overflow) \cup Elems(ring'))
    BY <2>1, <2>2 DEF Ordered, AllBelow, Buffered
  <2>6. QED
    BY <2>1, <2>3, <2>4, <2>5 DEF Ordered
<1>4. CASE ProcessGone
  <2>1. UNCHANGED rows /\ ring' = <<>> /\ overflow' = <<>> /\ batch' = NoRows
    BY <1>4 DEF ProcessGone
  <2>2. QED
    BY <1>2, <2>1
<1>5. CASE BufferRing \/ PersistLeftover
  <2>1. PushOrFail(ring) /\ ring' = <<>> /\ UNCHANGED <<batch, overflow, pending, conns>> /\ overflow = <<>>
    BY <1>0, <1>5 DEF BufferRing, PersistLeftover, session, Phased
  <2>2. AllBelow(Elems(rows), Elems(ring)) /\ AllBelow(Elems(ring), Elems(ring'))
    BY <1>0, <2>1 DEF Ordered, AllBelow
  <2>3. Ascending(ring) /\ ring' \in {ring, <<>>} /\ overflow' = <<>> /\ batch' = batch /\ UNCHANGED <<pending, conns>>
    BY <2>1 DEF Ordered
  <2>4. QED
    BY <1>0, <2>1, <2>2, <2>3, OrderedPushes
<1>6. CASE SpillOverflow
  <2>1. PushOrFail(overflow) /\ overflow' = <<>> /\ UNCHANGED <<batch, ring, pending, conns>>
    BY <1>6 DEF SpillOverflow, session
  <2>2. AllBelow(Elems(rows), Elems(overflow)) /\ AllBelow(Elems(overflow), Elems(ring'))
    BY <2>1 DEF Ordered, AllBelow
  <2>3. Ascending(overflow) /\ ring' \in {ring, <<>>} /\ batch' = batch /\ UNCHANGED <<pending, conns>>
    BY <2>1 DEF Ordered
  <2>4. QED
    BY <1>0, <2>1, <2>2, <2>3, OrderedPushes
<1>7. CASE FlushSpill
  <2>1. UNCHANGED <<rows, ring, overflow>> /\ batch' \in {Drained(rows), NoRows}
    BY <1>7 DEF FlushSpill
  <2>2. \A q \in DOMAIN batch' : q \in DOMAIN rows /\ batch'[q] = rows[q]
    BY <1>0, <2>1, DrainedFacts
  <2>3. QED
    BY <1>1, <2>1, <2>2, OrderedRests
<1>8. CASE SkipBatch
  <2>1. rows' \in {rows, AckedThrough(rows, batch)} /\ UNCHANGED <<ring, overflow>> /\ batch' = NoRows
    BY <1>8 DEF SkipBatch
  <2>2. \A q \in DOMAIN rows' : q \in DOMAIN rows /\ rows'[q] = rows[q]
    BY <1>0, <2>1, AckedRows
  <2>3. QED
    BY <1>2, <2>1, <2>2
<1>9. CASE Ack
  <2>1. PICK b : rows' \in {rows, AckedThrough(rows, b.rows)}
    BY <1>9, AckSets
  <2>2. UNCHANGED <<ring, overflow, batch>>
    BY <1>9 DEF Ack
  <2>3. \A q \in DOMAIN rows' : q \in DOMAIN rows /\ rows'[q] = rows[q]
    BY <1>0, <2>1, AckedRows
  <2>4. QED
    BY <1>2, <2>2, <2>3
<1>10. CASE UNCHANGED <<ring, rows, overflow>> /\ batch' \in {batch, NoRows}
  BY <1>2, <1>10
<1>11. Process => Ordered'
  <2>1. Start \/ TriggerShutdown => UNCHANGED <<ring, rows, overflow, batch>>
    BY DEF Start, TriggerShutdown, buffers
  <2>2. QED
    BY <1>3, <1>4, <1>5, <1>10, <2>1 DEF Process, ProcessExit, Crash
<1>12. Actor => Ordered'
  <2>1. LeaveLoop \/ Connect \/ ConnectFails \/ HandshakeOk \/ Disconnect \/ StopOnline \/ SendBatch
          => UNCHANGED <<ring, rows, overflow>> /\ batch' \in {batch, NoRows}
    BY DEF LeaveLoop, Connect, ConnectFails, HandshakeOk, Disconnect, StopOnline, SendBatch, buffers
  <2>2. QED
    BY <1>5, <1>6, <1>7, <1>8, <1>9, <1>10, <2>1, OrderedTopUp DEF Actor
<1>13. Peer \/ UNCHANGED vars => UNCHANGED <<ring, rows, overflow, batch>>
  BY DEF Peer, ServerTakes, ConnectionDies, buffers, vars
<1>14. QED
  BY <1>10, <1>11, <1>12, <1>13 DEF Next

(* Nothing appears in a buffer, a batch or at the server that was not      *)
(* somewhere before, but for the event the bus offers.                     *)
LEMMA OfferedKept ==
  ASSUME TypeInv, Ordered, Offered, [Next]_vars
  PROVE  Offered'
<1>0. /\ Types /\ Phased /\ rows \in RowSets /\ batch \in RowSets /\ ring \in Seq(Events) /\ overflow \in Seq(Events)
      /\ Elems(<<>>) = {} /\ Elems(NoRows) = {} /\ fate \in [Events -> Fates] /\ offered \in Nat /\ Events \subseteq Nat
      /\ write_cursor \in Nat /\ faults \in Nat
      /\ (\A q \in DOMAIN rows : q < write_cursor)
  <2>1. Elems(<<>>) = {} /\ Elems(NoRows) = {} /\ Events \subseteq Nat
    BY NoRowsFacts, EventsAreNumbers DEF Elems
  <2>2. offered \in Nat
    <3>1. offered \in 0 .. MaxEvents
      BY Zenon DEF TypeInv, Types
    <3>2. QED
      BY <3>1
  <2>3. QED
    BY Zenon, <2>1, <2>2 DEF TypeInv, Types, Phased
<1>1. /\ \A e \in Buffered \cup Carried \cup delivered : e \in 1 .. offered
      /\ \A e \in Events : e > offered => fate[e] = "none"
  BY DEF Offered
<1>2. UNION {Elems(b.rows) : b \in AllBatches'} \subseteq Carried
  <2>1. \A b \in AllBatches' : b \in AllBatches \/ b.rows = batch
    BY BatchesMove
  <2>2. QED
    BY <2>1 DEF Carried
<1>3. ASSUME UNCHANGED offered,
             Elems(ring') \cup Elems(overflow') \cup Elems(rows') \cup Elems(batch') \cup delivered'
               \subseteq Buffered \cup Carried \cup delivered,
             \A e \in Events : fate'[e] = fate[e] \/ e \in Buffered \cup Carried
      PROVE  Offered'
  <2>1. Buffered' \cup Carried' \cup delivered' \subseteq Buffered \cup Carried \cup delivered
    BY <1>2, <1>3 DEF Buffered, Carried
  <2>2. \A e \in Events : e > offered => e \notin 1 .. offered
    BY <1>0
  <2>3. \A e \in Events : e > offered' => fate'[e] = "none"
    BY <1>1, <1>3, <2>2
  <2>4. QED
    BY <1>1, <1>3, <2>1, <2>3 DEF Offered
<1>4. Elems(batch) \subseteq Carried /\ Elems(ring) \cup Elems(overflow) \cup Elems(rows) = Buffered
  BY DEF Carried, Buffered
<1>5. CASE Offer
  <2>1. /\ Elems(ring') \subseteq Elems(ring) \cup {offered + 1} /\ offered' = offered + 1
        /\ UNCHANGED <<rows, batch, overflow, session, delivered>>
        /\ fate' = fate \/ (fate' = Lost({Head(ring)}, "ring_full") /\ Head(ring) \in Elems(ring))
    BY <1>5, OfferRing
  <2>2. AllBatches' = AllBatches /\ Carried' = Carried
    BY <2>1 DEF AllBatches, Carried, session
  <2>3. \A e \in Buffered' \cup Carried' \cup delivered' : e \in 1 .. offered + 1
    <3>1. \A e \in 1 .. offered : e \in 1 .. offered + 1
      BY <1>0
    <3>2. offered + 1 \in 1 .. offered + 1
      BY <1>0
    <3>3. Buffered' \cup Carried' \cup delivered' \subseteq Buffered \cup Carried \cup delivered \cup {offered + 1}
      BY <2>1, <2>2 DEF Buffered
    <3>4. QED
      BY <1>1, <3>1, <3>2, <3>3
  <2>4. \A e \in Events : e > offered + 1 => fate'[e] = "none"
    <3> DEFINE h == Head(ring)
    <3>1. fate' = fate \/ (h \in Elems(ring) /\ \A e \in Events : fate'[e] = fate[e] \/ e = h)
      <4>1. CASE fate' = Lost({h}, "ring_full") /\ h \in Elems(ring)
        <5>1. \A e \in Events : fate'[e] = IF e \in {h} /\ fate[e] = "none" THEN "ring_full" ELSE fate[e]
          BY Zenon, <1>0, <4>1, LossMarks
        <5> HIDE DEF h
        <5>2. QED
          BY <4>1, <5>1
      <4>2. QED
        BY <2>1, <4>1
    <3> HIDE DEF h
    <3>2. \A e \in Events : e > offered + 1 => e > offered /\ e \notin 1 .. offered
      BY <1>0
    <3>3. QED
      BY <1>1, <1>4, <3>1, <3>2
  <2>5. QED
    BY <2>1, <2>3, <2>4 DEF Offered
<1>6. CASE ProcessGone
  <2>1. /\ UNCHANGED <<rows, offered, delivered>> /\ ring' = <<>> /\ overflow' = <<>> /\ batch' = NoRows
        /\ fate' = Lost((Elems(ring) \cup Elems(overflow)) \ Elems(rows), "process_exit")
    BY <1>6 DEF ProcessGone
  <2>2. \A e \in Events : fate'[e] = IF e \in (Elems(ring) \cup Elems(overflow)) \ Elems(rows) /\ fate[e] = "none"
                                    THEN "process_exit" ELSE fate[e]
    BY Zenon, <1>0, <2>1, LossMarks
  <2>3. \A e \in Events : fate'[e] = fate[e] \/ e \in Buffered \cup Carried
    BY <1>4, <2>2
  <2>4. QED
    BY <1>0, <1>3, <1>4, <2>1, <2>3
<1>7. ASSUME NEW evs \in Seq(Events), PushOrFail(evs), Elems(evs) \subseteq Buffered
      PROVE  /\ Elems(rows') \subseteq Buffered
             /\ \A e \in Events : fate'[e] = fate[e] \/ e \in Buffered \cup Carried
  <2>1. Elems(rows') \subseteq Elems(rows) \cup Elems(evs) /\ faults' \in {faults, faults + 1}
    BY <1>0, <1>7, PushRows DEF PushOrFail
  <2>2. \A e \in Events : e \notin Elems(rows) \cup Elems(evs) => fate'[e] = fate[e]
    BY <1>0, <1>7, <2>1, PushFates DEF PushOrFail
  <2>3. QED
    BY <1>4, <1>7, <2>1, <2>2
<1>8. CASE BufferRing \/ PersistLeftover
  <2>1. PushOrFail(ring) /\ ring' = <<>> /\ UNCHANGED <<batch, overflow, offered, delivered>>
    BY <1>8 DEF BufferRing, PersistLeftover
  <2>2. /\ Elems(rows') \subseteq Buffered
        /\ \A e \in Events : fate'[e] = fate[e] \/ e \in Buffered \cup Carried
    BY <1>0, <1>4, <1>7, <2>1
  <2>3. QED
    BY <1>0, <1>3, <1>4, <2>1, <2>2
<1>9. CASE SpillOverflow
  <2>1. PushOrFail(overflow) /\ overflow' = <<>> /\ UNCHANGED <<batch, ring, offered, delivered>>
    BY <1>9 DEF SpillOverflow
  <2>2. /\ Elems(rows') \subseteq Buffered
        /\ \A e \in Events : fate'[e] = fate[e] \/ e \in Buffered \cup Carried
    BY <1>0, <1>4, <1>7, <2>1
  <2>3. QED
    BY <1>0, <1>3, <1>4, <2>1, <2>2
<1>10. CASE UNCHANGED <<ring, overflow, rows, offered, delivered, fate>> /\ batch' \in {batch, NoRows}
  BY <1>0, <1>3, <1>4, <1>10
<1>11. CASE TopUp
  <2>0. UNCHANGED <<offered, delivered>>
    BY <1>11 DEF TopUp
  <2>1. CASE UNCHANGED <<ring, rows, write_cursor, batch, overflow, fate, faults>>
    BY <1>10, <2>0, <2>1
  <2>2. CASE ~UNCHANGED <<ring, rows, write_cursor, batch, overflow, fate, faults>>
    <3>1. PICK keep \in Seq(Events) :
            /\ Elems(ring) = Elems(keep) \cup Elems(overflow') \cup Elems(ring')
            /\ PushOrFail(keep) /\ batch' \in {batch, Appended(batch, write_cursor, keep)}
      BY <1>11, <2>2, TopUpPieces DEF Ordered
    <3>2. /\ Elems(rows') \subseteq Buffered
          /\ \A e \in Events : fate'[e] = fate[e] \/ e \in Buffered \cup Carried
      BY <1>4, <1>7, <3>1
    <3>3. \A q \in DOMAIN batch : q < write_cursor
      BY <1>0, <1>11, DrainedFacts, NoRowsFacts DEF TopUp, Phased
    <3>4. Elems(Appended(batch, write_cursor, keep)) = Elems(batch) \cup Elems(keep)
      BY <1>0, <3>3, AppendedElems
    <3>5. Elems(batch') \subseteq Buffered \cup Carried
      BY <1>4, <3>1, <3>4
    <3>6. QED
      BY <1>3, <1>4, <2>0, <3>1, <3>2, <3>5
  <2>3. QED
    BY <2>1, <2>2
<1>12. CASE FlushSpill
  <2>1. UNCHANGED <<rows, ring, overflow, offered, delivered, fate>> /\ batch' \in {Drained(rows), NoRows}
    BY <1>12 DEF FlushSpill
  <2>2. \A q \in DOMAIN batch' : q \in DOMAIN rows /\ batch'[q] = rows[q]
    BY <1>0, <2>1, DrainedFacts, NoRowsFacts
  <2>3. Elems(batch') \subseteq Elems(rows)
    BY <2>2 DEF Elems
  <2>4. QED
    BY <1>3, <1>4, <2>1, <2>3
<1>13. CASE SkipBatch
  <2>1. /\ rows' \in {rows, AckedThrough(rows, batch)} /\ UNCHANGED <<ring, overflow, offered, delivered>> /\ batch' = NoRows
        /\ fate' \in {fate, Lost(Elems(batch), "oversize")}
    BY <1>13 DEF SkipBatch
  <2>2. Elems(rows') \subseteq Elems(rows)
    BY <1>0, <2>1, AckedRows DEF Elems
  <2>3. \A e \in Events : Lost(Elems(batch), "oversize")[e] = IF e \in Elems(batch) /\ fate[e] = "none" THEN "oversize" ELSE fate[e]
    <3>1. "oversize" \in Fates
      BY DEF Fates
    <3>2. QED
      BY <1>0, <3>1, LostTypes
  <2>4. \A e \in Events : fate'[e] = fate[e] \/ e \in Buffered \cup Carried
    BY <1>4, <2>1, <2>3
  <2>5. QED
    BY <1>0, <1>3, <1>4, <2>1, <2>2, <2>4
<1>14. CASE Ack
  <2>1. PICK b : rows' \in {rows, AckedThrough(rows, b.rows)}
    BY <1>14, AckSets
  <2>2. UNCHANGED <<ring, overflow, batch, offered, delivered, fate>>
    BY <1>14 DEF Ack
  <2>3. Elems(rows') \subseteq Elems(rows)
    BY <1>0, <2>1, AckedRows DEF Elems
  <2>4. QED
    BY <1>3, <1>4, <2>2, <2>3
<1>15. Process => Offered'
  <2>1. Start \/ TriggerShutdown => UNCHANGED <<ring, overflow, rows, batch, offered, delivered, fate>>
    BY DEF Start, TriggerShutdown, buffers
  <2>2. QED
    BY <1>5, <1>6, <1>8, <1>10, <2>1 DEF Process, ProcessExit, Crash
<1>16. Actor => Offered'
  <2>1. LeaveLoop \/ Connect \/ ConnectFails \/ HandshakeOk \/ Disconnect \/ StopOnline \/ SendBatch
          => UNCHANGED <<ring, overflow, rows, offered, delivered, fate>> /\ batch' \in {batch, NoRows}
    BY DEF LeaveLoop, Connect, ConnectFails, HandshakeOk, Disconnect, StopOnline, SendBatch, buffers
  <2>2. QED
    BY <1>8, <1>9, <1>10, <1>11, <1>12, <1>13, <1>14, <2>1 DEF Actor
<1>17. ASSUME NEW s \in Sessions, ServerTakes(s) \/ ConnectionDies(s) PROVE Offered'
  <2>1. /\ conns[s] # <<>> /\ UNCHANGED <<ring, overflow, rows, batch, offered, fate, pending>>
        /\ conns' = [conns EXCEPT ![s] = Tail(conns[s])] \/ conns' = [conns EXCEPT ![s] = <<>>]
        /\ delivered' \in {delivered, delivered \cup Elems(Head(conns[s]).rows)}
    BY <1>17 DEF ServerTakes, ConnectionDies, buffers
  <2>2. Head(conns[s]) \in AllBatches
    BY <2>1, PeerSets
  <2>3. delivered' \subseteq delivered \cup Carried
    BY <2>1, <2>2 DEF Carried
  <2>4. QED
    BY <1>3, <1>4, <2>1, <2>3
<1>18. UNCHANGED vars => Offered'
  BY <1>10 DEF vars, buffers
<1>19. QED
  BY <1>15, <1>16, <1>17, <1>18 DEF Next, Peer

(* Where an event older than a known one can be.                           *)
LEMMA OlderIsKnown ==
  ASSUME TypeInv, NoSilentLoss, Offered, NEW d \in Buffered, NEW e \in Events, e < d
  PROVE  e \in Elems(ring) \cup Elems(overflow) \cup Elems(rows) \cup delivered \/ fate[e] # "none"
<1>1. d \in 1 .. offered /\ offered \in Nat /\ e \in Nat /\ e >= 1
  BY EventsAreNumbers DEF Offered, TypeInv, Types, Events
<1>2. e \in 1 .. offered
  BY <1>1
<1>3. QED
  BY <1>2 DEF NoSilentLoss, Buffered

LEMMA FlushCloses ==
  ASSUME TypeInv, NoSilentLoss, Ordered, Offered
  PROVE  Closed(Elems(Drained(rows)))
<1> DEFINE b == Drained(rows)
<1>0. rows \in RowSets /\ DOMAIN rows \subseteq Nat /\ Elems(rows) \subseteq Events /\ Events \subseteq Nat
      /\ Elems(ring) \subseteq Events /\ Elems(overflow) \subseteq Events
  BY RowSetsMean, EventsAreNumbers DEF TypeInv, Types
<1>1. /\ DOMAIN b \subseteq DOMAIN rows /\ \A q \in DOMAIN b : b[q] = rows[q]
      /\ \A q \in DOMAIN rows : \A h \in DOMAIN b : q <= h => q \in DOMAIN b
  BY <1>0, DrainedFacts
<1> HIDE DEF b
<1> SUFFICES ASSUME NEW h \in DOMAIN b, NEW e \in Events, e < b[h], e \notin delivered, fate[e] = "none"
             PROVE  e \in Elems(b)
  BY DEF b, Closed, Elems
<1>2. h \in DOMAIN rows /\ b[h] = rows[h] /\ rows[h] \in Elems(rows) /\ rows[h] \in Nat /\ e \in Nat
  BY <1>0, <1>1 DEF Elems
<1>3. e \in Elems(ring) \cup Elems(overflow) \cup Elems(rows)
  BY <1>2, OlderIsKnown DEF Buffered
<1>4. CASE e \in Elems(ring) \cup Elems(overflow)
  <2>1. rows[h] < e
    BY <1>2, <1>4 DEF Ordered, AllBelow
  <2>2. QED
    BY <1>2, <2>1
<1>5. CASE e \in Elems(rows)
  <2>1. PICK q \in DOMAIN rows : e = rows[q]
    BY <1>5 DEF Elems
  <2>2. ~(h < q) /\ q # h
    BY <1>2, <2>1 DEF Ordered, Ascending
  <2>3. q <= h
    BY <1>0, <1>2, <2>2
  <2>4. q \in DOMAIN b /\ b[q] = e
    BY <1>1, <2>1, <2>3
  <2>5. QED
    BY <2>4 DEF Elems
<1>6. QED
  BY <1>3, <1>4, <1>5

(* A batch that the ring tops up holds the whole spill.                    *)
LEMMA TopUpOfAll ==
  ASSUME TypeInv, TopUp, NEW e \in Events, HasRoom(batch, <<e>>), "drain" \notin Faulty, StopsAlike
  PROVE  batch = rows
<1>1. rows \in RowSets /\ write_cursor \in Nat /\ (\A q \in DOMAIN rows : q < write_cursor) /\ batch = Drained(rows)
  BY DEF TypeInv, Types, Phased, TopUp
<1>2. IsFiniteSet(DOMAIN rows)
  BY <1>1, FiniteTable
<1>3. QED
  BY <1>1, <1>2 DEF StopsAlike

LEMMA TopUpCloses ==
  ASSUME TypeInv, NoSilentLoss, Ordered, Offered, TopUp, Closed(Elems(batch)), "drain" \notin Faulty, StopsAlike
  PROVE  Closed(Elems(batch'))
<1>0. /\ rows \in RowSets /\ batch \in RowSets /\ ring \in Seq(Events) /\ write_cursor \in Nat
      /\ Elems(rows) \subseteq Nat /\ Elems(ring) \subseteq Nat /\ overflow = <<>> /\ Elems(<<>>) = {}
      /\ \A q \in DOMAIN batch : q < write_cursor
  <2>1. /\ rows \in RowSets /\ batch \in RowSets /\ ring \in Seq(Events) /\ write_cursor \in Nat /\ overflow = <<>>
        /\ \A q \in DOMAIN batch : q < write_cursor
    BY DrainedFacts, NoRowsFacts DEF TypeInv, Types, Phased, TopUp
  <2>2. Elems(rows) \subseteq Nat /\ Elems(ring) \subseteq Nat
    BY <2>1, EventsAreNumbers
  <2>3. Elems(<<>>) = {}
    BY DEF Elems
  <2>4. QED
    BY <2>1, <2>2, <2>3
<1>1. CASE batch' = batch
  BY <1>1
<1>2. CASE batch' # batch
  <2>1. PICK keep \in Seq(Events) :
          /\ Elems(ring) = Elems(keep) \cup Elems(overflow') \cup Elems(ring')
          /\ AllBelow(Elems(keep), Elems(overflow') \cup Elems(ring'))
          /\ batch' = Appended(batch, write_cursor, keep)
          /\ keep # <<>> => ring[1] \in Events /\ HasRoom(batch, <<ring[1]>>)
    BY <1>2, TopUpPieces DEF Ordered
  <2>2. Elems(batch') = Elems(batch) \cup Elems(keep) /\ (keep = <<>> => batch' = batch)
    <3>1. Elems(Appended(batch, write_cursor, keep)) = Elems(batch) \cup Elems(keep)
      BY <1>0, AppendedElems
    <3>2. keep = <<>> => Appended(batch, write_cursor, keep) = batch
      BY <1>0, AppendedNothing
    <3>3. QED
      BY Zenon, <2>1, <3>1, <3>2
  <2>3. batch = rows
    BY <1>2, <2>1, <2>2, TopUpOfAll
  <2>4. ASSUME NEW d \in Elems(batch'), NEW e \in Events, e < d, e \notin delivered, fate[e] = "none"
        PROVE  e \in Elems(batch')
    <3>1. CASE d \in Elems(batch)
      BY <2>2, <2>4, <3>1 DEF Closed
    <3>2. CASE d \in Elems(keep)
      <4>1. d \in Elems(ring) /\ d \in Nat
        BY <1>0, <2>1, <3>2
      <4>2. e \in Elems(ring) \cup Elems(rows)
        BY <1>0, <2>4, <4>1, OlderIsKnown DEF Buffered
      <4>3. CASE e \in Elems(rows) \cup Elems(keep)
        BY <2>2, <2>3, <4>3
      <4>4. CASE e \in Elems(overflow') \cup Elems(ring')
        <5>1. d < e /\ e \in Nat
          BY <2>1, <3>2, <4>4, EventsAreNumbers DEF AllBelow
        <5>2. QED
          BY <2>4, <4>1, <5>1
      <4>5. QED
        BY <2>1, <4>2, <4>3, <4>4
    <3>3. QED
      BY <2>2, <3>1, <3>2
  <2>5. QED
    BY <2>4 DEF Closed
<1>3. QED
  BY <1>1, <1>2

(* Steps that make a batch: everything else leaves it or gives it up.      *)
LEMMA BatchMoves ==
  ASSUME [Next]_vars
  PROVE  FlushSpill \/ TopUp \/ batch' \in {batch, NoRows}
<1>1. Process => batch' \in {batch, NoRows}
  BY DEF Process, Offer, Start, TriggerShutdown, ProcessExit, Crash, ProcessGone, BufferRing, buffers
<1>2. Actor => FlushSpill \/ TopUp \/ batch' \in {batch, NoRows}
  <2>1. LeaveLoop \/ Connect \/ ConnectFails \/ HandshakeOk \/ Disconnect \/ StopOnline => batch' = batch
    BY DEF LeaveLoop, Connect, ConnectFails, HandshakeOk, Disconnect, StopOnline, buffers
  <2>2. PersistLeftover \/ SpillOverflow \/ SendBatch \/ SkipBatch \/ Ack => batch' \in {batch, NoRows}
    BY DEF PersistLeftover, SpillOverflow, SendBatch, SkipBatch, Ack
  <2>3. QED
    BY <2>1, <2>2 DEF Actor
<1>3. Peer \/ UNCHANGED vars => batch' = batch
  BY DEF Peer, ServerTakes, ConnectionDies, vars, buffers
<1>4. QED
  BY <1>1, <1>2, <1>3 DEF Next

LEMMA CompleteKept ==
  ASSUME TypeInv, Covering, Named, NoSilentLoss, Ordered, Offered, Complete, [Next]_vars,
         "drain" \notin Faulty, StopsAlike
  PROVE  Complete'
<1>1. /\ \A e \in Events : fate[e] # "none" => fate'[e] # "none"
      /\ delivered \subseteq delivered'
  BY StepAccounts
<1>2. ASSUME NEW es, Closed(es), NEW d \in es, NEW e \in Events, e < d
      PROVE  e \in es \cup delivered' \/ fate'[e] # "none"
  BY <1>1, <1>2 DEF Closed
<1>3. \A d \in Elems(batch') : \A e \in Events : e < d => e \in Elems(batch') \cup delivered' \/ fate'[e] # "none"
  <2>1. CASE FlushSpill
    <3>1. batch' \in {Drained(rows), NoRows}
      BY <2>1 DEF FlushSpill
    <3>2. Closed(Elems(batch'))
      BY <3>1, FlushCloses, NoRowsFacts DEF Closed
    <3>3. QED
      BY <1>2, <3>2
  <2>2. CASE TopUp
    <3>1. Closed(Elems(batch'))
      BY <2>2, TopUpCloses DEF Complete
    <3>2. QED
      BY <1>2, <3>1
  <2>3. CASE batch' \in {batch, NoRows}
    <3>1. Closed(Elems(batch'))
      BY <2>3, NoRowsFacts DEF Closed, Complete
    <3>2. QED
      BY <1>2, <3>1
  <2>4. QED
    BY <2>1, <2>2, <2>3, BatchMoves
<1>4. \A b \in AllBatches' : \A d \in Elems(b.rows) : \A e \in Events :
        e < d => e \in Elems(b.rows) \cup delivered' \/ fate'[e] # "none"
  <2> TAKE b \in AllBatches'
  <2>1. b \in AllBatches \/ b.rows = batch
    BY BatchesMove
  <2>2. Closed(Elems(b.rows))
    BY <2>1 DEF Complete
  <2>3. QED
    BY <1>2, <2>2
<1>5. \A d \in delivered' : \A e \in Events : e < d => e \in delivered' \/ fate'[e] # "none"
  <2>1. CASE delivered' = delivered
    <3>1. Closed(delivered)
      BY DEF Complete
    <3>2. QED
      BY <1>2, <2>1, <3>1
  <2>2. ASSUME NEW s \in Sessions, ServerTakes(s),
               NEW d \in delivered', NEW e \in Events, e < d
        PROVE  e \in delivered' \/ fate'[e] # "none"
    <3> DEFINE m == Head(conns[s])
    <3>1. /\ conns[s] # <<>> /\ conns' = [conns EXCEPT ![s] = Tail(conns[s])] /\ UNCHANGED pending
          /\ delivered' = delivered \cup Elems(m.rows)
      BY <2>2 DEF ServerTakes
    <3>2. m \in AllBatches
      BY <3>1, PeerSets
    <3> HIDE DEF m
    <3>3. Closed(delivered) /\ Closed(Elems(m.rows))
      BY <3>2 DEF Complete
    <3>4. CASE d \in delivered
      BY <1>2, <2>2, <3>1, <3>3, <3>4
    <3>5. CASE d \in Elems(m.rows)
      BY <1>2, <2>2, <3>1, <3>3, <3>5
    <3>6. QED
      BY <2>2, <3>1, <3>4, <3>5
  <2>3. SendBatch => delivered' = delivered
    BY DEF SendBatch
  <2>4. QED
    BY <2>1, <2>2, <2>3, MessagesMove
<1>6. QED
  BY <1>3, <1>4, <1>5 DEF Complete, Closed

(***************************************************************************)
(* The forwarder implements Delivery: an event of Delivery's held set is   *)
(* one that was offered, is not with the server and has met no fate.       *)
(***************************************************************************)
DeliveryInv == LossInv /\ Ordered /\ Offered /\ Complete

LEMMA DeliveryHolds ==
  ASSUME "drain" \notin Faulty, StopsAlike
  PROVE  /\ Init => DeliveryInv
         /\ DeliveryInv /\ [Next]_vars => DeliveryInv'
<1>1. Init => DeliveryInv
  <2> SUFFICES ASSUME Init PROVE DeliveryInv
    OBVIOUS
  <2>1. /\ ring = <<>> /\ overflow = <<>> /\ rows = NoRows /\ batch = NoRows /\ offered = 0 /\ delivered = {}
        /\ AllBatches = {} /\ Elems(acks) = {} /\ 1 .. offered = {} /\ Elems(pending) = {} /\ fate = [e \in Events |-> "none"]
    BY DEF Init, AllBatches, Elems
  <2>2. Open = {NoRows}
    BY <2>1 DEF Open
  <2>3. LossInv
    BY <2>1, <2>2, InitTypes, NoRowsFacts DEF LossInv, Covering, Named, NoSilentLoss
  <2>4. Elems(<<>>) = {} /\ Ascending(<<>>) /\ Ascending(NoRows)
    BY NoRowsFacts DEF Elems, Ascending
  <2>5. Carried = {} /\ Buffered = {} /\ Elems(batch) = {}
    BY <2>1, <2>4, NoRowsFacts DEF Carried, Buffered
  <2>6. Ordered
    BY <2>1, <2>4, <2>5, NoRowsFacts DEF Ordered, AllBelow
  <2>7. Offered /\ Complete
    BY <2>1, <2>5 DEF Offered, Complete, Closed
  <2>8. QED
    BY <2>3, <2>6, <2>7 DEF DeliveryInv
<1>2. DeliveryInv /\ [Next]_vars => DeliveryInv'
  BY TypesKept, CoveredKept, NamedKept, NothingLost, OrderedKept, OfferedKept, CompleteKept DEF DeliveryInv, LossInv
<1>3. QED
  BY <1>1, <1>2

LEMMA DeliveryStep ==
  ASSUME DeliveryInv, [Next]_vars, NoSilentLoss', TypeInv'
  PROVE  Channel!Next
<1> DEFINE H == {e \in 1 .. offered : e \in Buffered \ delivered /\ fate[e] = "none"}
           G == {e \in 1 .. offered : e \notin delivered /\ fate[e] # "none"}
           drop == {e \in H : fate'[e] # "none"}
           C == 1 .. offered
<1>0. TypeInv /\ Covering /\ Named /\ NoSilentLoss /\ Ordered /\ Offered /\ Complete
  BY DEF DeliveryInv, LossInv
<1>1. /\ H = {e \in C : e \notin delivered /\ fate[e] = "none"}
      /\ H' = {e \in C' : e \notin delivered' /\ fate'[e] = "none"}
  BY <1>0 DEF NoSilentLoss
<1>2. /\ G = {e \in C : e \notin delivered /\ fate[e] # "none"}
      /\ G' = {e \in C' : e \notin delivered' /\ fate'[e] # "none"}
  OBVIOUS
<1>3. /\ \A e \in C : fate[e] # "none" => fate'[e] # "none"
      /\ offered' = offered \/ Offer
  <2>1. \A e \in C : e \in Events
    <3>1. MaxEvents \in Nat /\ offered \in 0 .. MaxEvents
      BY <1>0, EventsAreNumbers DEF TypeInv, Types
    <3>2. QED
      BY <3>1 DEF Events
  <2>2. QED
    BY <1>0, <2>1, StepAccounts
<1>4. CASE offered' = offered /\ delivered' = delivered
  <2>0. C' = C
    BY <1>4
  <2> HIDE DEF C
  <2>1. H' = H \ drop
    BY <1>1, <1>3, <1>4, <2>0
  <2>2. G' = G \cup drop
    BY <1>1, <1>2, <1>3, <1>4, <2>0
  <2>3. drop \in SUBSET H
    OBVIOUS
  <2> HIDE DEF H, G, drop
  <2>4. PICK d : d = drop
    OBVIOUS
  <2>5. Channel!Discard(d)
    BY <1>4, <2>1, <2>2, <2>3, <2>4 DEF Channel!Discard, H, G
  <2>6. QED
    BY <2>3, <2>4, <2>5 DEF Channel!Next, H
<1>5. CASE Offer
  <2> DEFINE x == offered + 1
  <2>1. offered \in Nat /\ offered' = x /\ x \in Events /\ delivered' = delivered
    BY SMTT(40), <1>0, <1>5, OfferRing DEF TypeInv, Types
  <2>2. C' = C \cup {x} /\ x \notin C /\ \A k \in C : k < x
    BY <2>1
  <2>3. fate'[x] = "none"
    <3>1. fate \in [Events -> Fates] /\ fate[x] = "none" /\ "ring_full" \in Fates
      BY SMTT(40), <1>0, <2>1 DEF TypeInv, Types, Offered, Fates
    <3>2. CASE fate' = Lost({Head(ring)}, "ring_full") /\ Head(ring) \in Elems(ring)
      <4> DEFINE h == Head(ring)
      <4>1. h # x
        BY <1>0, <2>2, <3>2 DEF Offered, Buffered
      <4>2. \A e \in Events : fate'[e] = IF e \in {h} /\ fate[e] = "none" THEN "ring_full" ELSE fate[e]
        BY Zenon, <3>1, <3>2, LossMarks
      <4> HIDE DEF h, x
      <4>3. QED
        BY <2>1, <3>1, <4>1, <4>2
    <3>3. QED
      BY <1>0, <1>5, <3>1, <3>2, OfferRing
  <2>4. delivered \subseteq C
    BY <1>0 DEF Offered
  <2>5. x \notin delivered
    BY <2>2, <2>4
  <2> HIDE DEF C, x
  <2>6. H' = (H \cup {x}) \ drop
    BY <1>1, <1>3, <2>1, <2>2, <2>3, <2>5
  <2>7. G' = G \cup drop
    BY <1>1, <1>2, <1>3, <2>1, <2>2, <2>3
  <2>8. drop \in SUBSET H /\ H \cup G \cup delivered \subseteq C
    BY <1>1, <1>2, <2>4
  <2> HIDE DEF H, G, drop
  <2>9. \A k \in H \cup delivered \cup G : k < x
    BY <2>2, <2>8
  <2>10. PICK e, d : e = x /\ d = drop
    OBVIOUS
  <2>11. Channel!Accept(e, d)
    BY <2>1, <2>6, <2>7, <2>8, <2>9, <2>10 DEF Channel!Accept, Channel!Known, H, G
  <2>12. QED
    BY <2>1, <2>8, <2>10, <2>11 DEF Channel!Next, H
<1>6. ASSUME NEW s \in Sessions, ServerTakes(s) PROVE Channel!Next
  <2> DEFINE m == Head(conns[s])
             gone == Elems(m.rows) \ delivered
  <2>1. /\ conns[s] # <<>> /\ conns' = [conns EXCEPT ![s] = Tail(conns[s])] /\ UNCHANGED <<pending, offered, fate>>
        /\ delivered' = delivered \cup Elems(m.rows)
    BY <1>6 DEF ServerTakes
  <2>2. m \in AllBatches
    BY <1>0, <2>1, PeerSets
  <2>3. Elems(m.rows) \subseteq C
    BY <1>0, <2>2 DEF Offered, Carried
  <2>4. \A e \in C : e \in Events /\ e \in Nat
    <3>1. MaxEvents \in Nat /\ offered \in 0 .. MaxEvents
      BY <1>0, EventsAreNumbers DEF TypeInv, Types
    <3>2. QED
      BY <3>1 DEF Events
  <2>5. delivered \subseteq C
    BY <1>0 DEF Offered
  <2>6. C' = C
    BY <2>1
  <2> HIDE DEF C, m
  <2>7. gone \in SUBSET (H \cup G) /\ delivered' = delivered \cup gone
    BY <1>1, <1>2, <2>1, <2>3
  <2>8. H' = H \ gone /\ G' = G \ gone
    BY <1>1, <1>2, <2>1, <2>3, <2>6
  <2>9. ASSUME NEW e \in gone \cap H, NEW d \in delivered PROVE d < e
    <3>1. e \in Events /\ e \in Nat /\ d \in Nat /\ e \notin delivered /\ fate[e] = "none"
      BY <1>1, <2>4, <2>5, <2>9
    <3>2. ~(e < d) /\ e # d
      BY <1>0, <2>9, <3>1 DEF Complete, Closed
    <3>3. QED
      BY <3>1, <3>2
  <2> HIDE DEF gone, H, G, drop
  <2>10. PICK d : d = gone
    OBVIOUS
  <2>11. Channel!Deliver(d)
    BY <2>7, <2>8, <2>9, <2>10 DEF Channel!Deliver, H, G
  <2>12. QED
    BY <2>7, <2>10, <2>11 DEF Channel!Next, H, G
<1>7. SendBatch => offered' = offered /\ delivered' = delivered
  BY DEF SendBatch
<1>8. Offer \/ delivered' = delivered \/ \E s \in Sessions : ServerTakes(s)
  BY <1>0, <1>7, MessagesMove
<1>9. QED
  BY <1>3, <1>4, <1>5, <1>6, <1>8

(* Every behaviour of the forwarder, with its two buffer tiers, cursors,   *)
(* reconnects, crashes and disk errors, is one of Delivery: an event is    *)
(* held, delivered or discarded, and the held ones arrive in bus order.    *)
THEOREM DeliversAsPromised ==
  ASSUME "drain" \notin Faulty, StopsAlike
  PROVE  Spec => ImplementsDelivery
<1>1. Init => Channel!Init
  BY DEF Init, Channel!Init
<1>2. DeliveryInv /\ DeliveryInv' /\ [Next]_vars => Channel!Next
  BY DeliveryStep DEF DeliveryInv, LossInv
<1>3. Init => DeliveryInv
  BY DeliveryHolds
<1>4. DeliveryInv /\ [Next]_vars => DeliveryInv'
  BY DeliveryHolds
<1>5. Spec => []DeliveryInv
  BY <1>3, <1>4, PTL DEF Spec
<1>6. QED
  BY <1>1, <1>2, <1>5, PTL DEF Spec, ImplementsDelivery, Channel!Spec

(***************************************************************************)
(* How large a batch gets.                                                 *)
(***************************************************************************)
(* Any batch_max_events events fit batch_max_bytes.                        *)
CountBinds ==
  \A f \in RowSets :
    IsFiniteSet(DOMAIN f) /\ Cardinality(DOMAIN f) <= BatchMaxEvents => Bytes(f) \in 0 .. BatchMaxBytes

(* Then the drain and the top-up both stop at the same count.              *)
LEMMA CountStops == CountBinds => StopsAlike
<1> SUFFICES ASSUME CountBinds, NEW f \in RowSets, NEW e \in Events, IsFiniteSet(DOMAIN f), Drained(f) # f
             PROVE  ~HasRoom(Drained(f), <<e>>)
  BY DEF StopsAlike
<1> DEFINE b == Drained(f)
           D == DOMAIN b
           T == DOMAIN f \ D
<1>0. DOMAIN f \subseteq Nat /\ BatchMaxEvents \in Nat
  BY RowSetsMean, ForwarderAssumption
<1>1. /\ b \in RowSets /\ D \subseteq DOMAIN f /\ \A q \in D : b[q] = f[q]
      /\ \A q \in DOMAIN f \ D : \E p \in DOMAIN f : p <= q /\ p \notin D /\ ~RowFits(f, p)
  BY DrainedFacts
<1>2. T # {}
  <2>1. b = [q \in DOMAIN b |-> b[q]] /\ f = [q \in DOMAIN f |-> f[q]]
    BY <1>1, RowSetsMean
  <2> HIDE DEF b
  <2>2. D = DOMAIN f => b = f
    BY <1>1, <2>1
  <2>3. QED
    BY <1>1, <2>2 DEF b
<1> HIDE DEF b
<1>3. PICK p \in T : \A m \in T : p <= m
  <2>1. T \in SUBSET Nat
    BY <1>0
  <2> HIDE DEF T
  <2>2. QED
    BY <1>2, <2>1, LeastElement
<1>4. p \in DOMAIN f /\ p \in Nat /\ ~RowFits(f, p)
  <2>1. PICK r \in DOMAIN f : r <= p /\ r \notin D /\ ~RowFits(f, r)
    BY <1>1, <1>3
  <2>2. r = p
    BY <1>0, <1>3, <2>1
  <2>3. QED
    BY <1>0, <1>3, <2>1, <2>2
<1>5. Before(f, p) \subseteq D /\ p \notin Before(f, p)
  BY <1>0, <1>3, <1>4 DEF Before
<1>6. IsFiniteSet(D) /\ IsFiniteSet(Before(f, p))
  BY <1>1, <1>5, FS_Subset
<1>7. Cardinality(Before(f, p)) \in Nat /\ Cardinality(D) \in Nat /\ Cardinality(Before(f, p)) <= Cardinality(D)
  BY <1>5, <1>6, FS_CardinalityType, FS_Subset
<1>8. Before(f, p) # {}
  BY <1>4 DEF RowFits
<1>9. Cardinality(Before(f, p)) >= BatchMaxEvents
  <2> SUFFICES ASSUME Cardinality(Before(f, p)) < BatchMaxEvents PROVE FALSE
    BY <1>0, <1>7
  <2> DEFINE S == Before(f, p) \cup {p}
             g == Restrict(f, S)
  <2>1. S \in SUBSET DOMAIN f
    BY <1>1, <1>4, <1>5
  <2>2. IsFiniteSet(S) /\ Cardinality(S) = Cardinality(Before(f, p)) + 1
    BY <1>5, <1>6, FS_AddElement
  <2>3. g \in RowSets /\ DOMAIN g = S
    <3> HIDE DEF S
    <3>1. QED
      BY <2>1, RestrictFacts
  <2> HIDE DEF g
  <2>4. Cardinality(S) <= BatchMaxEvents
    BY <1>0, <1>7, <2>2
  <2>5. Bytes(g) <= BatchMaxBytes
    <3> HIDE DEF S
    <3>1. QED
      BY <2>2, <2>3, <2>4 DEF CountBinds
  <2>6. QED
    BY <1>4, <2>5 DEF RowFits, g
<1>10. D # {} /\ ~(Cardinality(D) + 1 <= BatchMaxEvents)
  BY <1>0, <1>5, <1>7, <1>8, <1>9
<1>11. Len(<<e>>) = 1
  OBVIOUS
<1>12. QED
  BY <1>10, <1>11 DEF HasRoom, b

(* drain_batch returns at most batch_max_events rows.                      *)
LEMMA DrainedIsSmall ==
  ASSUME NEW f \in RowSets, IsFiniteSet(DOMAIN f), NEW w \in Nat, \A q \in DOMAIN f : q < w
  PROVE  IsFiniteSet(DOMAIN Drained(f)) /\ Cardinality(DOMAIN Drained(f)) <= BatchMaxEvents
<1> DEFINE D == DOMAIN Drained(f)
<1>0. DOMAIN f \subseteq Nat /\ BatchMaxEvents \in Nat \ {0}
  BY RowSetsMean, ForwarderAssumption
<1>1. D \subseteq DOMAIN f /\ \A q \in D : RowFits(f, q)
  BY DrainedFacts
<1> HIDE DEF D
<1>2. IsFiniteSet(D)
  BY <1>1, FS_Subset
<1>3. CASE D = {}
  <2>1. Cardinality(D) = 0
    BY <1>3, FS_EmptySet
  <2>2. QED
    BY <1>0, <1>2, <2>1 DEF D
<1>4. CASE D # {}
  <2>1. PICK h \in D : \A q \in D : q <= h
    <3>1. D \in SUBSET Nat /\ \A q \in D : q <= w
      BY <1>0, <1>1
    <3>2. QED
      BY <1>4, <3>1, GreatestElement
  <2> DEFINE B == Before(f, h)
  <2>2. B \subseteq DOMAIN f /\ h \notin B /\ D \subseteq B \cup {h}
    BY <1>0, <1>1, <2>1 DEF Before
  <2>3. IsFiniteSet(B)
    BY <2>2, FS_Subset
  <2>4. RowFits(f, h)
    BY <1>1, <2>1
  <2>5. B = {} \/ Cardinality(B) < BatchMaxEvents
    BY <2>4 DEF RowFits
  <2> HIDE DEF B
  <2>6. IsFiniteSet(B \cup {h}) /\ Cardinality(B \cup {h}) = Cardinality(B) + 1 /\ Cardinality(B) \in Nat
    BY <2>2, <2>3, FS_AddElement, FS_CardinalityType
  <2>7. Cardinality(D) <= Cardinality(B \cup {h}) /\ Cardinality(D) \in Nat
    BY <1>2, <2>2, <2>6, FS_Subset, FS_CardinalityType
  <2>8. Cardinality(B) < BatchMaxEvents
    <3>1. Cardinality({}) = 0
      BY FS_EmptySet
    <3>2. QED
      BY <1>0, <2>5, <3>1
  <2>9. Cardinality(D) <= BatchMaxEvents
    BY <1>0, <2>6, <2>7, <2>8
  <2>10. QED
    BY <1>2, <2>9 DEF D
<1>5. QED
  BY <1>3, <1>4

LEMMA SmallKept ==
  ASSUME TypeInv, Ordered, SmallBatches, [Next]_vars
  PROVE  SmallBatches'
<1>0. /\ rows \in RowSets /\ batch \in RowSets /\ write_cursor \in Nat /\ BatchMaxEvents \in Nat \ {0}
      /\ \A q \in DOMAIN rows : q < write_cursor
  BY ForwarderAssumption DEF TypeInv, Types, Phased
<1>1. CASE batch' \in {batch, NoRows}
  <2>1. IsFiniteSet(DOMAIN NoRows) /\ Cardinality(DOMAIN NoRows) = 0
    BY NoRowsFacts, FS_EmptySet
  <2>2. QED
    BY <1>0, <1>1, <2>1 DEF SmallBatches
<1>2. CASE FlushSpill
  <2>1. batch' \in {Drained(rows), NoRows}
    BY <1>2 DEF FlushSpill
  <2>2. IsFiniteSet(DOMAIN rows)
    BY <1>0, FiniteTable
  <2>3. IsFiniteSet(DOMAIN Drained(rows)) /\ Cardinality(DOMAIN Drained(rows)) <= BatchMaxEvents
    BY <1>0, <2>2, DrainedIsSmall
  <2>4. QED
    BY <1>1, <2>1, <2>3 DEF SmallBatches
<1>3. CASE TopUp /\ batch' # batch
  <2>1. PICK keep \in Seq(Events) :
          /\ batch' = Appended(batch, write_cursor, keep)
          /\ keep # <<>> => \/ Cardinality(DOMAIN batch) + Len(keep) <= BatchMaxEvents
                            \/ DOMAIN batch = {} /\ Len(keep) = 1
    BY <1>3, TopUpPieces DEF Ordered
  <2>2. \A q \in DOMAIN batch : q < write_cursor
    BY <1>0, <1>3, DrainedFacts, NoRowsFacts DEF TopUp, TypeInv, Phased
  <2>3. keep # <<>>
    BY <1>0, <1>3, <2>1, <2>2, AppendedNothing
  <2> DEFINE n == Len(keep)
             I == write_cursor .. (write_cursor + n - 1)
  <2>4. n \in Nat /\ DOMAIN keep = 1 .. n
    BY EventsAreNumbers
  <2>5. \A q \in DOMAIN batch' \ DOMAIN batch : \E i \in DOMAIN keep : q = write_cursor + i - 1
    <3>1. \A q \in DOMAIN Appended(batch, write_cursor, keep) \ DOMAIN batch :
            \E i \in DOMAIN keep : q = write_cursor + i - 1
      BY <1>0, <2>2, AppendedKeys
    <3>2. QED
      BY Zenon, <2>1, <3>1
  <2> HIDE DEF n
  <2>6. DOMAIN batch' \subseteq DOMAIN batch \cup I
    <3>1. \A i \in 1 .. n : write_cursor + i - 1 \in I
      BY <1>0, <2>4
    <3> HIDE DEF I
    <3>2. QED
      BY <2>4, <2>5, <3>1
  <2>7. IsFiniteSet(I) /\ Cardinality(I) <= n /\ Cardinality(I) \in Nat
    <3>1. write_cursor \in Int /\ write_cursor + n - 1 \in Int
      BY <1>0, <2>4
    <3>2. IsFiniteSet(I) /\ Cardinality(I) = IF write_cursor > write_cursor + n - 1 THEN 0 ELSE (write_cursor + n - 1) - write_cursor + 1
      BY <3>1, FS_Interval
    <3>3. QED
      BY <1>0, <2>4, <3>2
  <2> HIDE DEF I
  <2>8. IsFiniteSet(DOMAIN batch) /\ Cardinality(DOMAIN batch) \in Nat
    BY FS_CardinalityType DEF SmallBatches
  <2>9. /\ IsFiniteSet(DOMAIN batch \cup I)
        /\ Cardinality(DOMAIN batch \cup I) = Cardinality(DOMAIN batch) + Cardinality(I) - Cardinality(DOMAIN batch \cap I)
    BY <2>7, <2>8, FS_Union
  <2>10. Cardinality(DOMAIN batch \cap I) \in Nat
    BY <2>8, FS_Subset, FS_CardinalityType
  <2>11. /\ IsFiniteSet(DOMAIN batch') /\ Cardinality(DOMAIN batch') \in Nat
         /\ Cardinality(DOMAIN batch') <= Cardinality(DOMAIN batch \cup I)
    BY <2>6, <2>9, FS_Subset, FS_CardinalityType
  <2>12. Cardinality(DOMAIN batch') <= Cardinality(DOMAIN batch) + n
    BY <2>4, <2>7, <2>8, <2>9, <2>10, <2>11
  <2>13. Cardinality({}) = 0
    BY FS_EmptySet
  <2>14. Cardinality(DOMAIN batch) + n <= BatchMaxEvents \/ (DOMAIN batch = {} /\ n = 1)
    BY <2>1, <2>3 DEF n
  <2>15. Cardinality(DOMAIN batch') <= BatchMaxEvents
    <3>1. CASE Cardinality(DOMAIN batch) + n <= BatchMaxEvents
      BY <1>0, <2>4, <2>8, <2>11, <2>12, <3>1
    <3>2. CASE DOMAIN batch = {} /\ n = 1
      BY <1>0, <2>11, <2>12, <2>13, <3>2
    <3>3. QED
      BY <2>14, <3>1, <3>2
  <2>16. QED
    BY <2>11, <2>15 DEF SmallBatches
<1>4. QED
  BY <1>1, <1>2, <1>3, BatchMoves

(***************************************************************************)
(* First in, first out, but for rows the cap evicted.                      *)
(***************************************************************************)
LEMMA FatedPushes ==
  ASSUME TypeInv, Ordered, Fated, NEW evs \in Seq(Events), PushOrFail(evs),
         Elems(evs) \cup Elems(ring') \cup Elems(overflow') \subseteq Elems(ring) \cup Elems(overflow),
         AllBelow(Elems(evs), Elems(overflow') \cup Elems(ring')),
         AllBatches' = AllBatches,
         \/ Elems(batch') = Elems(batch)
         \/ faults' = faults /\ Elems(batch') = Elems(batch) \cup Elems(evs)
  PROVE  Fated'
<1>0. /\ rows \in RowSets /\ write_cursor \in Nat /\ faults \in Nat /\ fate \in [Events -> Fates]
      /\ (\A q \in DOMAIN rows : q < write_cursor)
      /\ Elems(evs) \subseteq Events /\ Elems(rows) \subseteq Events /\ Events \subseteq Nat
      /\ Elems(ring) \subseteq Events /\ Elems(overflow) \subseteq Events
  BY EventsAreNumbers DEF TypeInv, Types, Phased
<1>1. Elems(rows') \subseteq Elems(rows) \cup Elems(evs) /\ faults' \in {faults, faults + 1}
  BY <1>0, PushRows DEF PushOrFail
<1>2. /\ \A e \in Events : fate[e] # "none" \/ e \in Elems(rows') => fate'[e] = fate[e]
      /\ \A e \in Events : e \notin Elems(rows) \cup Elems(evs) => fate'[e] = fate[e]
      /\ \A e \in Events : e \notin Elems(evs) => fate'[e] \in {fate[e], "spill_cap"}
      /\ faults' = faults => \A e \in Events : fate'[e] \in {fate[e], "spill_cap"}
  BY <1>0, <1>1, PushFates DEF PushOrFail
<1>3. /\ \A e \in Elems(rows) \cup Carried : fate[e] \in {"none", "spill_cap"}
      /\ \A e \in Elems(overflow) \cup Elems(ring) : fate[e] = "none"
      /\ AllBelow(Elems(rows) \cup Carried, Elems(overflow) \cup Elems(ring))
  BY DEF Fated, Ordered
<1>4. Carried \subseteq Events
  <2>1. batch \in RowSets /\ \A b \in AllBatches : DOMAIN b.rows \subseteq Nat /\ b.rows \in [DOMAIN b.rows -> Events]
    BY TypesMean DEF TypeInv, Types, TypeOK
  <2>2. Elems(batch) \subseteq Events /\ \A b \in AllBatches : Elems(b.rows) \subseteq Events
    BY <2>1, EventsAreNumbers DEF Elems
  <2>3. QED
    BY <2>2 DEF Carried
<1>5. Carried \cap Elems(evs) = {}
  <2> SUFFICES ASSUME NEW e \in Carried, e \in Elems(evs) PROVE FALSE
    OBVIOUS
  <2>1. e < e /\ e \in Nat
    BY <1>0, <1>3 DEF AllBelow
  <2>2. QED
    BY <2>1
<1>6. (Elems(overflow') \cup Elems(ring')) \cap (Elems(rows) \cup Elems(evs)) = {}
  <2> SUFFICES ASSUME NEW e \in Elems(overflow') \cup Elems(ring'), e \in Elems(rows) \cup Elems(evs) PROVE FALSE
    OBVIOUS
  <2>1. e < e /\ e \in Nat
    BY <1>0, <1>3 DEF AllBelow
  <2>2. QED
    BY <2>1
<1>7. Carried' \subseteq Carried \cup Elems(evs) /\ (Carried' \subseteq Carried \/ faults' = faults)
  BY DEF Carried
<1>8. ASSUME NEW e \in Elems(rows') \cup Carried' PROVE fate'[e] \in {"none", "spill_cap"}
  <2>1. e \in Events
    BY <1>0, <1>1, <1>4, <1>7
  <2>2. CASE e \notin Elems(evs)
    <3>1. e \in Elems(rows) \cup Carried
      BY <1>1, <1>7, <2>2
    <3>2. fate'[e] \in {fate[e], "spill_cap"}
      BY <1>2, <2>1, <2>2
    <3>3. QED
      BY <1>3, <3>1, <3>2
  <2>3. CASE e \in Elems(evs)
    <3>1. fate[e] = "none"
      BY <1>3, <2>3
    <3>2. CASE e \in Elems(rows')
      BY <1>2, <2>1, <3>1, <3>2
    <3>3. CASE e \notin Elems(rows')
      <4>1. faults' = faults
        BY <1>5, <1>7, <1>8, <2>3, <3>3
      <4>2. QED
        BY <1>2, <2>1, <3>1, <4>1
    <3>4. QED
      BY <3>2, <3>3
  <2>4. QED
    BY <2>2, <2>3
<1>9. ASSUME NEW e \in Elems(overflow') \cup Elems(ring') PROVE fate'[e] = "none"
  <2>1. e \in Events /\ e \notin Elems(rows) \cup Elems(evs) /\ fate[e] = "none"
    BY <1>0, <1>3, <1>6
  <2>2. QED
    BY <1>2, <2>1
<1>10. QED
  BY <1>8, <1>9 DEF Fated

LEMMA FatedOffer ==
  ASSUME TypeInv, Ordered, Offered, Fated, Offer
  PROVE  Fated'
<1>0. /\ fate \in [Events -> Fates] /\ Events \subseteq Nat /\ ring \in Seq(Events) /\ Elems(ring) \subseteq Events
      /\ Elems(rows) \subseteq Events /\ Elems(overflow) \subseteq Events
      /\ batch \in RowSets /\ \A b \in AllBatches : DOMAIN b.rows \subseteq Nat /\ b.rows \in [DOMAIN b.rows -> Events]
  BY EventsAreNumbers, TypesMean DEF TypeInv, Types, TypeOK
<1>1. Carried \subseteq Events
  <2>1. Elems(batch) \subseteq Events /\ \A b \in AllBatches : Elems(b.rows) \subseteq Events
    BY <1>0, EventsAreNumbers DEF Elems
  <2>2. QED
    BY <2>1 DEF Carried
<1>2. /\ offered + 1 \in Events /\ UNCHANGED <<rows, batch, overflow, session>>
      /\ Elems(ring') \subseteq Elems(ring) \cup {offered + 1}
  BY OfferRing
<1>3. /\ Carried' = Carried
      /\ fate[offered + 1] = "none"
      /\ offered \in Nat
  BY <1>2 DEF Carried, AllBatches, session, Offered, TypeInv, Types
<1>4. /\ \A e \in Elems(rows) \cup Carried : fate[e] \in {"none", "spill_cap"}
      /\ \A e \in Elems(overflow) \cup Elems(ring) : fate[e] = "none"
      /\ AllBelow(Elems(rows) \cup Carried, Elems(overflow) \cup Elems(ring)) /\ AllBelow(Elems(overflow), Elems(ring))
      /\ Ascending(ring)
  BY DEF Fated, Ordered
<1>5. CASE fate' = fate
  BY <1>2, <1>3, <1>4, <1>5 DEF Fated
<1>6. CASE /\ ring # <<>> /\ Head(ring) \in Elems(ring)
           /\ Elems(ring') = Elems(Tail(ring)) \cup {offered + 1}
           /\ fate' = Lost({Head(ring)}, "ring_full")
  <2> DEFINE h == Head(ring)
             u == Tail(ring)
  <2>1. \A e \in Events : fate'[e] = fate[e] \/ e = h
    <3>2. \A e \in Events : fate'[e] = IF e \in {h} /\ fate[e] = "none" THEN "ring_full" ELSE fate[e]
      BY Zenon, <1>0, <1>6, LossMarks
    <3> HIDE DEF h
    <3>3. QED
      BY <3>2
  <2>2. \A e \in Elems(u) : e # h /\ e \in Elems(ring)
    <3>1. /\ u \in Seq(Events) /\ 1 + Len(u) <= Len(ring) /\ 1 \in Nat /\ Len(ring) \in Nat \ {0} /\ h = ring[1]
          /\ \A i \in 1 .. Len(u) : u[i] = ring[1 + i]
      <4> HIDE DEF Events
      <4>1. QED
        BY <1>0, <1>6
    <3> HIDE DEF u, h
    <3>2. /\ \A e \in Elems(u) : \E i \in 1 .. Len(ring) : e = ring[i] /\ 1 < i
          /\ Elems(u) \subseteq Elems(ring)
      BY <1>0, <1>4, <3>1, PieceAscends
    <3>3. 1 \in DOMAIN ring /\ DOMAIN ring = 1 .. Len(ring)
      BY <1>0, <3>1, EventsAreNumbers
    <3>4. \A e \in Elems(u) : h < e /\ e \in Nat /\ h \in Nat
      <4>1. ring[1] \in Elems(ring)
        BY <3>3 DEF Elems
      <4>2. ASSUME NEW e \in Elems(u) PROVE h < e /\ e \in Nat /\ h \in Nat
        <5>1. PICK i \in 1 .. Len(ring) : e = ring[i] /\ 1 < i
          BY <3>2, <4>2
        <5>2. ring[1] < ring[i]
          BY <1>4, <3>3, <5>1 DEF Ascending
        <5>3. e \in Elems(ring)
          BY <3>2, <4>2
        <5>4. QED
          BY <1>0, <3>1, <4>1, <5>1, <5>2, <5>3
      <4>3. QED
        BY <4>2
    <3>5. \A e \in Elems(u) : e # h
      BY <3>4
    <3>6. QED
      BY <3>2, <3>5
  <2>3. h \in Elems(ring) /\ h \in Nat
    BY <1>0, <1>6
  <2>4. Elems(ring') = Elems(u) \cup {offered + 1}
    BY <1>6
  <2>5. h # offered + 1
    <3>1. h \in 1 .. offered
      BY <2>3 DEF Offered, Buffered
    <3> HIDE DEF h
    <3>2. QED
      BY <1>3, <3>1
  <2> HIDE DEF h, u
  <2>6. \A e \in Elems(rows) \cup Carried \cup Elems(overflow) : e # h
    <3>1. \A e \in Elems(rows) \cup Carried \cup Elems(overflow) : e < h /\ e \in Nat
      BY <1>0, <1>1, <1>4, <2>3 DEF AllBelow
    <3>2. QED
      BY <2>3, <3>1
  <2>7. \A e \in Elems(rows') \cup Carried' : fate'[e] \in {"none", "spill_cap"}
    BY <1>0, <1>1, <1>2, <1>3, <1>4, <2>1, <2>6
  <2>8. \A e \in Elems(overflow') \cup Elems(ring') : fate'[e] = "none"
    <3>1. \A e \in Elems(overflow) : fate'[e] = "none"
      BY <1>0, <1>4, <2>1, <2>6
    <3>2. \A e \in Elems(u) : fate'[e] = "none"
      BY <1>0, <1>4, <2>1, <2>2
    <3>3. fate'[offered + 1] = "none"
      BY <1>2, <1>3, <2>1, <2>5
    <3>4. QED
      BY <1>2, <2>4, <3>1, <3>2, <3>3
  <2>9. QED
    BY <2>7, <2>8 DEF Fated
<1>7. QED
  BY <1>5, <1>6, OfferRing

LEMMA FatedKept ==
  ASSUME TypeInv, Ordered, Offered, Fated, SmallBatches, [Next]_vars, CountBinds, BatchMaxBytes <= MaxFrameBytes
  PROVE  Fated'
<1>0. /\ rows \in RowSets /\ batch \in RowSets /\ ring \in Seq(Events) /\ overflow \in Seq(Events)
      /\ write_cursor \in Nat /\ faults \in Nat /\ Elems(<<>>) = {} /\ Elems(NoRows) = {}
      /\ Elems(batch) \subseteq Carried /\ fate \in [Events -> Fates] /\ Types /\ Phased
      /\ (\A q \in DOMAIN rows : q < write_cursor)
  BY NoRowsFacts DEF TypeInv, Types, Phased, Elems, Carried
<1>1. UNION {Elems(b.rows) : b \in AllBatches'} \subseteq Carried
  <2>1. \A b \in AllBatches' : b \in AllBatches \/ b.rows = batch
    BY BatchesMove
  <2>2. QED
    BY <2>1 DEF Carried
<1>2. ASSUME fate' = fate, Elems(rows') \cup Elems(batch') \subseteq Elems(rows) \cup Carried,
             Elems(ring') \cup Elems(overflow') \subseteq Elems(ring) \cup Elems(overflow)
      PROVE  Fated'
  <2>1. Carried' \subseteq Elems(rows) \cup Carried
    BY <1>1, <1>2 DEF Carried
  <2>2. QED
    BY <1>2, <2>1 DEF Fated
<1>3. CASE ProcessGone
  <2>1. /\ UNCHANGED rows /\ ring' = <<>> /\ overflow' = <<>> /\ batch' = NoRows
        /\ fate' = Lost((Elems(ring) \cup Elems(overflow)) \ Elems(rows), "process_exit")
    BY <1>3 DEF ProcessGone
  <2>2. Carried' \subseteq Carried
    BY <1>0, <1>1, <2>1 DEF Carried
  <2>3. \A e \in Events : fate'[e] = fate[e] \/ e \in Elems(ring) \cup Elems(overflow)
    <3>2. \A e \in Events : fate'[e] = IF e \in (Elems(ring) \cup Elems(overflow)) \ Elems(rows) /\ fate[e] = "none"
                                      THEN "process_exit" ELSE fate[e]
      BY Zenon, <1>0, <2>1, LossMarks
    <3>3. QED
      BY <3>2
  <2>4. Elems(rows) \cup Carried \subseteq Events /\ Events \subseteq Nat
    <3>1. \A b \in AllBatches : DOMAIN b.rows \subseteq Nat /\ b.rows \in [DOMAIN b.rows -> Events]
      BY TypesMean DEF TypeOK
    <3>2. Elems(rows) \subseteq Events /\ Elems(batch) \subseteq Events /\ \A b \in AllBatches : Elems(b.rows) \subseteq Events
      BY <1>0, <3>1, EventsAreNumbers DEF Elems
    <3>3. QED
      BY <3>2, EventsAreNumbers DEF Carried
  <2>5. \A e \in Elems(rows) \cup Carried : e \notin Elems(ring) \cup Elems(overflow)
    <3> SUFFICES ASSUME NEW e \in Elems(rows) \cup Carried, e \in Elems(ring) \cup Elems(overflow) PROVE FALSE
      OBVIOUS
    <3>1. e < e /\ e \in Nat
      BY <2>4 DEF Ordered, AllBelow
    <3>2. QED
      BY <3>1
  <2>6. \A e \in Elems(rows') \cup Carried' : fate'[e] \in {"none", "spill_cap"}
    BY <2>1, <2>2, <2>3, <2>4, <2>5 DEF Fated
  <2>7. QED
    BY <1>0, <2>1, <2>6 DEF Fated
<1>4. CASE BufferRing \/ PersistLeftover
  <2>1. PushOrFail(ring) /\ ring' = <<>> /\ UNCHANGED <<batch, overflow, session>> /\ overflow = <<>>
    BY <1>0, <1>4 DEF BufferRing, PersistLeftover, Phased
  <2>2. AllBatches' = AllBatches
    BY <2>1 DEF session, AllBatches
  <2>3. AllBelow(Elems(ring), Elems(overflow') \cup Elems(ring'))
    BY <1>0, <2>1 DEF AllBelow
  <2>4. Elems(ring) \cup Elems(ring') \cup Elems(overflow') \subseteq Elems(ring) \cup Elems(overflow)
    BY <1>0, <2>1
  <2>5. Elems(batch') = Elems(batch)
    BY <2>1
  <2>6. QED
    BY <1>0, <2>1, <2>2, <2>3, <2>4, <2>5, FatedPushes
<1>5. CASE SpillOverflow
  <2>1. PushOrFail(overflow) /\ overflow' = <<>> /\ UNCHANGED <<batch, ring, session>>
    BY <1>5 DEF SpillOverflow
  <2>2. AllBatches' = AllBatches
    BY <2>1 DEF session, AllBatches
  <2>3. AllBelow(Elems(overflow), Elems(overflow') \cup Elems(ring'))
    BY <1>0, <2>1 DEF AllBelow, Ordered
  <2>4. Elems(overflow) \cup Elems(ring') \cup Elems(overflow') \subseteq Elems(ring) \cup Elems(overflow)
    BY <1>0, <2>1
  <2>5. Elems(batch') = Elems(batch)
    BY <2>1
  <2>6. QED
    BY <1>0, <2>1, <2>2, <2>3, <2>4, <2>5, FatedPushes
<1>6. CASE TopUp
  <2>0. UNCHANGED session
    BY <1>6 DEF TopUp
  <2>1. CASE UNCHANGED <<ring, rows, write_cursor, batch, overflow, fate, faults>>
    BY <1>0, <1>2, <2>1
  <2>2. CASE ~UNCHANGED <<ring, rows, write_cursor, batch, overflow, fate, faults>>
    <3>1. PICK keep \in Seq(Events) :
            /\ Elems(ring) = Elems(keep) \cup Elems(overflow') \cup Elems(ring')
            /\ AllBelow(Elems(keep), Elems(overflow') \cup Elems(ring'))
            /\ PushOrFail(keep)
            /\ \/ PushTo(keep) /\ batch' = Appended(batch, write_cursor, keep)
               \/ PushFails(keep) /\ batch' = batch
      BY <1>6, <2>2, TopUpPieces DEF Ordered
    <3>2. \A q \in DOMAIN batch : q < write_cursor
      BY <1>0, <1>6, DrainedFacts, NoRowsFacts DEF TopUp, Phased
    <3>3. Elems(Appended(batch, write_cursor, keep)) = Elems(batch) \cup Elems(keep)
      BY <1>0, <3>2, AppendedElems
    <3>4. PushTo(keep) => faults' = faults
      BY DEF PushTo
    <3>5. \/ Elems(batch') = Elems(batch)
          \/ faults' = faults /\ Elems(batch') = Elems(batch) \cup Elems(keep)
      BY <3>1, <3>3, <3>4
    <3>6. AllBatches' = AllBatches
      BY <2>0 DEF session, AllBatches
    <3>7. Elems(keep) \cup Elems(ring') \cup Elems(overflow') \subseteq Elems(ring) \cup Elems(overflow)
      BY <3>1
    <3>8. QED
      BY <3>1, <3>5, <3>6, <3>7, FatedPushes
  <2>3. QED
    BY <2>1, <2>2
<1>7. CASE FlushSpill
  <2>1. UNCHANGED <<rows, ring, overflow, fate>> /\ batch' \in {Drained(rows), NoRows}
    BY <1>7 DEF FlushSpill
  <2>2. \A q \in DOMAIN batch' : q \in DOMAIN rows /\ batch'[q] = rows[q]
    BY <1>0, <2>1, DrainedFacts, NoRowsFacts
  <2>3. Elems(batch') \subseteq Elems(rows)
    BY <2>2 DEF Elems
  <2>4. QED
    BY <1>2, <2>1, <2>3
<1>8. CASE SkipBatch
  <2>1. Bytes(batch) \in 0 .. BatchMaxBytes
    BY <1>0 DEF SmallBatches, CountBinds
  <2>2. ~(Bytes(batch) > MaxFrameBytes)
    <3>1. BatchMaxBytes \in Nat /\ MaxFrameBytes \in Nat
      BY ForwarderAssumption
    <3>2. QED
      BY <2>1, <3>1
  <2>3. UNCHANGED <<rows, ring, overflow, fate>> /\ batch' = NoRows
    BY <1>8, <2>2 DEF SkipBatch
  <2>4. QED
    BY <1>0, <1>2, <2>3
<1>9. CASE Ack
  <2>1. PICK b : rows' \in {rows, AckedThrough(rows, b.rows)}
    BY <1>9, AckSets
  <2>2. UNCHANGED <<ring, overflow, batch, fate>>
    BY <1>9 DEF Ack
  <2>3. Elems(rows') \subseteq Elems(rows)
    BY <1>0, <2>1, AckedRows DEF Elems
  <2>4. QED
    BY <1>0, <1>2, <2>2, <2>3
<1>10. CASE UNCHANGED <<ring, overflow, rows, fate>> /\ batch' \in {batch, NoRows}
  BY <1>0, <1>2, <1>10
<1>11. Process => Fated'
  <2>1. Start \/ TriggerShutdown => UNCHANGED <<ring, overflow, rows, batch, fate>>
    BY DEF Start, TriggerShutdown, buffers
  <2>2. QED
    BY <1>3, <1>4, <1>10, <2>1, FatedOffer DEF Process, ProcessExit, Crash
<1>12. Actor => Fated'
  <2>1. LeaveLoop \/ Connect \/ ConnectFails \/ HandshakeOk \/ Disconnect \/ StopOnline \/ SendBatch
          => UNCHANGED <<ring, overflow, rows, fate>> /\ batch' \in {batch, NoRows}
    BY DEF LeaveLoop, Connect, ConnectFails, HandshakeOk, Disconnect, StopOnline, SendBatch, buffers
  <2>2. QED
    BY <1>4, <1>5, <1>6, <1>7, <1>8, <1>9, <1>10, <2>1 DEF Actor
<1>13. Peer \/ UNCHANGED vars => UNCHANGED <<ring, overflow, rows, batch, fate>>
  BY DEF Peer, ServerTakes, ConnectionDies, buffers, vars
<1>14. QED
  BY <1>10, <1>11, <1>12, <1>13 DEF Next

FifoInv == DeliveryInv /\ Fated /\ SmallBatches

LEMMA FifoStep ==
  ASSUME FifoInv, [Next]_vars, Ordered'
  PROVE  /\ \A e \in delivered' \ delivered, d \in delivered : d < e \/ fate[e] = "spill_cap"
         /\ \A b \in AllBatches' : \A p, q \in DOMAIN b.rows : p < q => b.rows[p] < b.rows[q]
<1>0. TypeInv /\ Ordered /\ Offered /\ Complete /\ Fated
  BY DEF FifoInv, DeliveryInv, LossInv
<1>1. ASSUME NEW s \in Sessions, ServerTakes(s), NEW e \in delivered' \ delivered, NEW d \in delivered
      PROVE  d < e \/ fate[e] = "spill_cap"
  <2> DEFINE m == Head(conns[s])
  <2>1. /\ conns[s] # <<>> /\ conns' = [conns EXCEPT ![s] = Tail(conns[s])] /\ UNCHANGED pending
        /\ delivered' = delivered \cup Elems(m.rows)
    BY <1>1 DEF ServerTakes
  <2>2. m \in AllBatches
    BY <1>0, <2>1, PeerSets
  <2> HIDE DEF m
  <2>3. e \in Carried /\ e \notin delivered
    BY <1>1, <2>1, <2>2 DEF Carried
  <2>4. e \in Nat /\ d \in Nat /\ e \in Events
    <3>1. e \in 1 .. offered /\ d \in 1 .. offered /\ offered \in 0 .. MaxEvents /\ MaxEvents \in Nat
      BY <1>0, <2>3, EventsAreNumbers DEF Offered, TypeInv, Types
    <3>2. QED
      BY <3>1 DEF Events
  <2>5. ~(e < d) \/ fate[e] # "none"
    BY <1>0, <2>3, <2>4 DEF Complete, Closed
  <2>6. fate[e] \in {"none", "spill_cap"}
    BY <1>0, <2>3 DEF Fated
  <2>7. e # d
    BY <2>3
  <2>8. QED
    BY <2>4, <2>5, <2>6, <2>7
<1>2. SendBatch => delivered' = delivered
  BY DEF SendBatch
<1>3. \A e \in delivered' \ delivered, d \in delivered : d < e \/ fate[e] = "spill_cap"
  BY <1>0, <1>1, <1>2, MessagesMove
<1>4. \A b \in AllBatches' : \A p, q \in DOMAIN b.rows : p < q => b.rows[p] < b.rows[q]
  BY DEF Ordered, Ascending
<1>5. QED
  BY <1>3, <1>4

(* As long as counts, and not bytes, fill the batches, an event reaches    *)
(* the server after a newer one only when the cap had evicted its row      *)
(* while a connection still carried it; a batch is always in bus order.    *)
THEOREM FirstInFirstOut ==
  ASSUME "drain" \notin Faulty, CountBinds, BatchMaxBytes <= MaxFrameBytes
  PROVE  Spec => FifoUnlessEvicted
<1>0. StopsAlike
  BY CountStops
<1>1. Init => FifoInv
  <2> SUFFICES ASSUME Init PROVE FifoInv
    OBVIOUS
  <2>1. DeliveryInv
    BY <1>0, DeliveryHolds
  <2>2. /\ ring = <<>> /\ overflow = <<>> /\ rows = NoRows /\ batch = NoRows /\ AllBatches = {}
    BY DEF Init, AllBatches, Elems
  <2>3. Elems(<<>>) = {}
    BY DEF Elems
  <2>4. Fated
    BY <2>2, <2>3, NoRowsFacts DEF Fated, Carried
  <2>5. SmallBatches
    BY <2>2, NoRowsFacts, FS_EmptySet, ForwarderAssumption DEF SmallBatches
  <2>6. QED
    BY <2>1, <2>4, <2>5 DEF FifoInv
<1>2. FifoInv /\ [Next]_vars => FifoInv'
  BY <1>0, DeliveryHolds, FatedKept, SmallKept DEF FifoInv, DeliveryInv, LossInv
<1>3. FifoInv /\ FifoInv' /\ [Next]_vars =>
        [/\ \A e \in delivered' \ delivered, d \in delivered : d < e \/ fate[e] = "spill_cap"
         /\ \A b \in AllBatches' : \A p, q \in DOMAIN b.rows : p < q => b.rows[p] < b.rows[q]]_vars
  BY FifoStep DEF FifoInv, DeliveryInv
<1>4. QED
  BY <1>1, <1>2, <1>3, PTL DEF Spec, FifoUnlessEvicted
=============================================================================
