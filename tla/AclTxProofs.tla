----------------------------- MODULE AclTxProofs ----------------------------
(***************************************************************************)
(* For every set of handles, every number of controller buffers and every  *)
(* bound: the controller gets whole packets in their order, credits are    *)
(* conserved, the host never counts on a buffer that is not free, and a    *)
(* packet that waits has somebody to wait for.                             *)
(***************************************************************************)
EXTENDS AclTx, FiniteSetTheorems, SequenceTheorems, WellFoundedInduction, TLAPS

-----------------------------------------------------------------------------
(* The inductive invariants.                                               *)

(* The state has its type, no handle is connected twice, and an event that *)
(* is about a connection names its handle.                                 *)
HostWorks(s) ==
    /\ s.at = "broken" => s.h \in Handles
    /\ s.at \in {"first", "all"} => s.i >= 1

EventsOK(q) ==
    /\ q \in Seq(Events)
    /\ \A i \in DOMAIN q : q[i].type # "reset" => q[i].h \in Handles

Types == TypeOK /\ HostWorks(host) /\ IsInjective(conns) /\ EventsOK(events)

(* Nothing is left of a connection that the host has forgotten.            *)
Forgotten ==
    \A h \in Handles : ~Connected(h) =>
        out[h] = 0 /\ txq[h] = <<>> /\ wire[h] = <<>> /\ ~frag[h]

(* Of a connection's queue q, its flag f and the fragments w that the      *)
(* controller got: f says that the head is partly sent; packets wait in    *)
(* the order of their numbers, which are at most m; the last fragment is   *)
(* of the head, if that is partly sent, or of an earlier packet.  l and k  *)
(* are the lengths of q and w.                                             *)
FragOK(q, l, f) ==
    /\ f <=> l > 0 /\ q[1].done > 0
    /\ \A i \in 1 .. l : q[i].done < q[i].of /\ (i > 1 => q[i].done = 0)

OrderOK(q, l, w, k, m) ==
    /\ \A i \in 1 .. l : q[i].id <= m
    /\ \A i, j \in 1 .. l : i < j => q[i].id < q[j].id
    /\ k > 0 => w[k].id <= m
    /\ \A i \in 1 .. l : k > 0 /\ q[i].done = 0 => w[k].id < q[i].id
    /\ \A i \in 1 .. l : q[i].done > 0 =>
         k > 0 /\ w[k].id = q[i].id /\ w[k].no = q[i].done

WellFormed(w, k) ==
    \A i \in 1 .. k :
        /\ w[i].pb = "first" <=> w[i].no = 1
        /\ w[i].no > 1 => i > 1 /\ w[i - 1].id = w[i].id /\ w[i - 1].no = w[i].no - 1
        /\ i > 1 /\ w[i].no = 1 => w[i - 1].id < w[i].id

QueueOK(q, f, w, m) ==
    /\ FragOK(q, Len(q), f) /\ OrderOK(q, Len(q), w, Len(w), m)
    /\ WellFormed(w, Len(w))

Ordered ==
    /\ Types /\ Forgotten
    /\ \A h \in Handles : QueueOK(txq[h], frag[h], wire[h], sent)

(* Of a queue of events q of length l, a connection h with a packets       *)
(* outstanding, of which the controller holds b: r says how many are       *)
(* outstanding once the first i events have been handled.  The completions *)
(* that wait never exceed them, and what remains is at least b.            *)
Completes(e, h) == IF e.type = "comp" /\ e.h = h THEN e.n ELSE 0

Covers(r, q, l, h) == \A i \in 1 .. l : r[i] + Completes(q[i], h) = r[i - 1]

CoveredBy(q, l, h, a, b) ==
    \E r \in [0 .. l -> Nat] : r[0] = a /\ b <= r[l] /\ Covers(r, q, l, h)

(* Nothing was made up, and the end of a link is the last event about it.  *)
Truthful(q, l) == \A i \in 1 .. l : q[i].type \notin {"fail", "reset"}

EndsLast(q, l, up) ==
    \A i \in 1 .. l : q[i].type = "disc" =>
        q[i].h \notin up /\ \A j \in 1 .. l : q[j].h = q[i].h => j <= i

Silent(q, l, h) == \A i \in 1 .. l : q[i].h # h

Story(q, l, up) == Truthful(q, l) /\ EndsLast(q, l, up)

(* The connection that is being removed has no link and no event left.     *)
Ending(s, q, l, up) ==
    s.at = "broken" => Connected(s.h) /\ s.h \notin up /\ Silent(q, l, s.h)

Covered == \A h \in Handles :
    /\ CoveredBy(events, Len(events), h, out[h], held[h])
    /\ h \notin links => held[h] = 0

Solvent ==
    honest => /\ host.at # "reset"
              /\ Story(events, Len(events), links) /\ Ending(host, events, Len(events), links)
              /\ Covered /\ CreditsConserved

Credits == Ordered /\ Solvent

-----------------------------------------------------------------------------
(* Sums over handles.                                                      *)

LEMMA TotalType ==
    ASSUME NEW f \in [Handles -> Nat], NEW S \in SUBSET Handles
    PROVE  /\ IsFiniteSet(Buffers(f, S)) /\ Total(f, S) \in Nat /\ IsFiniteSet(S)
           /\ \A h \in Handles : IsFiniteSet({h} \X (1 .. f[h]))
                                 /\ Cardinality({h} \X (1 .. f[h])) = f[h]
  <1> DEFINE B == {{h} \X (1 .. f[h]) : h \in S}
             g == [h \in S |-> {h} \X (1 .. f[h])]
  <1>1. IsFiniteSet(S)
    BY HandlesAssumption, FS_Subset
  <1>2. ASSUME NEW h \in Handles
        PROVE  IsFiniteSet({h} \X (1 .. f[h])) /\ Cardinality({h} \X (1 .. f[h])) = f[h]
    <2>1. f[h] \in Nat
      OBVIOUS
    <2>2. IsFiniteSet(1 .. f[h]) /\ Cardinality(1 .. f[h]) = f[h]
      BY <2>1, FS_Interval
    <2>3. IsFiniteSet({h}) /\ Cardinality({h}) = 1
      BY FS_Singleton
    <2>4. /\ IsFiniteSet({h} \X (1 .. f[h]))
          /\ Cardinality({h} \X (1 .. f[h])) = 1 * f[h]
      BY <2>2, <2>3, FS_Product
    <2>5. QED
      BY <2>1, <2>4
  <1>3. g \in Surjection(S, B)
    BY DEF Surjection
  <1>4. IsFiniteSet(B)
    BY <1>1, <1>3, FS_Surjection
  <1>5. IsFiniteSet(UNION B)
    BY <1>2, <1>4, FS_UNION
  <1>6. QED
    BY <1>1, <1>2, <1>5, FS_CardinalityType DEF Buffers, Total

LEMMA TotalAdd ==
    ASSUME NEW f \in [Handles -> Nat], NEW S \in SUBSET Handles, NEW x \in Handles, x \notin S
    PROVE  Total(f, S \cup {x}) = Total(f, S) + f[x]
  <1> DEFINE A == Buffers(f, S)
             B == {x} \X (1 .. f[x])
  <1>1. Buffers(f, S \cup {x}) = A \cup B
    BY DEF Buffers
  <1>2. A \cap B = {}
    BY DEF Buffers
  <1>3. IsFiniteSet(A) /\ IsFiniteSet(B) /\ Cardinality(A) \in Nat /\ Cardinality(B) = f[x]
        /\ Cardinality(A) = Total(f, S)
    BY TotalType DEF Total
  <1> HIDE DEF A, B
  <1>4. Cardinality(A \cup B) = Cardinality(A) + Cardinality(B) - Cardinality(A \cap B)
    BY <1>3, FS_Union
  <1>5. Cardinality(A \cap B) = 0 /\ f[x] \in Nat
    BY <1>2, FS_EmptySet
  <1>6. Total(f, S \cup {x}) = Cardinality(A \cup B)
    BY <1>1 DEF Total
  <1>7. QED
    BY <1>3, <1>4, <1>5, <1>6

LEMMA TotalSame ==
    ASSUME NEW f, NEW g, NEW S, \A h \in S : f[h] = g[h]
    PROVE  Total(f, S) = Total(g, S)
  <1>1. Buffers(f, S) = Buffers(g, S)
    BY DEF Buffers
  <1>2. QED
    BY <1>1 DEF Total

LEMMA TotalGrows ==
    ASSUME NEW f \in [Handles -> Nat], NEW g \in [Handles -> Nat], NEW S \in SUBSET Handles,
           NEW T \in SUBSET Handles, \A h \in S : f[h] = 0 \/ (h \in T /\ f[h] <= g[h])
    PROVE  Total(f, S) <= Total(g, T)
  <1>1. ASSUME NEW b \in Buffers(f, S) PROVE b \in Buffers(g, T)
    <2>1. PICK h \in S : b \in {h} \X (1 .. f[h])
      BY <1>1 DEF Buffers
    <2>2. h \in T /\ b \in {h} \X (1 .. g[h])
      BY <2>1
    <2>3. QED
      BY <2>2 DEF Buffers
  <1>2. IsFiniteSet(Buffers(g, T))
    BY TotalType
  <1>3. QED
    BY <1>1, <1>2, FS_Subset DEF Total

(* A value changes at one handle.                                          *)
LEMMA TotalChange ==
    ASSUME NEW f \in [Handles -> Nat], NEW g \in [Handles -> Nat], NEW S \in SUBSET Handles,
           NEW x \in S, \A h \in S : h # x => g[h] = f[h]
    PROVE  Total(g, S) + f[x] = Total(f, S) + g[x]
  <1> DEFINE R == S \ {x}
  <1>1. S = R \cup {x} /\ x \notin R /\ R \in SUBSET Handles /\ x \in Handles
    OBVIOUS
  <1>2. Total(f, R) = Total(g, R)
    BY TotalSame
  <1> HIDE DEF R
  <1>3. Total(f, S) = Total(f, R) + f[x] /\ Total(g, S) = Total(g, R) + g[x]
    BY <1>1, TotalAdd
  <1>4. Total(f, R) \in Nat /\ f[x] \in Nat /\ g[x] \in Nat
    BY <1>1, TotalType
  <1>5. QED
    BY <1>2, <1>3, <1>4

-----------------------------------------------------------------------------
(* Handing over fragments.                                                 *)

LEMMA MinPair ==
    ASSUME NEW a \in Int, NEW b \in Int
    PROVE  Min({a, b}) = IF a <= b THEN a ELSE b
  <1>1. PICK m \in {a, b} : m = (IF a <= b THEN a ELSE b) /\ \A y \in {a, b} : m <= y
    OBVIOUS
  <1>2. \A x \in {a, b} : (\A y \in {a, b} : x <= y) => x = m
    BY <1>1
  <1>3. QED
    BY <1>1, <1>2 DEF Min

LEMMA TxNowFacts ==
    ASSUME TypeOK, NEW h \in Handles, NEW p \in Packets, p.done < p.of, NEW o \in Results,
           TxNow(h, p, o)
    PROVE  /\ o.n \in Nat /\ o.n <= avail /\ p.done + o.n <= p.of
           /\ o.res = "again" => p.done + o.n < p.of
           /\ faults' \subseteq Faults /\ HandOver(h, p, o)
  <1> DEFINE want == Min({p.of - p.done, avail})
  <1>1. /\ p.of \in Nat /\ p.done \in Nat /\ avail \in Nat /\ o.n \in Nat
        /\ held \in [Handles -> Nat]
    BY SizesAssumption DEF Packets, Results, TypeOK
  <1>2. Room \in Int
    BY <1>1, TotalType, SizesAssumption DEF Room, Held
  <1>3. want \in Nat /\ want <= avail /\ p.done + want <= p.of
    BY <1>1, MinPair
  <1>4. ASSUME NEW q \in Outcomes(h, p)
        PROVE  /\ q.n \in Int /\ q.n <= want
               /\ q.res = "again" => p.done + q.n # p.of
    <2> HIDE DEF want
    <2>1. PICK k \in (IF h \in links THEN {Min({want, Room})} ELSE {0, want}) :
             q = [n |-> k, res |-> IF k < want THEN "error" ELSE Ended(p, k)]
      BY <1>4 DEF Outcomes, want
    <2>2. Min({want, Room}) \in Int /\ Min({want, Room}) <= want
      BY <1>2, <1>3, MinPair
    <2>3. k \in Int /\ k <= want
      BY <1>3, <2>1, <2>2
    <2>4. QED
      BY <1>1, <1>3, <2>1, <2>3 DEF Ended
  <1> HIDE DEF want
  <1>5. faults' \subseteq Faults /\ HandOver(h, p, o)
    BY DEF TxNow, Blame, TypeOK, Faults
  <1>6. CASE o \in Outcomes(h, p)
    BY <1>1, <1>3, <1>4, <1>5, <1>6
  <1>7. CASE o \in NoFrag(h, p)
    <2>1. PICK j \in 0 .. MaxFrags : /\ \E q \in Outcomes(h, p) : j < q.n /\ p.done + j + 1 < p.of
                                     /\ o = [n |-> j, res |-> "again"]
      BY <1>7 DEF NoFrag
    <2>2. o.n = j /\ j < want /\ j \in Nat
      BY <1>3, <1>4, <2>1, SizesAssumption
    <2>3. QED
      BY <1>1, <1>3, <1>5, <2>1, <2>2
  <1>8. CASE o \in NoMem(h, p)
    <2>1. PICK j \in 0 .. MaxFrags : /\ \E q \in Outcomes(h, p) : j < q.n
                                     /\ o = [n |-> j, res |-> "error"]
      BY <1>8 DEF NoMem
    <2>2. o.n = j /\ j < want /\ j \in Nat /\ o.res = "error"
      BY <1>3, <1>4, <2>1, SizesAssumption
    <2>3. QED
      BY <1>1, <1>3, <1>5, <2>2
  <1>9. QED
    BY <1>6, <1>7, <1>8 DEF TxNow

-----------------------------------------------------------------------------
(* The list of connections.                                                *)

LEMMA MinIsIn ==
    ASSUME NEW S \in SUBSET Nat, S # {}
    PROVE  Min(S) \in S /\ \A y \in S : Min(S) <= y
  <1> DEFINE R == OpToRel(<, Nat)
  <1>1. IsWellFoundedOn(R, Nat)
    BY NatLessThanWellFounded
  <1>2. \A x, y \in Nat : y < x => <<y, x>> \in R
    BY DEF OpToRel
  <1> HIDE DEF R
  <1>3. PICK x \in S : \A y \in S : ~(<<y, x>> \in R)
    BY <1>1, WFMin
  <1>4. ASSUME NEW y \in S PROVE x <= y
    <2>1. x \in Nat /\ y \in Nat /\ ~(<<y, x>> \in R)
      BY <1>3
    <2>2. ~(y < x)
      BY <1>2, <2>1
    <2>3. QED
      BY <2>1, <2>2
  <1>5. QED
    BY <1>4 DEF Min

LEMMA RemoveAtElements ==
    ASSUME NEW S, NEW s \in Seq(S), NEW n \in 1 .. Len(s)
    PROVE  /\ RemoveAt(s, n) \in Seq(S) /\ Len(RemoveAt(s, n)) = Len(s) - 1
           /\ \A i \in 1 .. Len(s) - 1 : RemoveAt(s, n)[i] = IF i < n THEN s[i] ELSE s[i + 1]
  <1> DEFINE lo == SubSeq(s, 1, n - 1)
             hi == SubSeq(s, n + 1, Len(s))
  <1>1. Len(s) \in Nat /\ \A i \in 1 .. Len(s) : s[i] \in S
    OBVIOUS
  <1>2. /\ lo \in Seq(S) /\ Len(lo) = n - 1
        /\ \A i \in 1 .. n - 1 : lo[i] = s[i]
    BY <1>1, SubSeqProperties
  <1>3. /\ hi \in Seq(S) /\ Len(hi) = Len(s) - n
        /\ \A i \in 1 .. Len(s) - n : hi[i] = s[n + i]
    BY <1>1, SubSeqProperties
  <1> HIDE DEF lo, hi
  <1>4. /\ lo \o hi \in Seq(S) /\ Len(lo \o hi) = Len(lo) + Len(hi)
        /\ \A i \in 1 .. Len(lo) + Len(hi) :
              (lo \o hi)[i] = IF i <= Len(lo) THEN lo[i] ELSE hi[i - Len(lo)]
    BY <1>2, <1>3, ConcatProperties
  <1>5. RemoveAt(s, n) = lo \o hi
    BY DEF RemoveAt, lo, hi
  <1>6. ASSUME NEW i \in 1 .. Len(s) - 1
        PROVE  RemoveAt(s, n)[i] = IF i < n THEN s[i] ELSE s[i + 1]
    <2>1. CASE i < n
      BY <1>1, <1>2, <1>3, <1>4, <1>5, <2>1
    <2>2. CASE i >= n
      <3>1. i - Len(lo) \in 1 .. Len(s) - n /\ n + (i - Len(lo)) = i + 1
        BY <1>1, <1>2, <2>2
      <3>2. (lo \o hi)[i] = hi[i - Len(lo)]
        BY <1>1, <1>2, <1>3, <1>4, <2>2
      <3>3. hi[i - Len(lo)] = s[n + (i - Len(lo))]
        BY <1>3, <3>1
      <3>4. QED
        BY <1>5, <2>2, <3>1, <3>2, <3>3
    <2>3. QED
      BY <1>1, <2>1, <2>2
  <1>7. RemoveAt(s, n) \in Seq(S)
    BY <1>4, <1>5
  <1>8. Len(RemoveAt(s, n)) = Len(s) - 1
    <2>1. (n - 1) + (Len(s) - n) = Len(s) - 1
      BY <1>1
    <2>2. Len(lo \o hi) = (n - 1) + (Len(s) - n)
      BY <1>2, <1>3, <1>4
    <2>3. QED
      BY <1>5, <2>1, <2>2
  <1>9. QED
    BY <1>6, <1>7, <1>8

(* A connection that is forgotten is no longer on the list; the others     *)
(* stay.                                                                   *)
LEMMA RemoveFacts ==
    ASSUME conns \in Seq(Handles), IsInjective(conns), NEW h, NEW q, q = RemoveFirst(conns, h)
    PROVE  /\ q \in Seq(Handles) /\ IsInjective(q)
           /\ \A x : Contains(q, x) <=> Contains(conns, x) /\ x # h
  <1> DEFINE n == Len(conns)
  <1>1. n \in Nat /\ DOMAIN conns = 1 .. n /\ \A i, j \in 1 .. n : conns[i] = conns[j] => i = j
    BY DEF IsInjective
  <1>2. CASE ~\E i \in 1 .. n : conns[i] = h
    <2>1. q = conns
      BY <1>2 DEF RemoveFirst
    <2>2. QED
      BY <1>2, <2>1 DEF Contains
  <1>3. CASE \E i \in 1 .. n : conns[i] = h
    <2> DEFINE I == {i \in 1 .. Len(conns) : conns[i] = h}
               k == Min(I)
    <2>1. k \in I
      <3>1. I \in SUBSET Nat /\ I # {}
        BY <1>3
      <3> HIDE DEF I
      <3>2. QED
        BY <3>1, MinIsIn
    <2>2. q = RemoveAt(conns, k)
      BY <1>3 DEF RemoveFirst, SelectInSeq
    <2>3. k \in 1 .. n /\ conns[k] = h
      BY <2>1
    <2> HIDE DEF I, k
    <2>4. /\ q \in Seq(Handles) /\ Len(q) = n - 1 /\ n >= 1
          /\ \A i \in 1 .. n - 1 : q[i] = IF i < k THEN conns[i] ELSE conns[i + 1]
      <3>1. k \in 1 .. Len(conns)
        BY <2>3
      <3>2. /\ q \in Seq(Handles) /\ Len(q) = Len(conns) - 1
            /\ \A i \in 1 .. Len(conns) - 1 : q[i] = IF i < k THEN conns[i] ELSE conns[i + 1]
        BY <2>2, <3>1, RemoveAtElements
      <3>3. n >= 1
        BY <1>1, <2>3
      <3>4. QED
        BY <3>2, <3>3
    <2> HIDE DEF n
    <2>5. \A i \in 1 .. n - 1 : i \in 1 .. n /\ i + 1 \in 1 .. n
      BY <1>1
    <2>6. DOMAIN q = 1 .. n - 1
      BY <2>4
    <2>7. IsInjective(q)
      <3>1. ASSUME NEW i \in 1 .. n - 1, NEW j \in 1 .. n - 1, q[i] = q[j] PROVE i = j
        BY <1>1, <2>3, <2>4, <2>5, <3>1
      <3>2. QED
        BY <2>6, <3>1 DEF IsInjective
    <2>8. ASSUME NEW x, Contains(q, x) PROVE Contains(conns, x) /\ x # h
      <3>1. PICK i \in 1 .. n - 1 : q[i] = x
        BY <2>4, <2>8 DEF Contains
      <3>2. CASE i < k
        BY <1>1, <2>3, <2>4, <2>5, <3>1, <3>2 DEF Contains, n
      <3>3. CASE ~(i < k)
        <4>1. x = conns[i + 1] /\ i + 1 \in 1 .. n /\ i + 1 # k
          BY <1>1, <2>3, <2>4, <2>5, <3>1, <3>3
        <4>2. QED
          BY <1>1, <2>3, <4>1 DEF Contains, n
      <3>4. QED
        BY <3>2, <3>3
    <2>9. ASSUME NEW x, Contains(conns, x), x # h PROVE Contains(q, x)
      <3>1. PICK i \in 1 .. n : conns[i] = x
        BY <2>9 DEF Contains, n
      <3>2. i # k
        BY <2>3, <2>9, <3>1
      <3>3. CASE i < k
        <4>1. i \in 1 .. n - 1 /\ q[i] = x
          BY <1>1, <2>3, <2>4, <3>1, <3>3
        <4>2. QED
          BY <2>4, <4>1 DEF Contains
      <3>4. CASE i > k
        <4>1. i - 1 \in 1 .. n - 1 /\ ~(i - 1 < k) /\ (i - 1) + 1 = i
          BY <1>1, <2>3, <3>1, <3>4
        <4>2. q[i - 1] = x
          BY <2>4, <3>1, <4>1
        <4>3. QED
          BY <2>4, <4>1, <4>2 DEF Contains
      <3>5. QED
        BY <1>1, <2>3, <3>1, <3>2, <3>3, <3>4
    <2>10. QED
      BY <2>4, <2>7, <2>8, <2>9
  <1>4. QED
    BY <1>2, <1>3

LEMMA ConsFacts ==
    ASSUME conns \in Seq(Handles), IsInjective(conns), NEW h \in Handles, ~Contains(conns, h),
           NEW q, q = <<h>> \o conns
    PROVE  /\ q \in Seq(Handles) /\ IsInjective(q)
           /\ \A x : Contains(q, x) <=> Contains(conns, x) \/ x = h
  <1> DEFINE n == Len(conns)
  <1>1. n \in Nat /\ DOMAIN conns = 1 .. n /\ \A i, j \in 1 .. n : conns[i] = conns[j] => i = j
    BY DEF IsInjective
  <1>2. /\ q \in Seq(Handles) /\ Len(q) = n + 1 /\ q[1] = h
        /\ \A i \in 1 .. n : q[i + 1] = conns[i]
    BY ConcatProperties
  <1>3. \A i \in 1 .. n : conns[i] # h
    BY DEF Contains
  <1>4. DOMAIN q = 1 .. n + 1
    BY <1>2
  <1> HIDE DEF n
  <1>5. \A i \in 1 .. n + 1 : i = 1 \/ (i - 1 \in 1 .. n /\ (i - 1) + 1 = i)
    BY <1>1
  <1>6. \A i \in 2 .. n + 1 : i - 1 \in 1 .. n /\ q[i] = conns[i - 1]
    <2>1. ASSUME NEW i \in 2 .. n + 1 PROVE i - 1 \in 1 .. n /\ q[i] = conns[i - 1]
      <3>1. i - 1 \in 1 .. n /\ (i - 1) + 1 = i
        BY <1>1
      <3>2. QED
        BY <1>2, <3>1
    <2>2. QED
      BY <2>1
  <1>7. IsInjective(q)
    <2>1. ASSUME NEW i \in 1 .. n + 1, NEW j \in 1 .. n + 1, q[i] = q[j] PROVE i = j
      <3>1. \A k \in 1 .. n + 1 : k = 1 \/ k \in 2 .. n + 1
        BY <1>1
      <3>2. CASE i \in 2 .. n + 1 /\ j \in 2 .. n + 1
        <4>1. i - 1 = j - 1
          BY <1>1, <1>6, <2>1, <3>2
        <4>2. QED
          BY <1>1, <4>1
      <3>3. QED
        BY <1>2, <1>3, <1>6, <2>1, <3>1, <3>2
    <2>2. QED
      BY <1>4, <2>1 DEF IsInjective
  <1>8. ASSUME NEW x PROVE Contains(q, x) <=> Contains(conns, x) \/ x = h
    <2>1. Contains(q, x) <=> \E i \in 1 .. n + 1 : q[i] = x
      BY <1>2 DEF Contains
    <2>2. Contains(conns, x) <=> \E i \in 1 .. n : conns[i] = x
      BY DEF Contains, n
    <2>3. 1 \in 1 .. n + 1 /\ \A i \in 1 .. n : i + 1 \in 1 .. n + 1
      BY <1>1
    <2>4. \A i \in 1 .. n + 1 : i = 1 \/ i \in 2 .. n + 1
      BY <1>1
    <2>5. QED
      BY <1>2, <1>6, <2>1, <2>2, <2>3, <2>4
  <1>9. QED
    BY <1>2, <1>7, <1>8

-----------------------------------------------------------------------------
(* The queue of events.                                                    *)

LEMMA TailEvents ==
    ASSUME NEW q, EventsOK(q), q # <<>>
    PROVE  /\ Head(q) \in Events /\ Head(q) = q[1] /\ 1 \in DOMAIN q
           /\ Head(q).type # "reset" => Head(q).h \in Handles
           /\ EventsOK(Tail(q)) /\ Len(q) \in Nat /\ Len(Tail(q)) = Len(q) - 1
           /\ DOMAIN q = 1 .. Len(q) /\ DOMAIN Tail(q) = 1 .. Len(q) - 1
           /\ \A i \in DOMAIN Tail(q) : i + 1 \in DOMAIN q /\ Tail(q)[i] = q[i + 1]
  <1>1. q \in Seq(Events) /\ \A i \in DOMAIN q : q[i].type # "reset" => q[i].h \in Handles
    BY DEF EventsOK
  <1>2. /\ Head(q) \in Events /\ Head(q) = q[1] /\ 1 \in DOMAIN q
        /\ Tail(q) \in Seq(Events) /\ Len(q) \in Nat /\ Len(Tail(q)) = Len(q) - 1
        /\ DOMAIN q = 1 .. Len(q) /\ DOMAIN Tail(q) = 1 .. Len(q) - 1
        /\ \A i \in DOMAIN Tail(q) : i + 1 \in DOMAIN q /\ Tail(q)[i] = q[i + 1]
    BY <1>1
  <1>3. QED
    BY <1>1, <1>2 DEF EventsOK

LEMMA AppendEvents ==
    ASSUME NEW q, EventsOK(q), NEW e \in Events, e.type # "reset" => e.h \in Handles
    PROVE  /\ EventsOK(Append(q, e)) /\ Len(q) \in Nat
           /\ DOMAIN q = 1 .. Len(q) /\ DOMAIN Append(q, e) = 1 .. Len(q) + 1
           /\ Len(Append(q, e)) = Len(q) + 1
           /\ Append(q, e)[Len(q) + 1] = e
           /\ \A i \in DOMAIN q : i \in DOMAIN Append(q, e) /\ Append(q, e)[i] = q[i]
           /\ \A i \in DOMAIN Append(q, e) : i \in DOMAIN q \/ i = Len(q) + 1
  <1>1. q \in Seq(Events) /\ \A i \in DOMAIN q : q[i].type # "reset" => q[i].h \in Handles
    BY DEF EventsOK
  <1> DEFINE r == Append(q, e)
  <1>2. /\ r \in Seq(Events) /\ Len(q) \in Nat /\ Len(r) = Len(q) + 1
        /\ DOMAIN q = 1 .. Len(q) /\ DOMAIN r = 1 .. Len(q) + 1 /\ r[Len(q) + 1] = e
        /\ \A i \in 1 .. Len(q) : r[i] = q[i]
    BY <1>1, AppendProperties
  <1> HIDE DEF r
  <1>3. /\ \A i \in DOMAIN q : i \in DOMAIN r /\ r[i] = q[i]
        /\ \A i \in DOMAIN r : i \in DOMAIN q \/ i = Len(q) + 1
    BY <1>2
  <1>4. EventsOK(r)
    BY <1>1, <1>2, <1>3 DEF EventsOK
  <1>5. QED
    BY <1>2, <1>3, <1>4 DEF r

LEMMA SchedResetEvents == ASSUME NEW q, EventsOK(q) PROVE EventsOK(SchedReset(q))
  <1> DEFINE e == [type |-> "reset", h |-> 0, n |-> 0]
  <1>1. e \in Events /\ e.type = "reset"
    BY DEF Events
  <1> HIDE DEF e
  <1>2. EventsOK(Append(q, e))
    BY <1>1, AppendEvents
  <1>3. QED
    BY <1>2 DEF SchedReset, e

-----------------------------------------------------------------------------
(* What a call of ble_hs_hci_acl_tx_now does to a queue and the wire.      *)

(* What the proofs use of a queue of length l and of k fragments.          *)
Numbers(q, l) ==
    l \in Nat /\ \A i \in 1 .. l : q[i].id \in Nat /\ q[i].of \in Nat /\ q[i].done \in Nat

Labels(w, k) == k \in Nat /\ \A i \in 1 .. k : w[i].id \in Nat /\ w[i].no \in Nat

(* The head of q is partly sent, or sent or dropped, and r is left.        *)
Shrinks(q, l, n, again, r, j) ==
    /\ l > 0 /\ j \in Nat
    /\ again => /\ j = l /\ r[1].id = q[1].id /\ r[1].of = q[1].of
                /\ r[1].done = q[1].done + n
                /\ \A i \in 2 .. l : r[i] = q[i]
    /\ ~again => j + 1 = l /\ \A i \in 1 .. j : r[i] = q[i + 1]

(* v is w and n fragments of the packet p, sent under the flag f.          *)
Extends(w, k, p, f, n, v, u) ==
    /\ u = k + n
    /\ \A i \in 1 .. k : v[i] = w[i]
    /\ \A i \in 1 .. n :
         /\ v[k + i].id = p.id /\ v[k + i].no = p.done + i
         /\ v[k + i].pb = "first" <=> i = 1 /\ ~f

LEMMA SendFrag ==
    ASSUME NEW q, NEW l, Numbers(q, l), NEW f \in BOOLEAN, FragOK(q, l, f), NEW n \in Nat,
           NEW again \in BOOLEAN, again => q[1].done + n < q[1].of,
           NEW r, NEW j, Shrinks(q, l, n, again, r, j)
    PROVE  FragOK(r, j, again /\ (f \/ n > 0))
  <1>1. l \in Nat /\ j \in Nat /\ l > 0 /\ q[1].done \in Nat /\ q[1].of \in Nat
    BY DEF Numbers, Shrinks
  <1>2. (f <=> q[1].done > 0) /\ \A i \in 1 .. l : q[i].done < q[i].of /\ (i > 1 => q[i].done = 0)
    BY <1>1 DEF FragOK
  <1>3. CASE again
    <2>1. /\ j = l /\ r[1].done = q[1].done + n /\ r[1].of = q[1].of
          /\ \A i \in 2 .. l : r[i] = q[i]
      BY <1>3 DEF Shrinks
    <2>2. (again /\ (f \/ n > 0)) <=> j > 0 /\ r[1].done > 0
      BY <1>1, <1>2, <1>3, <2>1
    <2>3. ASSUME NEW i \in 1 .. j PROVE r[i].done < r[i].of /\ (i > 1 => r[i].done = 0)
      <3>1. CASE i = 1
        BY <1>3, <2>1, <3>1
      <3>2. CASE i \in 2 .. l
        BY <1>1, <1>2, <2>1, <3>2
      <3>3. QED
        BY <1>1, <2>1, <3>1, <3>2
    <2>4. QED
      BY <2>2, <2>3 DEF FragOK
  <1>4. CASE ~again
    <2>1. j + 1 = l /\ \A i \in 1 .. j : r[i] = q[i + 1]
      BY <1>4 DEF Shrinks
    <2>2. ASSUME NEW i \in 1 .. j PROVE r[i].done < r[i].of /\ r[i].done = 0
      <3>1. i + 1 \in 1 .. l /\ i + 1 > 1 /\ r[i] = q[i + 1]
        BY <1>1, <2>1
      <3>2. QED
        BY <1>2, <3>1
    <2>3. j > 0 => r[1].done = 0
      BY <1>1, <2>2
    <2>4. QED
      BY <1>4, <2>2, <2>3 DEF FragOK
  <1>5. QED
    BY <1>3, <1>4

(* The last fragment after the call: of the head, as far as that was sent, *)
(* or of an earlier packet.                                                *)
EndsAt(v, u, p, n) ==
    /\ u \in Nat
    /\ u > 0 => v[u].id \in Nat /\ v[u].id <= p.id
    /\ u > 0 /\ p.done + n = 0 => v[u].id < p.id
    /\ p.done + n > 0 => u > 0 /\ v[u].id = p.id /\ v[u].no = p.done + n

LEMMA LastPiece ==
    ASSUME NEW q, NEW l, Numbers(q, l), l > 0, NEW w, NEW k, Labels(w, k), NEW m \in Nat,
           OrderOK(q, l, w, k, m), NEW f, NEW n \in Nat,
           NEW v, NEW u, Extends(w, k, q[1], f, n, v, u)
    PROVE  EndsAt(v, u, q[1], n)
  <1> DEFINE p == q[1]
  <1>1. l \in Nat /\ k \in Nat /\ p.id \in Nat /\ p.done \in Nat /\ 1 \in 1 .. l /\ u = k + n
    BY DEF Numbers, Labels, Extends
  <1>2. /\ k > 0 /\ p.done = 0 => w[k].id < p.id
        /\ p.done > 0 => k > 0 /\ w[k].id = p.id /\ w[k].no = p.done
    BY <1>1 DEF OrderOK
  <1>3. k > 0 => w[k].id \in Nat /\ v[k] = w[k]
    BY <1>1 DEF Labels, Extends
  <1>4. n > 0 => v[k + n].id = p.id /\ v[k + n].no = p.done + n
    <2>1. n > 0 => n \in 1 .. n
      OBVIOUS
    <2>2. \A i \in 1 .. n : v[k + i].id = p.id /\ v[k + i].no = p.done + i
      BY DEF Extends
    <2>3. QED
      BY <2>1, <2>2
  <1> HIDE DEF p
  <1>5. CASE n = 0
    <2>1. u = k
      BY <1>1, <1>5
    <2>2. /\ u > 0 => v[u].id \in Nat /\ v[u].id <= p.id
          /\ u > 0 /\ p.done + n = 0 => v[u].id < p.id
          /\ p.done + n > 0 => u > 0 /\ v[u].id = p.id /\ v[u].no = p.done + n
      BY <1>1, <1>2, <1>3, <1>5, <2>1
    <2>3. QED
      BY <1>1, <2>2 DEF p, EndsAt
  <1>6. CASE n > 0
    <2>1. u > 0 /\ v[u].id = p.id /\ v[u].no = p.done + n /\ p.done + n # 0
      BY <1>1, <1>4, <1>6
    <2>2. QED
      BY <1>1, <2>1 DEF p, EndsAt
  <1>7. QED
    BY <1>5, <1>6

LEMMA SendOrder ==
    ASSUME NEW q, NEW l, Numbers(q, l), NEW f \in BOOLEAN, FragOK(q, l, f), NEW n \in Nat,
           NEW again \in BOOLEAN, NEW r, NEW j, Shrinks(q, l, n, again, r, j),
           NEW w, NEW k, Labels(w, k), NEW m \in Nat, OrderOK(q, l, w, k, m),
           NEW v, NEW u, Extends(w, k, q[1], f, n, v, u)
    PROVE  OrderOK(r, j, v, u, m)
  <1> DEFINE p == q[1]
             z == v[u]
  <1>1. l \in Nat /\ j \in Nat /\ l > 0 /\ 1 \in 1 .. l /\ p.id \in Nat /\ p.done \in Nat
    BY DEF Numbers, Shrinks
  <1>2. /\ u \in Nat
        /\ u > 0 => z.id \in Nat /\ z.id <= p.id
        /\ u > 0 /\ p.done + n = 0 => z.id < p.id
        /\ p.done + n > 0 => u > 0 /\ z.id = p.id /\ z.no = p.done + n
    <2>1. l > 0
      BY <1>1
    <2>2. EndsAt(v, u, q[1], n)
      BY <2>1, LastPiece
    <2>3. QED
      BY <2>2 DEF EndsAt
  <1>3. \A i \in 1 .. l : q[i].id \in Nat /\ q[i].done \in Nat /\ q[i].id <= m
    BY DEF OrderOK, Numbers
  <1>4. \A i, i2 \in 1 .. l : i < i2 => q[i].id < q[i2].id
    BY DEF OrderOK
  <1>5. \A i \in 2 .. l : p.id < q[i].id /\ q[i].done = 0 /\ i \in 1 .. l
    <2>1. ASSUME NEW i \in 2 .. l PROVE p.id < q[i].id /\ q[i].done = 0 /\ i \in 1 .. l
      <3>1. i \in 1 .. l /\ 1 < i
        BY <1>1
      <3>2. QED
        BY <1>1, <1>4, <3>1 DEF FragOK
    <2>2. QED
      BY <2>1
  <1>6. p.id <= m
    BY <1>1, <1>3
  <1>7. u > 0 => z.id <= m
    BY <1>1, <1>2, <1>6
  <1>8. CASE again
    <2>1. /\ j = l /\ r[1].id = p.id /\ r[1].done = p.done + n
          /\ \A i \in 2 .. l : r[i] = q[i]
      BY <1>8 DEF Shrinks
    <2> HIDE DEF p, z
    <2>2. \A i \in 1 .. j : i = 1 \/ i \in 2 .. l
      BY <1>1, <2>1
    <2>3. \A i \in 1 .. j : r[i].id <= m
      BY <1>3, <1>5, <1>6, <2>1, <2>2
    <2>4. ASSUME NEW i \in 1 .. j, NEW i2 \in 1 .. j, i < i2 PROVE r[i].id < r[i2].id
      <3>1. i2 \in 2 .. l
        BY <1>1, <2>1, <2>4
      <3>2. QED
        BY <1>4, <1>5, <2>1, <2>2, <2>4, <3>1
    <2>5. ASSUME NEW i \in 1 .. j, u > 0, r[i].done = 0 PROVE z.id < r[i].id
      <3>1. CASE i = 1
        BY <1>2, <2>1, <2>5, <3>1
      <3>2. CASE i \in 2 .. l
        <4>1. q[i].id \in Nat /\ p.id < q[i].id /\ r[i] = q[i]
          BY <1>3, <1>5, <2>1, <3>2
        <4>2. QED
          BY <1>1, <1>2, <2>5, <4>1
      <3>3. QED
        BY <2>2, <3>1, <3>2
    <2>6. ASSUME NEW i \in 1 .. j, r[i].done > 0
          PROVE  u > 0 /\ z.id = r[i].id /\ z.no = r[i].done
      <3>1. i = 1
        BY <1>5, <2>1, <2>2, <2>6
      <3>2. QED
        BY <1>2, <2>1, <2>6, <3>1
    <2>7. QED
      BY <1>7, <2>3, <2>4, <2>5, <2>6 DEF OrderOK, z
  <1>9. CASE ~again
    <2>1. j + 1 = l /\ \A i \in 1 .. j : r[i] = q[i + 1]
      BY <1>9 DEF Shrinks
    <2> HIDE DEF p, z
    <2>2. ASSUME NEW i \in 1 .. j
          PROVE  /\ i + 1 \in 1 .. l /\ r[i] = q[i + 1] /\ r[i].id <= m /\ r[i].done = 0
                 /\ p.id < r[i].id /\ r[i].id \in Nat
      <3>1. i + 1 \in 2 .. l /\ r[i] = q[i + 1]
        BY <1>1, <2>1
      <3>2. QED
        BY <1>3, <1>5, <3>1
    <2>3. ASSUME NEW i \in 1 .. j, NEW i2 \in 1 .. j, i < i2 PROVE r[i].id < r[i2].id
      <3>1. i + 1 < i2 + 1
        BY <1>1, <2>3
      <3>2. i + 1 \in 1 .. l /\ i2 + 1 \in 1 .. l /\ r[i] = q[i + 1] /\ r[i2] = q[i2 + 1]
        BY <2>2
      <3>3. QED
        BY <1>4, <3>1, <3>2
    <2>4. ASSUME NEW i \in 1 .. j, u > 0 PROVE z.id < r[i].id
      <3>1. p.id < r[i].id /\ r[i].id \in Nat
        BY <2>2
      <3>2. QED
        BY <1>1, <1>2, <2>4, <3>1
    <2>5. QED
      BY <1>7, <2>2, <2>3, <2>4 DEF OrderOK, z
  <1>10. QED
    BY <1>8, <1>9

LEMMA SendWell ==
    ASSUME NEW q, NEW l, Numbers(q, l), l > 0, NEW f \in BOOLEAN, FragOK(q, l, f), NEW n \in Nat,
           NEW w, NEW k, Labels(w, k), NEW m \in Nat, OrderOK(q, l, w, k, m), WellFormed(w, k),
           NEW v, NEW u, Extends(w, k, q[1], f, n, v, u)
    PROVE  WellFormed(v, u)
  <1> DEFINE p == q[1]
  <1>1. /\ l \in Nat /\ k \in Nat /\ p.id \in Nat /\ p.done \in Nat /\ 1 \in 1 .. l
        /\ u = k + n /\ (f <=> p.done > 0)
    BY DEF Numbers, Labels, Extends, FragOK
  <1>2. /\ k > 0 /\ p.done = 0 => w[k].id < p.id
        /\ p.done > 0 => k > 0 /\ w[k].id = p.id /\ w[k].no = p.done
    BY <1>1 DEF OrderOK
  <1>3. \A i \in 1 .. k : v[i] = w[i]
    BY DEF Extends
  <1>4. \A i \in 1 .. n :
           /\ v[k + i].id = p.id /\ v[k + i].no = p.done + i
           /\ v[k + i].pb = "first" <=> i = 1 /\ ~f
    BY DEF Extends
  <1> HIDE DEF p
  <1> SUFFICES ASSUME NEW i \in 1 .. u
               PROVE  /\ v[i].pb = "first" <=> v[i].no = 1
                      /\ v[i].no > 1 => i > 1 /\ v[i - 1].id = v[i].id
                                             /\ v[i - 1].no = v[i].no - 1
                      /\ i > 1 /\ v[i].no = 1 => v[i - 1].id < v[i].id
    BY DEF WellFormed
  <1>5. CASE i <= k
    <2>1. i \in 1 .. k /\ v[i] = w[i]
      BY <1>1, <1>3, <1>5
    <2>2. i > 1 => v[i - 1] = w[i - 1]
      BY <1>1, <1>3, <1>5
    <2>3. QED
      BY <2>1, <2>2 DEF WellFormed
  <1>6. CASE i = k + 1
    <2>1. 1 \in 1 .. n
      BY <1>1, <1>6
    <2>2. v[i].id = p.id /\ v[i].no = p.done + 1 /\ (v[i].pb = "first" <=> ~f)
      BY <1>4, <1>6, <2>1
    <2>3. k > 0 => v[i - 1] = w[k]
      BY <1>1, <1>3, <1>6
    <2>4. i > 1 <=> k > 0
      BY <1>1, <1>6
    <2>5. QED
      BY <1>1, <1>2, <2>2, <2>3, <2>4
  <1>7. CASE i > k + 1
    <2>1. /\ i - k \in 1 .. n /\ k + (i - k) = i /\ i - k > 1
          /\ (i - k) - 1 \in 1 .. n /\ k + ((i - k) - 1) = i - 1 /\ i > 1
      BY <1>1, <1>7
    <2>2. /\ v[i].id = p.id /\ v[i].no = p.done + (i - k) /\ v[i].pb # "first"
          /\ v[i - 1].id = p.id /\ v[i - 1].no = p.done + ((i - k) - 1)
      BY <1>4, <2>1
    <2>3. v[i].no > 1 /\ v[i - 1].no = v[i].no - 1
      BY <1>1, <2>1, <2>2
    <2>4. QED
      BY <2>1, <2>2, <2>3
  <1>8. QED
    BY <1>1, <1>5, <1>6, <1>7

LEMMA RestFacts ==
    ASSUME NEW q \in Seq(Packets), q # <<>>, NEW o \in Results,
           NEW r, r = Rest(Head(q), o) \o Tail(q)
    PROVE  /\ Shrinks(q, Len(q), o.n, o.res = "again", r, Len(r))
           /\ Head(q) = q[1] /\ r \in Seq(Packets)
  <1> DEFINE p == Head(q)
             t == Tail(q)
             p2 == [p EXCEPT !.done = p.done + o.n]
  <1>1. /\ Len(q) \in Nat /\ Len(q) >= 1 /\ DOMAIN q = 1 .. Len(q)
        /\ p = q[1] /\ p \in Packets /\ t \in Seq(Packets) /\ Len(t) = Len(q) - 1
        /\ \A i \in 1 .. Len(q) - 1 : t[i] = q[i + 1]
    BY HeadTailProperties
  <1>2. p2 \in Packets
    <2>1. p.done + o.n \in Nat
      BY <1>1, SizesAssumption DEF Packets, Results
    <2>2. QED
      BY <1>1, <2>1 DEF Packets
  <1>3. CASE o.res = "again"
    <2>1. r = <<p2>> \o t
      BY <1>3 DEF Rest
    <2> HIDE DEF p, t, p2
    <2>2. /\ r \in Seq(Packets) /\ Len(r) = 1 + Len(t) /\ r[1] = p2
          /\ \A i \in 1 .. Len(t) : r[i + 1] = t[i]
      <3> DEFINE u == <<p2>>
      <3>1. r = u \o t
        BY <2>1
      <3>2. u \in Seq(Packets) /\ Len(u) = 1 /\ u[1] = p2
        BY <1>2
      <3> HIDE DEF u
      <3>3. t \in Seq(Packets) /\ u \in Seq(Packets)
        BY <1>1, <3>2
      <3>4. /\ r \in Seq(Packets) /\ Len(r) = Len(u) + Len(t)
            /\ \A i \in 1 .. Len(u) + Len(t) : r[i] = IF i <= Len(u) THEN u[i] ELSE t[i - Len(u)]
        <4>1. /\ u \o t \in Seq(Packets) /\ Len(u \o t) = Len(u) + Len(t)
              /\ \A i \in 1 .. Len(u) + Len(t) :
                    (u \o t)[i] = IF i <= Len(u) THEN u[i] ELSE t[i - Len(u)]
          BY <3>3, ConcatProperties, Zenon
        <4>2. QED
          BY <3>1, <4>1, Zenon
      <3>5. \A i \in 1 .. Len(t) : i + 1 \in 1 .. 1 + Len(t) /\ ~(i + 1 <= 1) /\ (i + 1) - 1 = i
        BY <1>1
      <3>6. 1 \in 1 .. 1 + Len(t) /\ 1 <= 1
        BY <1>1
      <3>7. QED
        BY <3>2, <3>4, <3>5, <3>6
    <2>3. Len(r) = Len(q)
      BY <1>1, <2>2
    <2>4. ASSUME NEW i \in 1 .. Len(q), i > 1 PROVE r[i] = q[i]
      <3>1. i - 1 \in 1 .. Len(t) /\ (i - 1) + 1 = i
        BY <1>1, <2>4
      <3>2. r[(i - 1) + 1] = t[i - 1] /\ t[i - 1] = q[(i - 1) + 1]
        BY <1>1, <2>2, <3>1
      <3>3. QED
        BY <3>1, <3>2
    <2>5. r[1].id = q[1].id /\ r[1].of = q[1].of /\ r[1].done = q[1].done + o.n
      BY <1>1, <2>2 DEF p2, Packets
    <2>6. \A i \in 2 .. Len(q) : i \in 1 .. Len(q) /\ i > 1
      BY <1>1
    <2>7. QED
      BY <1>1, <1>3, <2>2, <2>3, <2>4, <2>6, <2>5 DEF p, Shrinks
  <1>4. CASE o.res # "again"
    <2>1. r = <<>> \o t
      BY <1>4 DEF Rest
    <2> HIDE DEF p, t, p2
    <2>2. r = t
      BY <1>1, <2>1
    <2>3. Len(r) \in Nat /\ Len(r) + 1 = Len(q) /\ \A i \in 1 .. Len(r) : r[i] = q[i + 1]
      <3>1. Len(r) = Len(q) - 1 /\ \A i \in 1 .. Len(q) - 1 : r[i] = q[i + 1]
        BY <1>1, <2>2
      <3>2. Len(r) \in Nat /\ Len(r) + 1 = Len(q)
        <4>1. \A x, y : x \in Nat /\ x >= 1 /\ y = x - 1 => y \in Nat /\ y + 1 = x
          OBVIOUS
        <4>2. QED
          BY <1>1, <3>1, <4>1, Zenon
      <3>3. QED
        BY <3>1, <3>2
    <2>4. Len(q) > 0
      BY <1>1
    <2>5. Shrinks(q, Len(q), o.n, o.res = "again", r, Len(r))
      BY <1>4, <2>3, <2>4 DEF Shrinks
    <2>6. QED
      BY <1>1, <2>2, <2>5 DEF p
  <1>5. QED
    BY <1>3, <1>4

(* The fragments that are handed over, for a flag f.                       *)
Pieces(p, f, n) ==
    [k \in 1 .. n |-> [id |-> p.id, no |-> p.done + k,
                       pb |-> IF k = 1 /\ ~f THEN "first" ELSE "middle"]]

LEMMA PieceFacts ==
    ASSUME NEW p \in Packets, NEW f \in BOOLEAN, NEW n \in Nat, NEW w \in Seq(Fragments),
           NEW v, v = w \o Pieces(p, f, n)
    PROVE  Extends(w, Len(w), p, f, n, v, Len(v)) /\ v \in Seq(Fragments)
  <1> DEFINE E == Pieces(p, f, n)
             e(k) == [id |-> p.id, no |-> p.done + k,
                      pb |-> IF k = 1 /\ ~f THEN "first" ELSE "middle"]
  <1>1. ASSUME NEW k \in 1 .. n PROVE e(k) \in Fragments
    <2>1. p.id \in Nat \ {0} /\ p.done + k \in Nat \ {0}
      BY DEF Packets
    <2>2. QED
      BY <2>1 DEF Fragments
  <1>2. E = [k \in 1 .. n |-> e(k)]
    BY DEF Pieces
  <1> HIDE DEF e, E
  <1>3. E \in Seq(Fragments) /\ Len(E) = n /\ \A k \in 1 .. n : E[k] = e(k)
    <2>1. E \in [1 .. n -> Fragments]
      BY <1>1, <1>2
    <2>2. QED
      BY <1>2, <2>1
  <1>4. /\ v \in Seq(Fragments) /\ Len(v) = Len(w) + n
        /\ \A i \in 1 .. Len(w) + Len(E) : v[i] = IF i <= Len(w) THEN w[i] ELSE E[i - Len(w)]
    BY <1>3, ConcatProperties DEF E
  <1>5. Len(w) \in Nat /\ DOMAIN w = 1 .. Len(w) /\ DOMAIN v = 1 .. Len(w) + n
    BY <1>4
  <1>6. \A i \in 1 .. Len(w) : v[i] = w[i]
    BY <1>3, <1>4, <1>5
  <1>7. ASSUME NEW i \in 1 .. n
        PROVE  /\ v[Len(w) + i].id = p.id /\ v[Len(w) + i].no = p.done + i
               /\ v[Len(w) + i].pb = "first" <=> i = 1 /\ ~f
    <2>1. /\ Len(w) + i \in 1 .. Len(w) + Len(E) /\ ~(Len(w) + i <= Len(w))
          /\ (Len(w) + i) - Len(w) = i
      BY <1>3, <1>5
    <2>2. v[Len(w) + i] = e(i)
      BY <1>3, <1>4, <2>1
    <2>3. QED
      BY <2>2 DEF e
  <1>8. QED
    BY <1>4, <1>5, <1>6, <1>7 DEF Extends

LEMMA QueueTypes ==
    ASSUME NEW q \in Seq(Packets), NEW w \in Seq(Fragments)
    PROVE  Numbers(q, Len(q)) /\ Labels(w, Len(w))
  <1>1. Len(q) \in Nat /\ Len(w) \in Nat
    OBVIOUS
  <1>2. ASSUME NEW i \in 1 .. Len(q)
        PROVE  q[i].id \in Nat /\ q[i].of \in Nat /\ q[i].done \in Nat
    <2>1. q[i] \in Packets
      OBVIOUS
    <2>2. QED
      BY <2>1, SizesAssumption DEF Packets
  <1>3. ASSUME NEW i \in 1 .. Len(w) PROVE w[i].id \in Nat /\ w[i].no \in Nat
    <2>1. w[i] \in Fragments
      OBVIOUS
    <2>2. QED
      BY <2>1 DEF Fragments
  <1>4. QED
    BY <1>1, <1>2, <1>3 DEF Numbers, Labels

LEMMA SendLengths ==
    ASSUME NEW q, NEW l, Numbers(q, l), NEW f \in BOOLEAN, FragOK(q, l, f), NEW n \in Nat,
           NEW again \in BOOLEAN, again => q[1].done + n < q[1].of,
           NEW r, NEW j, Shrinks(q, l, n, again, r, j),
           NEW w, NEW k, Labels(w, k), NEW m \in Nat, OrderOK(q, l, w, k, m), WellFormed(w, k),
           NEW v, NEW u, Extends(w, k, q[1], f, n, v, u)
    PROVE  FragOK(r, j, again /\ (f \/ n > 0)) /\ OrderOK(r, j, v, u, m) /\ WellFormed(v, u)
  <1>1. l > 0
    BY DEF Shrinks
  <1>2. FragOK(r, j, again /\ (f \/ n > 0))
    BY SendFrag
  <1>3. OrderOK(r, j, v, u, m)
    BY SendOrder
  <1>4. WellFormed(v, u)
    BY <1>1, SendWell
  <1>5. QED
    BY <1>2, <1>3, <1>4

(* A call on behalf of the head of a queue keeps what holds of it.         *)
Left(q, o)         == Rest(Head(q), o) \o Tail(q)
Longer(w, q, f, o) == w \o Pieces(Head(q), f, o.n)
Waits(q, f, o)     == o.res = "again" /\ (f \/ o.n > 0)
Fits(q, o)         == q # <<>> /\ (o.res = "again" => Head(q).done + o.n < Head(q).of)

LEMMA SendQueue ==
    ASSUME NEW q \in Seq(Packets), NEW f \in BOOLEAN, NEW w \in Seq(Fragments),
           NEW m \in Nat, QueueOK(q, f, w, m), NEW o \in Results, Fits(q, o),
           NEW r, r = Left(q, o), NEW v, v = Longer(w, q, f, o)
    PROVE  QueueOK(r, Waits(q, f, o), v, m) /\ r \in Seq(Packets) /\ v \in Seq(Fragments)
  <1>1. PICK again \in BOOLEAN : again = (o.res = "again")
    OBVIOUS
  <1>2. PICK n \in Nat : n = o.n
    BY SizesAssumption DEF Results
  <1>3. PICK p \in Packets : p = Head(q)
    BY HeadTailProperties DEF Fits
  <1>4. PICK l, j, k, u : l = Len(q) /\ j = Len(r) /\ k = Len(w) /\ u = Len(v)
    OBVIOUS
  <1>5. Shrinks(q, l, n, again, r, j) /\ p = q[1] /\ r \in Seq(Packets)
    BY <1>1, <1>2, <1>3, <1>4, RestFacts, Zenon DEF Fits, Left
  <1>6. Extends(w, k, p, f, n, v, u) /\ v \in Seq(Fragments)
    <2>1. Extends(w, Len(w), p, f, n, v, Len(v)) /\ v \in Seq(Fragments)
      BY <1>2, <1>3, PieceFacts DEF Longer
    <2>2. QED
      BY <1>4, <2>1
  <1>7. Numbers(q, l) /\ Labels(w, k)
    BY <1>4, QueueTypes
  <1>8. /\ FragOK(q, l, f) /\ OrderOK(q, l, w, k, m) /\ WellFormed(w, k)
        /\ again => p.done + n < p.of
    BY <1>1, <1>2, <1>3, <1>4 DEF QueueOK, Fits
  <1>9. /\ FragOK(r, j, again /\ (f \/ n > 0)) /\ OrderOK(r, j, v, u, m)
        /\ WellFormed(v, u)
    <2>1. again => q[1].done + n < q[1].of
      BY <1>5, <1>8
    <2>2. Extends(w, k, q[1], f, n, v, u)
      BY <1>5, <1>6
    <2>3. Numbers(q, l) /\ Labels(w, k) /\ Shrinks(q, l, n, again, r, j)
      BY <1>5, <1>7
    <2>4. FragOK(q, l, f) /\ OrderOK(q, l, w, k, m) /\ WellFormed(w, k)
      BY <1>8
    <2>5. m \in Nat /\ n \in Nat /\ again \in BOOLEAN /\ f \in BOOLEAN
      BY <1>1, <1>2
    <2>6. QED
      BY <2>1, <2>2, <2>3, <2>4, <2>5, SendLengths
  <1>10. Waits(q, f, o) = (again /\ (f \/ n > 0))
    BY <1>1, <1>2 DEF Waits
  <1>11. QED
    BY <1>4, <1>5, <1>6, <1>9, <1>10 DEF QueueOK

-----------------------------------------------------------------------------
(* The connections' queues over a step.                                    *)

(* A later packet number does not disturb a queue.                         *)
LEMMA QueueLater ==
    ASSUME NEW q \in Seq(Packets), NEW f \in BOOLEAN, NEW w \in Seq(Fragments), NEW m \in Nat,
           QueueOK(q, f, w, m), NEW m2 \in Nat, m <= m2
    PROVE  QueueOK(q, f, w, m2)
  <1>1. PICK l, k : l = Len(q) /\ k = Len(w)
    OBVIOUS
  <1>2. Numbers(q, l) /\ Labels(w, k)
    BY <1>1, QueueTypes
  <1>3. OrderOK(q, l, w, k, m)
    BY <1>1 DEF QueueOK
  <1>4. k \in Nat /\ (k > 0 => w[k].id \in Nat) /\ \A i \in 1 .. l : q[i].id \in Nat
    BY <1>2 DEF Numbers, Labels
  <1>5. \A i \in 1 .. l : q[i].id <= m2
    BY <1>3, <1>4 DEF OrderOK
  <1>6. k > 0 => w[k].id <= m2
    BY <1>3, <1>4 DEF OrderOK
  <1>7. OrderOK(q, l, w, k, m2)
    BY <1>3, <1>5, <1>6 DEF OrderOK
  <1>8. QED
    BY <1>1, <1>7 DEF QueueOK

(* A new packet goes to the end of its queue.                              *)
Longest(q, l, p, r) == r[l + 1] = p /\ \A i \in 1 .. l : r[i] = q[i]

LEMMA AppendLengths ==
    ASSUME NEW q, NEW l, Numbers(q, l), NEW f \in BOOLEAN, FragOK(q, l, f),
           NEW w, NEW k, Labels(w, k), NEW m \in Nat, OrderOK(q, l, w, k, m),
           NEW p, p.id = m + 1, p.done = 0, 0 < p.of, NEW r, Longest(q, l, p, r)
    PROVE  FragOK(r, l + 1, f) /\ OrderOK(r, l + 1, w, k, m + 1)
  <1>1. l \in Nat /\ k \in Nat /\ (k > 0 => w[k].id \in Nat /\ w[k].id <= m)
    BY DEF Numbers, Labels, OrderOK
  <1>2. r[l + 1] = p /\ \A i \in 1 .. l : r[i] = q[i]
    BY DEF Longest
  <1>3. \A i \in 1 .. l + 1 : i \in 1 .. l \/ i = l + 1
    BY <1>1
  <1>4. \A i \in 1 .. l : q[i].id \in Nat /\ q[i].id <= m /\ q[i].done \in Nat
    BY DEF OrderOK, Numbers
  <1>5. FragOK(r, l + 1, f)
    <2>1. \A i \in 1 .. l + 1 : r[i].done < r[i].of /\ (i > 1 => r[i].done = 0)
      BY <1>2, <1>3 DEF FragOK
    <2>2. f <=> l + 1 > 0 /\ r[1].done > 0
      <3>1. CASE l = 0
        BY <1>1, <1>2, <3>1 DEF FragOK
      <3>2. CASE l > 0
        BY <1>1, <1>2, <3>2 DEF FragOK
      <3>3. QED
        BY <1>1, <3>1, <3>2
    <2>3. QED
      BY <2>1, <2>2 DEF FragOK
  <1>6. \A i \in 1 .. l + 1 : r[i].id <= m + 1
    BY <1>2, <1>3, <1>4
  <1>7. ASSUME NEW i \in 1 .. l + 1, NEW j \in 1 .. l + 1, i < j PROVE r[i].id < r[j].id
    <2>1. i \in 1 .. l
      BY <1>1, <1>7
    <2>2. CASE j \in 1 .. l
      BY <1>2, <1>7, <2>1, <2>2 DEF OrderOK
    <2>3. CASE j = l + 1
      BY <1>2, <1>4, <2>1, <2>3
    <2>4. QED
      BY <1>3, <2>2, <2>3
  <1>8. k > 0 => w[k].id <= m + 1
    BY <1>1
  <1>9. ASSUME NEW i \in 1 .. l + 1, k > 0, r[i].done = 0 PROVE w[k].id < r[i].id
    <2>1. CASE i \in 1 .. l
      BY <1>2, <1>9, <2>1 DEF OrderOK
    <2>2. CASE i = l + 1
      BY <1>1, <1>2, <1>9, <2>2
    <2>3. QED
      BY <1>3, <2>1, <2>2
  <1>10. ASSUME NEW i \in 1 .. l + 1, r[i].done > 0
         PROVE  k > 0 /\ w[k].id = r[i].id /\ w[k].no = r[i].done
    <2>1. i \in 1 .. l
      BY <1>2, <1>3, <1>10
    <2>2. QED
      BY <1>2, <1>10, <2>1 DEF OrderOK
  <1>11. QED
    BY <1>5, <1>6, <1>7, <1>8, <1>9, <1>10 DEF OrderOK

LEMMA QueueAppend ==
    ASSUME NEW q \in Seq(Packets), NEW f \in BOOLEAN, NEW w \in Seq(Fragments), NEW m \in Nat,
           QueueOK(q, f, w, m), NEW p \in Packets, p.id = m + 1, p.done = 0
    PROVE  QueueOK(Append(q, p), f, w, m + 1) /\ Append(q, p) \in Seq(Packets)
  <1>1. PICK l, k : l = Len(q) /\ k = Len(w)
    OBVIOUS
  <1>2. PICK r : r = Append(q, p)
    OBVIOUS
  <1>3. r \in Seq(Packets) /\ Len(r) = l + 1 /\ Longest(q, l, p, r)
    BY <1>1, <1>2, AppendProperties DEF Longest
  <1>4. Numbers(q, l) /\ Labels(w, k)
    BY <1>1, QueueTypes
  <1>5. FragOK(q, l, f) /\ OrderOK(q, l, w, k, m) /\ WellFormed(w, k)
    BY <1>1 DEF QueueOK
  <1>6. 0 < p.of
    BY SizesAssumption DEF Packets
  <1>7. FragOK(r, l + 1, f) /\ OrderOK(r, l + 1, w, k, m + 1)
    BY <1>3, <1>4, <1>5, <1>6, AppendLengths
  <1>8. QED
    BY <1>1, <1>2, <1>3, <1>5, <1>7 DEF QueueOK

(* Fragments of the head of a queue q are handed over.  For a packet that  *)
(* is sent at once q is the packet alone.                                  *)
Moved ==
    /\ out' \in [Handles -> Nat] /\ frag' \in [Handles -> BOOLEAN]
    /\ txq' \in [Handles -> Seq(Packets)] /\ wire' \in [Handles -> Seq(Fragments)]
    /\ avail' \in Nat /\ held' \in [Handles -> Nat] /\ gone' \in Nat
    /\ faults' \subseteq Faults

Queues == \A h \in Handles : QueueOK(txq[h], frag[h], wire[h], sent)

LEMMA HandOverServes ==
    ASSUME Ordered, NEW h \in Handles, Connected(h), NEW q \in Seq(Packets), q # <<>>,
           NEW m \in Nat, sent <= m, QueueOK(q, frag[h], wire[h], m),
           NEW o \in Results, TxNow(h, Head(q), o), conns' = conns, sent' = m,
           NEW r, r = Left(q, o), txq' = [txq EXCEPT ![h] = r]
    PROVE  Moved /\ Forgotten' /\ Queues'
  <1>1. /\ TypeOK /\ Forgotten /\ Queues
    BY DEF Ordered, Types, Queues
  <1>2. /\ out \in [Handles -> Nat] /\ frag \in [Handles -> BOOLEAN]
        /\ txq \in [Handles -> Seq(Packets)] /\ wire \in [Handles -> Seq(Fragments)]
        /\ avail \in Nat /\ held \in [Handles -> Nat] /\ gone \in Nat /\ sent \in Nat
    BY <1>1 DEF TypeOK
  <1>3. PICK p \in Packets : p = Head(q)
    BY HeadTailProperties
  <1>4. p.done < p.of
    <2>1. p = q[1] /\ Len(q) \in Nat /\ 1 \in 1 .. Len(q)
      BY <1>3, HeadTailProperties
    <2>2. QED
      BY <2>1 DEF QueueOK, FragOK
  <1>5. /\ o.n \in Nat /\ o.n <= avail /\ (o.res = "again" => p.done + o.n < p.of)
        /\ faults' \subseteq Faults /\ HandOver(h, p, o)
    <2>1. TxNow(h, p, o)
      BY <1>3
    <2>2. QED
      BY <1>1, <1>4, <2>1, TxNowFacts
  <1>6. Fits(q, o)
    BY <1>3, <1>5 DEF Fits
  <1> DEFINE f == frag[h]
             w == wire[h]
             v == Longer(w, q, f, o)
  <1>7. f \in BOOLEAN /\ w \in Seq(Fragments)
    BY <1>2
  <1>8. QueueOK(r, Waits(q, f, o), v, m) /\ r \in Seq(Packets) /\ v \in Seq(Fragments)
    BY <1>6, <1>7, SendQueue
  <1>9. /\ wire' = [wire EXCEPT ![h] = v]
        /\ frag' = [frag EXCEPT ![h] = Waits(q, f, o)]
        /\ Waits(q, f, o) \in BOOLEAN
    BY <1>3, <1>5 DEF HandOver, Emitted, Pieces, Longer, Waits
  <1> HIDE DEF f, w, v
  <1>10. /\ out' = [out EXCEPT ![h] = out[h] + o.n] /\ avail' = avail - o.n
         /\ held' = (IF h \in links THEN [held EXCEPT ![h] = held[h] + o.n] ELSE held)
         /\ gone' = (IF host.at = "broken" /\ host.h = h THEN gone + o.n ELSE gone)
    BY <1>5 DEF HandOver
  <1>11. out' \in [Handles -> Nat] /\ held' \in [Handles -> Nat] /\ avail' \in Nat /\ gone' \in Nat
    <2>1. PICK n \in Nat : n = o.n /\ n <= avail
      BY <1>5
    <2>2. out[h] \in Nat /\ held[h] \in Nat /\ avail \in Nat /\ gone \in Nat
      BY <1>2
    <2>3. out[h] + n \in Nat /\ held[h] + n \in Nat /\ avail - n \in Nat /\ gone + n \in Nat
      <3>1. \A a, b \in Nat : a + b \in Nat /\ (b <= a => a - b \in Nat)
        OBVIOUS
      <3>2. QED
        BY <2>1, <2>2, <3>1, Zenon
    <2>4. QED
      BY <1>2, <1>10, <2>1, <2>3
  <1>12. /\ frag' \in [Handles -> BOOLEAN] /\ txq' \in [Handles -> Seq(Packets)]
         /\ wire' \in [Handles -> Seq(Fragments)]
    BY <1>2, <1>8, <1>9
  <1>13. \A x \in Handles : x # h => /\ out'[x] = out[x] /\ frag'[x] = frag[x]
                                     /\ txq'[x] = txq[x] /\ wire'[x] = wire[x]
    BY <1>2, <1>9, <1>10
  <1>14. txq'[h] = r /\ frag'[h] = Waits(q, f, o) /\ wire'[h] = v
    BY <1>2, <1>9
  <1>15. Forgotten'
    BY <1>1, <1>13 DEF Forgotten, Connected
  <1>16. ASSUME NEW x \in Handles PROVE QueueOK(txq'[x], frag'[x], wire'[x], m)
    <2>1. CASE x = h
      BY <1>8, <1>14, <2>1
    <2>2. CASE x # h
      <3>1. /\ txq[x] \in Seq(Packets) /\ frag[x] \in BOOLEAN /\ wire[x] \in Seq(Fragments)
            /\ QueueOK(txq[x], frag[x], wire[x], sent)
        BY <1>1, <1>2 DEF Queues
      <3>2. QueueOK(txq[x], frag[x], wire[x], m)
        BY <1>2, <3>1, QueueLater
      <3>3. QED
        BY <1>13, <2>2, <3>2
    <2>3. QED
      BY <2>1, <2>2
  <1>17. QED
    BY <1>5, <1>11, <1>12, <1>15, <1>16 DEF Moved, Queues

-----------------------------------------------------------------------------
(* Ordered is inductive.                                                   *)

HostStates == [at : {"idle", "broken", "wake", "first", "all", "reset"},
               h : Handles \cup {0}, i : Nat]

(* Only credits, events, the controller or the host task's work change.    *)
LEMMA KeepQueues ==
    ASSUME Ordered, UNCHANGED <<conns, frag, txq, wire, sent>>,
           out' \in [Handles -> Nat], \A h \in Handles : ~Connected(h) => out'[h] = out[h],
           avail' \in Nat, host' \in HostStates, HostWorks(host'), links' \subseteq Handles,
           held' \in [Handles -> Nat], EventsOK(events'), gone' \in Nat, honest' \in BOOLEAN,
           faults' \subseteq Faults
    PROVE  Ordered'
  <1>1. TypeOK /\ IsInjective(conns) /\ Forgotten
    BY DEF Ordered, Types
  <1>2. TypeOK'
    BY <1>1 DEF TypeOK, HostStates, EventsOK
  <1>3. Types'
    BY <1>1, <1>2 DEF Types
  <1>4. Forgotten'
    BY <1>1 DEF Forgotten, Connected
  <1>5. QED
    BY <1>3, <1>4 DEF Ordered

(* The types of the variables that such a step may change.                 *)
LEMMA OrderedTypes ==
    ASSUME Ordered
    PROVE  /\ out \in [Handles -> Nat] /\ avail \in Nat /\ host \in HostStates
           /\ HostWorks(host) /\ links \subseteq Handles /\ held \in [Handles -> Nat]
           /\ EventsOK(events) /\ gone \in Nat /\ honest \in BOOLEAN /\ faults \subseteq Faults
           /\ conns \in Seq(Handles) /\ IsInjective(conns) /\ frag \in [Handles -> BOOLEAN]
           /\ txq \in [Handles -> Seq(Packets)] /\ wire \in [Handles -> Seq(Fragments)]
           /\ sent \in Nat /\ Forgotten /\ Queues
  BY DEF Ordered, Types, TypeOK, HostStates, Queues

LEMMA WakeupOrdered ==
    ASSUME Ordered, WakeupTx \/ WakeupNext
    PROVE  Ordered'
  <1>1. UNCHANGED <<connVars, sent, avail, llVars, events, gone, honest, faults>>
    BY DEF WakeupTx, WakeupNext
  <1>2. host' \in HostStates /\ HostWorks(host')
    <2>1. host \in HostStates /\ HostWorks(host) /\ conns \in Seq(Handles)
      BY OrderedTypes
    <2>2. CASE WakeupTx
      <3> DEFINE I == {k \in 1 .. Len(conns) : frag[conns[k]]}
                 i == SelectInSeq(conns, LAMBDA h : frag[h])
      <3>1. i = IF I # {} THEN Min(I) ELSE 0
        BY DEF SelectInSeq
      <3>2. I \in SUBSET Nat
        OBVIOUS
      <3>3. host' = IF i > 0 THEN [at |-> "first", h |-> 0, i |-> i]
                             ELSE [at |-> "all", h |-> 0, i |-> 1]
        BY <2>2 DEF WakeupTx
      <3> HIDE DEF I, i
      <3>4. i \in Nat
        BY <3>1, <3>2, MinIsIn
      <3>5. QED
        BY <3>3, <3>4 DEF HostStates, HostWorks
    <2>3. CASE WakeupNext
      <3>1. \/ host' = Idle
            \/ host' = [at |-> "all", h |-> 0, i |-> 1]
            \/ host' = [host EXCEPT !.i = host.i + 1] /\ host.at \in {"first", "all"}
        BY <2>3 DEF WakeupNext
      <3>2. host.i \in Nat
        BY <2>1 DEF HostStates
      <3>3. QED
        BY <2>1, <3>1, <3>2 DEF HostStates, HostWorks, Idle
    <2>4. QED
      BY <2>2, <2>3
  <1>3. QED
    BY <1>1, <1>2, OrderedTypes, KeepQueues DEF connVars, llVars

(* The first event of the queue is handled.                                *)
LEMMA EventFacts ==
    ASSUME Ordered, NEW t, Event(t), NEW e, e = Head(events)
    PROVE  /\ e \in Events /\ e.type = t /\ e.n \in Nat /\ (t # "reset" => e.h \in Handles)
           /\ EventsOK(Tail(events)) /\ host.at = "idle" /\ events # <<>> /\ events[1] = e
  <1>1. EventsOK(events) /\ events # <<>> /\ host.at = "idle" /\ e.type = t
    BY OrderedTypes DEF Event
  <1>2. QED
    BY <1>1, TailEvents DEF Events

LEMMA NumCompletedOrdered ==
    ASSUME Ordered, NumCompletedPkts
    PROVE  Ordered'
  <1> DEFINE e == Head(events)
  <1>1. /\ e.h \in Handles /\ e.n \in Nat /\ EventsOK(Tail(events)) /\ host.at = "idle"
    BY EventFacts DEF NumCompletedPkts
  <1>2. host' \in HostStates /\ HostWorks(host')
    BY OrderedTypes DEF NumCompletedPkts, HostStates, HostWorks
  <1>3. EventsOK(SchedReset(Tail(events)))
    BY <1>1, SchedResetEvents
  <1>4. EventsOK(events')
    BY <1>1, <1>3 DEF NumCompletedPkts
  <1>5. out' \in [Handles -> Nat] /\ avail' \in Nat
        /\ \A h \in Handles : ~Connected(h) => out'[h] = out[h]
    <2>1. CASE Connected(e.h)
      <3>1. /\ avail' = avail + e.n
            /\ out' = [out EXCEPT ![e.h] = IF out[e.h] < e.n THEN out[e.h] ELSE out[e.h] - e.n]
        BY <2>1 DEF NumCompletedPkts
      <3> HIDE DEF e
      <3>2. out \in [Handles -> Nat] /\ avail \in Nat
        BY OrderedTypes
      <3>3. (IF out[e.h] < e.n THEN out[e.h] ELSE out[e.h] - e.n) \in Nat /\ avail + e.n \in Nat
        BY <1>1, <3>2
      <3>4. QED
        BY <1>1, <2>1, <3>1, <3>2, <3>3
    <2>2. CASE ~Connected(e.h)
      BY <2>2, OrderedTypes DEF NumCompletedPkts
    <2>3. QED
      BY <2>1, <2>2
  <1>6. UNCHANGED <<conns, frag, txq, sent, wire, links, held, gone, honest, faults>>
    BY DEF NumCompletedPkts, llVars
  <1>7. QED
    BY <1>2, <1>4, <1>5, <1>6, OrderedTypes, KeepQueues

LEMMA DisconnOrdered ==
    ASSUME Ordered, DisconnComplete
    PROVE  Ordered'
  <1> DEFINE e == Head(events)
  <1>1. e.h \in Handles /\ EventsOK(Tail(events)) /\ host.at = "idle"
    BY EventFacts DEF DisconnComplete
  <1>2. /\ avail' = (IF Connected(e.h) THEN avail + out[e.h] ELSE avail)
        /\ host' = [host EXCEPT !.at = "wake"] \/ host' = [at |-> "broken", h |-> e.h, i |-> 0]
        /\ events' = Tail(events)
        /\ UNCHANGED <<conns, out, frag, txq, wire, sent, links, held, gone, honest, faults>>
    BY DEF DisconnComplete, connVars, llVars
  <1> HIDE DEF e
  <1>3. host' \in HostStates /\ HostWorks(host')
    <2>1. host \in HostStates
      BY OrderedTypes
    <2>2. CASE host' = [host EXCEPT !.at = "wake"]
      BY <2>1, <2>2 DEF HostStates, HostWorks
    <2>3. CASE host' = [at |-> "broken", h |-> e.h, i |-> 0]
      BY <1>1, <2>3 DEF HostStates, HostWorks
    <2>4. QED
      BY <1>2, <2>2, <2>3
  <1>4. avail' \in Nat
    <2>1. avail \in Nat /\ out[e.h] \in Nat
      BY <1>1, OrderedTypes
    <2>2. QED
      BY <1>2, <2>1
  <1>5. QED
    BY <1>1, <1>2, <1>3, <1>4, OrderedTypes, KeepQueues

LEMMA ResetOrdered ==
    ASSUME Ordered, StartReset \/ SetBufSz
    PROVE  Ordered'
  <1>1. CASE StartReset
    <2>1. EventsOK(Tail(events))
      BY <1>1, EventFacts DEF StartReset
    <2>2. host' \in HostStates /\ HostWorks(host')
      BY <1>1, OrderedTypes DEF StartReset, HostStates, HostWorks
    <2>3. /\ events' = Tail(events)
          /\ UNCHANGED <<conns, out, frag, txq, wire, sent, avail, links, held, gone, honest, faults>>
      BY <1>1 DEF StartReset, connVars, llVars
    <2>4. QED
      BY <2>1, <2>2, <2>3, OrderedTypes, KeepQueues
  <1>2. CASE SetBufSz
    <2>1. /\ avail' = MaxPkts /\ gone' = 0 /\ honest' = (events = <<>>) /\ links' = {}
          /\ held' = [h \in Handles |-> 0] /\ host' = Idle
          /\ UNCHANGED <<conns, out, frag, txq, wire, sent, events, faults>>
      BY <1>2 DEF SetBufSz, connVars
    <2>2. host' \in HostStates /\ HostWorks(host')
      BY <2>1 DEF HostStates, HostWorks, Idle
    <2>3. /\ avail' \in Nat /\ gone' \in Nat /\ honest' \in BOOLEAN
          /\ held' \in [Handles -> Nat]
      BY <2>1, SizesAssumption
    <2>4. QED
      BY <2>1, <2>2, <2>3, OrderedTypes, KeepQueues
  <1>3. QED
    BY <1>1, <1>2

LEMMA ReportEvents ==
    ASSUME Ordered, NEW t \in {"conn", "disc", "fail", "comp"}, NEW h \in Handles, NEW n \in Nat,
           Report(t, h, n)
    PROVE  EventsOK(events')
  <1> DEFINE e == [type |-> t, h |-> h, n |-> n]
  <1>1. e \in Events /\ e.h \in Handles
    BY DEF Events
  <1>2. events' = Append(events, e)
    BY DEF Report
  <1> HIDE DEF e
  <1>3. QED
    BY <1>1, <1>2, OrderedTypes, AppendEvents

LEMMA LlOrdered ==
    ASSUME Ordered, NEW h \in Handles,
           \/ LlConnect(h) \/ LlDisconnect(h) \/ LlTermFailure(h) \/ LlDuplicate(h)
           \/ \E n \in 1 .. MaxPkts : LlComplete(h, n)
    PROVE  Ordered'
  <1>1. UNCHANGED <<conns, out, frag, txq, wire, sent, avail, host, gone>>
    BY DEF LlConnect, LlDisconnect, LlTermFailure, LlDuplicate, LlComplete, LlVarsHost, connVars
  <1>2. ASSUME EventsOK(events'), links' \subseteq Handles, held' \in [Handles -> Nat],
               honest' \in BOOLEAN, faults' \subseteq Faults
        PROVE  Ordered'
    BY <1>1, <1>2, OrderedTypes, KeepQueues
  <1>3. /\ links \subseteq Handles /\ held \in [Handles -> Nat] /\ held[h] \in Nat
        /\ faults \subseteq Faults /\ EventsOK(events) /\ honest \in BOOLEAN
    BY OrderedTypes
  <1>4. \A f \in Faults : Blame(f) => faults' \subseteq Faults
    BY <1>3 DEF Blame
  <1>5. CASE LlConnect(h)
    <2>1. EventsOK(events')
      BY <1>5, ReportEvents DEF LlConnect
    <2>2. QED
      BY <1>2, <1>3, <1>5, <2>1 DEF LlConnect, LlVarsHost
  <1>6. CASE LlDisconnect(h)
    <2>1. EventsOK(events')
      BY <1>6, ReportEvents DEF LlDisconnect
    <2>2. held' \in [Handles -> Nat]
      BY <1>3, <1>6 DEF LlDisconnect
    <2>3. QED
      BY <1>2, <1>3, <1>6, <2>1, <2>2 DEF LlDisconnect, LlVarsHost
  <1>7. CASE LlTermFailure(h)
    <2>1. EventsOK(events')
      BY <1>7, ReportEvents DEF LlTermFailure
    <2>2. QED
      BY <1>2, <1>3, <1>4, <1>7, <2>1 DEF LlTermFailure, llVars, Faults
  <1>8. CASE LlDuplicate(h)
    <2>1. EventsOK(events')
      BY <1>8, ReportEvents DEF LlDuplicate
    <2>2. QED
      BY <1>2, <1>3, <1>4, <1>8, <2>1 DEF LlDuplicate, llVars, Faults
  <1>9. ASSUME NEW n \in 1 .. MaxPkts, LlComplete(h, n) PROVE Ordered'
    <2>1. n \in Nat /\ held[h] - n \in Nat
      BY <1>3, <1>9 DEF LlComplete
    <2>2. held' \in [Handles -> Nat]
      BY <1>3, <1>9, <2>1 DEF LlComplete
    <2>3. EventsOK(events')
      BY <1>3, <1>9, <2>1, ReportEvents DEF LlComplete
    <2>4. faults' \subseteq Faults
      BY <1>3, <1>4, <1>9 DEF LlComplete, Faults
    <2>5. links' = links /\ honest' = honest
      BY <1>9 DEF LlComplete, LlVarsHost
    <2>6. QED
      BY <1>2, <1>3, <2>2, <2>3, <2>4, <2>5
  <1>10. QED
    BY <1>5, <1>6, <1>7, <1>8, <1>9

LEMMA ConnCompleteOrdered ==
    ASSUME Ordered, ConnComplete
    PROVE  Ordered'
  <1> DEFINE h == Head(events).h
  <1>1. h \in Handles /\ EventsOK(Tail(events))
    BY EventFacts DEF ConnComplete
  <1>2. /\ conns' = (IF Connected(h) THEN conns ELSE <<h>> \o conns)
        /\ events' = Tail(events)
        /\ UNCHANGED <<out, frag, txq, sent, wire, avail, host, links, held, gone, honest, faults>>
    BY DEF ConnComplete, llVars
  <1> HIDE DEF h
  <1>3. /\ conns' \in Seq(Handles) /\ IsInjective(conns')
        /\ \A x : Contains(conns', x) <=> Contains(conns, x) \/ x = h
    <2>1. conns \in Seq(Handles) /\ IsInjective(conns)
      BY OrderedTypes
    <2>2. CASE Connected(h)
      BY <1>2, <2>1, <2>2 DEF Connected
    <2>3. CASE ~Connected(h)
      BY <1>1, <1>2, <2>1, <2>3, ConsFacts DEF Connected
    <2>4. QED
      BY <2>2, <2>3
  <1>4. TypeOK'
    BY <1>1, <1>2, <1>3 DEF Ordered, Types, TypeOK, EventsOK
  <1>5. Types'
    BY <1>1, <1>2, <1>3, <1>4, OrderedTypes DEF Types
  <1>6. Forgotten'
    BY <1>2, <1>3, OrderedTypes DEF Forgotten, Connected
  <1>7. Queues'
    BY <1>2, OrderedTypes DEF Queues
  <1>8. QED
    BY <1>5, <1>6, <1>7 DEF Ordered, Queues

LEMMA EmptyQueue == ASSUME NEW m PROVE QueueOK(<<>>, FALSE, <<>>, m)
  BY DEF QueueOK, FragOK, OrderOK, WellFormed

LEMMA ForgetOrdered ==
    ASSUME Ordered, NEW h \in Handles, Forget(h), host' \in HostStates, HostWorks(host'),
           UNCHANGED <<sent, avail, links, held, events, gone, honest, faults>>
    PROVE  Ordered'
  <1>1. /\ conns' \in Seq(Handles) /\ IsInjective(conns')
        /\ \A x : Contains(conns', x) <=> Contains(conns, x) /\ x # h
    BY OrderedTypes, RemoveFacts DEF Forget
  <1>2. <<>> \in Seq(Packets) /\ <<>> \in Seq(Fragments)
    OBVIOUS
  <1>3. /\ out' \in [Handles -> Nat] /\ frag' \in [Handles -> BOOLEAN]
        /\ txq' \in [Handles -> Seq(Packets)] /\ wire' \in [Handles -> Seq(Fragments)]
    BY <1>2, OrderedTypes DEF Forget
  <1>4. /\ out'[h] = 0 /\ ~frag'[h] /\ frag'[h] = FALSE /\ txq'[h] = <<>> /\ wire'[h] = <<>>
        /\ \A x \in Handles : x # h => /\ out'[x] = out[x] /\ frag'[x] = frag[x]
                                       /\ txq'[x] = txq[x] /\ wire'[x] = wire[x]
    BY OrderedTypes DEF Forget
  <1>5. TypeOK'
    BY <1>1, <1>3 DEF Ordered, Types, TypeOK, HostStates
  <1>6. Types'
    BY <1>1, <1>5, OrderedTypes DEF Types
  <1>7. Forgotten'
    BY <1>1, <1>4, OrderedTypes DEF Forgotten, Connected
  <1>8. Queues'
    <2>1. ASSUME NEW x \in Handles PROVE QueueOK(txq'[x], frag'[x], wire'[x], sent')
      <3>1. CASE x = h
        BY <1>4, <3>1, EmptyQueue
      <3>2. CASE x # h
        BY <1>4, <3>2, OrderedTypes DEF Queues
      <3>3. QED
        BY <3>1, <3>2
    <2>2. QED
      BY <2>1 DEF Queues
  <1>9. QED
    BY <1>6, <1>7, <1>8 DEF Ordered, Queues

LEMMA BrokenOrdered ==
    ASSUME Ordered, ConnBroken \/ ResetState
    PROVE  Ordered'
  <1>1. CASE ConnBroken
    <2>1. host.h \in Handles
      BY <1>1, OrderedTypes DEF ConnBroken, HostWorks
    <2>2. host' \in HostStates /\ HostWorks(host')
      BY <1>1 DEF ConnBroken, HostStates, HostWorks
    <2>3. QED
      BY <1>1, <2>1, <2>2, ForgetOrdered DEF ConnBroken, llVars
  <1>2. CASE ResetState
    <2>1. Head(conns) \in Handles
      BY <1>2, OrderedTypes DEF ResetState
    <2>2. host' = host /\ UNCHANGED <<sent, avail, links, held, events, gone, honest, faults>>
      BY <1>2 DEF ResetState, llVars
    <2>3. Forget(Head(conns))
      BY <1>2 DEF ResetState
    <2>4. host' \in HostStates /\ HostWorks(host')
      BY <2>2, OrderedTypes
    <2>5. QED
      BY <2>1, <2>2, <2>3, <2>4, ForgetOrdered
  <1>3. QED
    BY <1>1, <1>2

LEMMA NewPacketType ==
    ASSUME Ordered, NEW n \in 1 .. MaxFrags, NEW p, p = NewPacket(n)
    PROVE  p \in Packets /\ p.id = sent + 1 /\ p.done = 0
  <1>1. sent \in Nat
    BY OrderedTypes
  <1>2. sent + 1 \in Nat \ {0}
    BY <1>1
  <1>3. QED
    BY <1>2 DEF NewPacket, Packets

LEMMA QueueOrdered ==
    ASSUME Ordered, NEW h \in Handles, NEW n \in 1 .. MaxFrags, Queue(h, n)
    PROVE  Ordered'
  <1>1. PICK p \in Packets : p = NewPacket(n) /\ p.id = sent + 1 /\ p.done = 0
    BY NewPacketType
  <1>2. /\ sent' = sent + 1 /\ txq' = [txq EXCEPT ![h] = Append(txq[h], p)]
        /\ UNCHANGED <<conns, host, links, events, honest, out, frag, wire, avail, held, gone, faults>>
        /\ Connected(h)
    BY <1>1 DEF Queue, Sending
  <1>3. sent \in Nat /\ sent + 1 \in Nat /\ sent <= sent + 1
    BY OrderedTypes
  <1>4. ASSUME NEW x \in Handles
        PROVE  /\ txq[x] \in Seq(Packets) /\ frag[x] \in BOOLEAN /\ wire[x] \in Seq(Fragments)
               /\ QueueOK(txq[x], frag[x], wire[x], sent)
    BY OrderedTypes DEF Queues
  <1>5. /\ QueueOK(Append(txq[h], p), frag[h], wire[h], sent + 1)
        /\ Append(txq[h], p) \in Seq(Packets)
    BY <1>1, <1>3, <1>4, QueueAppend
  <1>6. /\ txq' \in [Handles -> Seq(Packets)] /\ txq'[h] = Append(txq[h], p)
        /\ \A x \in Handles : x # h => txq'[x] = txq[x]
    BY <1>2, <1>5, OrderedTypes
  <1>7. TypeOK'
    BY <1>2, <1>3, <1>6 DEF Ordered, Types, TypeOK
  <1>8. Types'
    BY <1>2, <1>7, OrderedTypes DEF Types
  <1>9. Forgotten'
    BY <1>2, <1>6, OrderedTypes DEF Forgotten, Connected
  <1>10. Queues'
    <2>1. ASSUME NEW x \in Handles PROVE QueueOK(txq'[x], frag[x], wire[x], sent + 1)
      <3>1. CASE x = h
        BY <1>5, <1>6, <3>1
      <3>2. CASE x # h
        BY <1>3, <1>4, <1>6, <3>2, QueueLater
      <3>3. QED
        BY <3>1, <3>2
    <2>2. QED
      BY <1>2, <2>1 DEF Queues
  <1>11. QED
    BY <1>8, <1>9, <1>10 DEF Ordered, Queues

LEMMA MovedOrdered ==
    ASSUME Ordered, Moved, Forgotten', Queues', sent' \in Nat, host' \in HostStates,
           HostWorks(host'), UNCHANGED <<conns, links, events, honest>>
    PROVE  Ordered'
  <1>1. TypeOK'
    BY DEF Ordered, Types, TypeOK, Moved, HostStates
  <1>2. Types'
    BY <1>1, OrderedTypes DEF Types
  <1>3. QED
    BY <1>2 DEF Ordered, Queues

(* A packet sent at once is a queue of its own.                            *)
LEMMA AloneFacts ==
    ASSUME NEW p \in Packets, NEW o \in Results, NEW q, q = Append(<<>>, p)
    PROVE  /\ q \in Seq(Packets) /\ q # <<>> /\ Head(q) = p
           /\ Left(q, o) = <<>> \o Rest(p, o)
  <1>1. q = <<p>> /\ q \in Seq(Packets)
    OBVIOUS
  <1>2. Head(q) = p /\ Tail(q) = <<>> /\ q # <<>>
    BY <1>1
  <1>3. Rest(p, o) \in Seq(Packets)
    <2> DEFINE p2 == [p EXCEPT !.done = p.done + o.n]
    <2>1. p.done + o.n \in Nat
      BY SizesAssumption DEF Packets, Results
    <2>2. p2 \in Packets
      BY <2>1 DEF Packets
    <2>3. Rest(p, o) = <<p2>> \/ Rest(p, o) = <<>>
      BY DEF Rest
    <2> HIDE DEF p2
    <2>4. <<p2>> \in Seq(Packets)
      BY <2>2
    <2>5. <<>> \in Seq(Packets)
      OBVIOUS
    <2>6. QED
      BY <2>3, <2>4, <2>5
  <1>4. Rest(p, o) \o <<>> = Rest(p, o) /\ <<>> \o Rest(p, o) = Rest(p, o)
    BY <1>3
  <1>5. QED
    BY <1>1, <1>2, <1>4 DEF Left

LEMMA TransmitOrdered ==
    ASSUME Ordered, NEW h \in Handles, NEW n \in 1 .. MaxFrags, Transmit(h, n)
    PROVE  Ordered'
  <1>1. PICK p \in Packets : p = NewPacket(n) /\ p.id = sent + 1 /\ p.done = 0
    BY NewPacketType
  <1>2. /\ sent' = sent + 1 /\ Connected(h) /\ txq[h] = <<>>
        /\ UNCHANGED <<conns, host, links, events, honest>>
    BY DEF Transmit, Sending
  <1>3. PICK o \in Results : /\ TxNow(h, p, o)
                             /\ txq' = [txq EXCEPT ![h] = txq[h] \o Rest(p, o)]
    BY <1>1 DEF Transmit
  <1>4. PICK q : q = Append(<<>>, p)
    OBVIOUS
  <1>5. q \in Seq(Packets) /\ q # <<>> /\ Head(q) = p /\ Left(q, o) = <<>> \o Rest(p, o)
    BY <1>4, AloneFacts
  <1>6. sent \in Nat /\ sent + 1 \in Nat /\ sent <= sent + 1
    BY OrderedTypes
  <1>7. QueueOK(q, frag[h], wire[h], sent + 1)
    <2>1. /\ frag[h] \in BOOLEAN /\ wire[h] \in Seq(Fragments) /\ txq[h] \in Seq(Packets)
          /\ QueueOK(txq[h], frag[h], wire[h], sent)
      BY OrderedTypes DEF Queues
    <2>2. QueueOK(Append(txq[h], p), frag[h], wire[h], sent + 1)
      BY <1>1, <1>6, <2>1, QueueAppend
    <2>3. QED
      BY <1>2, <1>4, <2>2
  <1>8. PICK r : r = Left(q, o)
    OBVIOUS
  <1>9. TxNow(h, Head(q), o) /\ txq' = [txq EXCEPT ![h] = r]
    BY <1>2, <1>3, <1>5, <1>8
  <1>10. Moved /\ Forgotten' /\ Queues'
    BY <1>2, <1>5, <1>6, <1>7, <1>8, <1>9, HandOverServes
  <1>11. host' \in HostStates /\ HostWorks(host')
    BY <1>2, OrderedTypes
  <1>12. QED
    BY <1>2, <1>6, <1>10, <1>11, MovedOrdered

LEMMA WakeupConnOrdered ==
    ASSUME Ordered, WakeupTxConn
    PROVE  Ordered'
  <1> DEFINE h == conns[host.i]
             q == txq[h]
  <1>1. PICK o \in Results : /\ TxNow(h, Head(q), o)
                             /\ txq' = [txq EXCEPT ![h] = Rest(Head(q), o) \o Tail(q)]
                             /\ host' = IF o.res = "again" THEN Idle ELSE host
    BY DEF WakeupTxConn
  <1>2. /\ host.at \in {"first", "all"} /\ host.i <= Len(conns) /\ q # <<>>
        /\ UNCHANGED <<conns, sent, links, events, honest>>
    BY DEF WakeupTxConn
  <1>3. h \in Handles /\ Connected(h)
    <2>1. host.i \in 1 .. Len(conns)
      BY <1>2, OrderedTypes DEF HostWorks, HostStates
    <2>2. conns \in Seq(Handles)
      BY OrderedTypes
    <2>3. conns[host.i] \in Handles
      BY <2>1, <2>2
    <2>4. Contains(conns, conns[host.i])
      BY <2>1 DEF Contains
    <2>5. QED
      BY <2>3, <2>4 DEF Connected
  <1> HIDE DEF h
  <1>4. PICK r : r = Left(q, o)
    OBVIOUS
  <1>5. txq' = [txq EXCEPT ![h] = r]
    BY <1>1, <1>4 DEF Left
  <1>6. q \in Seq(Packets) /\ QueueOK(q, frag[h], wire[h], sent) /\ sent \in Nat /\ sent <= sent
    BY <1>3, OrderedTypes DEF Queues
  <1>7. Moved /\ Forgotten' /\ Queues'
    <2> HIDE DEF q
    <2>1. TxNow(h, Head(q), o) /\ q # <<>> /\ sent' = sent /\ conns' = conns
      BY <1>1, <1>2
    <2>2. QED
      BY <1>3, <1>4, <1>5, <1>6, <2>1, HandOverServes
  <1>8. host' \in HostStates /\ HostWorks(host')
    BY <1>1, OrderedTypes DEF Idle, HostStates, HostWorks
  <1>9. QED
    BY <1>2, <1>6, <1>7, <1>8, MovedOrdered

LEMMA InitOrdered == ASSUME Init PROVE Ordered
  <1>1. <<>> \in Seq(Packets) /\ <<>> \in Seq(Fragments) /\ <<>> \in Seq(Handles)
        /\ <<>> \in Seq(Events) /\ DOMAIN <<>> = {} /\ Len(<<>>) = 0
    OBVIOUS
  <1>2. TypeOK
    BY <1>1, SizesAssumption DEF Init, TypeOK, Idle
  <1>3. HostWorks(host) /\ IsInjective(conns) /\ EventsOK(events)
    BY <1>1 DEF Init, HostWorks, Idle, IsInjective, EventsOK
  <1>4. Forgotten
    BY DEF Init, Forgotten
  <1>5. \A h \in Handles : QueueOK(txq[h], frag[h], wire[h], sent)
    BY EmptyQueue DEF Init
  <1>6. QED
    BY <1>2, <1>3, <1>4, <1>5 DEF Ordered, Types

LEMMA OrderedStep == ASSUME Ordered, [Next]_vars PROVE Ordered'
  <1>1. CASE HostStep
    BY <1>1, WakeupOrdered, WakeupConnOrdered, ConnCompleteOrdered, NumCompletedOrdered,
       DisconnOrdered, BrokenOrdered, ResetOrdered DEF HostStep
  <1>2. CASE TaskStep
    BY <1>2, QueueOrdered, TransmitOrdered DEF TaskStep
  <1>3. CASE LlStep
    BY <1>3, LlOrdered DEF LlStep
  <1>4. CASE UNCHANGED vars
    <2>1. UNCHANGED <<conns, frag, txq, wire, sent, out, avail, host, links, held, events, gone,
                      honest, faults>>
      BY <1>4 DEF vars, connVars, llVars
    <2>2. QED
      BY <2>1, OrderedTypes, KeepQueues
  <1>5. QED
    BY <1>1, <1>2, <1>3, <1>4 DEF Next

(* Every variable of ble_l2cap_tx, ble_hs_hci_acl_tx and ble_hs_wakeup_tx  *)
(* keeps its type; in particular ble_hs_hci_avail_pkts never wraps below   *)
(* zero.                                                                   *)
THEOREM TypeCorrect == Spec => []TypeOK
  <1>1. Init => Ordered
    BY InitOrdered
  <1>2. Ordered /\ [Next]_vars => Ordered'
    BY OrderedStep
  <1>3. Ordered => TypeOK
    BY DEF Ordered, Types
  <1>4. QED
    BY <1>1, <1>2, <1>3, PTL DEF Spec

(* On every connection the controller gets whole packets in the order in   *)
(* which they were sent, marked as ble_hs_hci_acl_hdr_prepend marks them   *)
(* from TX_FRAG; only the tail of a packet may be missing.                 *)
THEOREM WireWellFormedAlways == Spec => []WireWellFormed
  <1>1. Init => Ordered
    BY InitOrdered
  <1>2. Ordered /\ [Next]_vars => Ordered'
    BY OrderedStep
  <1>3. Ordered => WireWellFormed
    <2> SUFFICES ASSUME Ordered, NEW h \in Handles, NEW w, w = wire[h]
                 PROVE  \A i \in DOMAIN w :
                          /\ w[i].pb = "first" <=> w[i].no = 1
                          /\ w[i].no > 1 => /\ i > 1 /\ w[i - 1].id = w[i].id
                                            /\ w[i - 1].no = w[i].no - 1
                          /\ i > 1 /\ w[i].no = 1 => w[i - 1].id < w[i].id
      BY DEF WireWellFormed
    <2>1. w \in Seq(Fragments) /\ WellFormed(w, Len(w))
      BY OrderedTypes DEF Queues, QueueOK
    <2>2. DOMAIN w = 1 .. Len(w)
      BY <2>1
    <2>3. QED
      BY <2>1, <2>2 DEF WellFormed
  <1>4. QED
    BY <1>1, <1>2, <1>3, PTL DEF Spec

(* BLE_HS_CONN_F_TX_FRAG is set exactly while the packet at the head of    *)
(* the connection's queue is partly sent, and no other packet was begun.   *)
THEOREM FragMeansHeadAlways == Spec => []FragMeansHead
  <1>1. Init => Ordered
    BY InitOrdered
  <1>2. Ordered /\ [Next]_vars => Ordered'
    BY OrderedStep
  <1>3. Ordered => FragMeansHead
    <2> SUFFICES ASSUME Ordered, NEW h \in Handles, NEW q, q = txq[h]
                 PROVE  /\ frag[h] <=> q # <<>> /\ Head(q).done > 0
                        /\ \A i \in DOMAIN q : q[i].done < q[i].of /\ (i > 1 => q[i].done = 0)
      BY DEF FragMeansHead
    <2>1. q \in Seq(Packets) /\ FragOK(q, Len(q), frag[h])
      BY OrderedTypes DEF Queues, QueueOK
    <2>2. DOMAIN q = 1 .. Len(q) /\ (q # <<>> <=> Len(q) > 0) /\ Head(q) = q[1]
      BY <2>1
    <2>3. QED
      BY <2>1, <2>2 DEF FragOK
  <1>4. QED
    BY <1>1, <1>2, <1>3, PTL DEF Spec

-----------------------------------------------------------------------------
(* The completions that wait.                                              *)

LEMMA CompletesType ==
    ASSUME NEW e \in Events, NEW h
    PROVE  Completes(e, h) \in Nat
  BY DEF Completes, Events

(* More packets are outstanding, or the controller holds fewer.            *)
LEMMA CoverMore ==
    ASSUME NEW q, NEW l \in Nat, NEW h, NEW a \in Nat, NEW b \in Nat, NEW n \in Nat,
           NEW b2 \in Nat, b2 <= b + n, CoveredBy(q, l, h, a, b),
           \A i \in 1 .. l : Completes(q[i], h) \in Nat
    PROVE  CoveredBy(q, l, h, a + n, b2)
  <1>1. PICK r \in [0 .. l -> Nat] : r[0] = a /\ b <= r[l] /\ Covers(r, q, l, h)
    BY DEF CoveredBy
  <1> DEFINE r2 == [i \in 0 .. l |-> r[i] + n]
  <1>2. \A i \in 0 .. l : r[i] \in Nat /\ r2[i] = r[i] + n /\ r2[i] \in Nat
    BY <1>1
  <1>3. r2 \in [0 .. l -> Nat]
    BY <1>2
  <1>4. 0 \in 0 .. l /\ l \in 0 .. l /\ \A i \in 1 .. l : i \in 0 .. l /\ i - 1 \in 0 .. l
    OBVIOUS
  <1> HIDE DEF r2
  <1>5. r2[0] = a + n /\ b2 <= r2[l]
    BY <1>1, <1>2, <1>4
  <1>6. Covers(r2, q, l, h)
    <2>1. ASSUME NEW i \in 1 .. l PROVE r2[i] + Completes(q[i], h) = r2[i - 1]
      <3>1. r[i] + Completes(q[i], h) = r[i - 1]
        BY <1>1 DEF Covers
      <3>2. r[i] \in Nat /\ r2[i] = r[i] + n /\ r2[i - 1] = r[i - 1] + n
        BY <1>2, <1>4
      <3>3. QED
        BY <3>1, <3>2
    <2>2. QED
      BY <2>1 DEF Covers
  <1>7. QED
    BY <1>3, <1>5, <1>6 DEF CoveredBy

(* The first event is taken from the queue.                                *)
LEMMA CoverTail ==
    ASSUME NEW q, NEW l \in Nat, l > 0, NEW h, NEW a \in Nat, NEW b \in Nat,
           CoveredBy(q, l, h, a, b), \A i \in 1 .. l : Completes(q[i], h) \in Nat,
           NEW t, \A i \in 1 .. l - 1 : t[i] = q[i + 1]
    PROVE  /\ Completes(q[1], h) <= a
           /\ CoveredBy(t, l - 1, h, a - Completes(q[1], h), b)
  <1>1. PICK r \in [0 .. l -> Nat] : r[0] = a /\ b <= r[l] /\ Covers(r, q, l, h)
    BY DEF CoveredBy
  <1> DEFINE r2 == [i \in 0 .. l - 1 |-> r[i + 1]]
  <1>2. l - 1 \in Nat /\ \A i \in 0 .. l - 1 : i + 1 \in 0 .. l
    OBVIOUS
  <1>3. r2 \in [0 .. l - 1 -> Nat] /\ \A i \in 0 .. l - 1 : r2[i] = r[i + 1]
    BY <1>2
  <1>4. r[1] + Completes(q[1], h) = a /\ r[1] \in Nat /\ Completes(q[1], h) \in Nat
    <2>1. 1 \in 1 .. l /\ 1 \in 0 .. l /\ 1 - 1 = 0
      OBVIOUS
    <2>2. QED
      BY <1>1, <2>1 DEF Covers
  <1> HIDE DEF r2
  <1>5. r2[0] = r[1] /\ r2[l - 1] = r[l]
    <2>1. 0 \in 0 .. l - 1 /\ 0 + 1 = 1 /\ l - 1 \in 0 .. l - 1 /\ (l - 1) + 1 = l
      OBVIOUS
    <2>2. QED
      BY <1>3, <2>1
  <1>6. ASSUME NEW i \in 1 .. l - 1 PROVE r2[i] + Completes(t[i], h) = r2[i - 1]
    <2>1. /\ i \in 0 .. l - 1 /\ i - 1 \in 0 .. l - 1 /\ (i - 1) + 1 = i /\ i + 1 \in 1 .. l
          /\ (i + 1) - 1 = i
      OBVIOUS
    <2>2. r2[i] = r[i + 1] /\ r2[i - 1] = r[i] /\ t[i] = q[i + 1]
      BY <1>3, <2>1
    <2>3. r[i + 1] + Completes(q[i + 1], h) = r[i]
      BY <1>1, <2>1 DEF Covers
    <2>4. QED
      BY <2>2, <2>3
  <1>7. Covers(r2, t, l - 1, h)
    BY <1>6 DEF Covers
  <1>8. Completes(q[1], h) <= a /\ r2[0] = a - Completes(q[1], h) /\ b <= r2[l - 1]
    BY <1>1, <1>4, <1>5
  <1>9. QED
    BY <1>3, <1>7, <1>8 DEF CoveredBy

(* An event is added, with what it completes no longer held.               *)
LEMMA CoverAppend ==
    ASSUME NEW q, NEW l \in Nat, NEW h, NEW a \in Nat, NEW b \in Nat,
           CoveredBy(q, l, h, a, b), NEW e, Completes(e, h) \in Nat,
           NEW b2 \in Nat, b2 + Completes(e, h) <= b,
           NEW t, t[l + 1] = e, \A i \in 1 .. l : t[i] = q[i]
    PROVE  CoveredBy(t, l + 1, h, a, b2)
  <1>1. PICK r \in [0 .. l -> Nat] : r[0] = a /\ b <= r[l] /\ Covers(r, q, l, h)
    BY DEF CoveredBy
  <1>2. PICK c \in Nat : c = Completes(e, h)
    OBVIOUS
  <1>3. l \in 0 .. l /\ r[l] \in Nat
    BY <1>1
  <1>4. PICK z \in Nat : z = r[l] - c /\ z + c = r[l] /\ b2 <= z
    BY <1>1, <1>2, <1>3
  <1> DEFINE r2 == [i \in 0 .. l + 1 |-> IF i = l + 1 THEN z ELSE r[i]]
  <1>5. \A i \in 0 .. l + 1 : i = l + 1 \/ i \in 0 .. l
    OBVIOUS
  <1>6. r2 \in [0 .. l + 1 -> Nat]
    BY <1>5
  <1>7. r2[l + 1] = z /\ \A i \in 0 .. l : r2[i] = r[i]
    OBVIOUS
  <1> HIDE DEF r2
  <1>8. r2[0] = a /\ b2 <= r2[l + 1]
    BY <1>1, <1>4, <1>7
  <1>9. ASSUME NEW i \in 1 .. l + 1 PROVE r2[i] + Completes(t[i], h) = r2[i - 1]
    <2>1. CASE i = l + 1
      <3>1. i - 1 = l /\ t[i] = e /\ r2[i] = z
        BY <1>7, <2>1
      <3>2. QED
        BY <1>2, <1>3, <1>4, <1>7, <3>1
    <2>2. CASE i \in 1 .. l
      <3>1. i \in 0 .. l /\ i - 1 \in 0 .. l /\ t[i] = q[i]
        BY <2>2
      <3>2. QED
        BY <1>1, <1>7, <2>2, <3>1 DEF Covers
    <2>3. QED
      BY <2>1, <2>2
  <1>10. Covers(r2, t, l + 1, h)
    BY <1>9 DEF Covers
  <1>11. QED
    BY <1>6, <1>8, <1>10 DEF CoveredBy

(* Nothing is outstanding, and no completion waits.                        *)
LEMMA CoverNone ==
    ASSUME NEW q, NEW l \in Nat, NEW h, Silent(q, l, h)
    PROVE  CoveredBy(q, l, h, 0, 0)
  <1> DEFINE r == [i \in 0 .. l |-> 0]
  <1>1. \A i \in 0 .. l : r[i] = 0
    OBVIOUS
  <1>2. r \in [0 .. l -> Nat] /\ r[0] = 0 /\ 0 <= r[l]
    OBVIOUS
  <1> HIDE DEF r
  <1>3. ASSUME NEW i \in 1 .. l PROVE r[i] + Completes(q[i], h) = r[i - 1]
    <2>1. Completes(q[i], h) = 0
      BY DEF Silent, Completes
    <2>2. i \in 0 .. l /\ i - 1 \in 0 .. l
      OBVIOUS
    <2>3. QED
      BY <1>1, <2>1, <2>2
  <1>4. QED
    BY <1>2, <1>3 DEF CoveredBy, Covers

(* The controller holds no more than what is outstanding.                  *)
LEMMA CoverBound ==
    ASSUME NEW q, NEW l \in Nat, NEW h, NEW a \in Nat, NEW b \in Nat,
           CoveredBy(q, l, h, a, b), \A i \in 1 .. l : Completes(q[i], h) \in Nat
    PROVE  b <= a
  <1>1. PICK r \in [0 .. l -> Nat] : r[0] = a /\ b <= r[l] /\ Covers(r, q, l, h)
    BY DEF CoveredBy
  <1> DEFINE more == {i \in 0 .. l : r[i] > a}
  <1>2. more = {}
    <2> SUFFICES ASSUME more # {} PROVE FALSE
      OBVIOUS
    <2>1. PICK k : k \in more /\ \A y \in more : k <= y
      <3>1. more \in SUBSET Nat
        OBVIOUS
      <3> HIDE DEF more
      <3>2. QED
        BY <3>1, MinIsIn
    <2>2. k \in 0 .. l /\ r[k] > a /\ k # 0
      BY <1>1, <2>1
    <2>3. k \in 1 .. l /\ k - 1 \in 0 .. l /\ ~(k <= k - 1)
      BY <2>2
    <2>4. ~(r[k - 1] > a)
      BY <2>1, <2>3
    <2>5. r[k] + Completes(q[k], h) = r[k - 1] /\ Completes(q[k], h) \in Nat
      BY <1>1, <2>3 DEF Covers
    <2>6. r[k] \in Nat /\ r[k - 1] \in Nat
      BY <2>2, <2>3
    <2>7. QED
      BY <2>2, <2>4, <2>5, <2>6
  <1>3. l \in 0 .. l /\ r[l] \in Nat /\ ~(r[l] > a)
    BY <1>2
  <1>4. QED
    BY <1>1, <1>3

-----------------------------------------------------------------------------
(* The story the events tell.                                              *)

LEMMA StoryTail ==
    ASSUME NEW q, NEW l \in Nat, l > 0, NEW up, Story(q, l, up),
           NEW t, \A i \in 1 .. l - 1 : t[i] = q[i + 1]
    PROVE  /\ Story(t, l - 1, up) /\ q[1].type \notin {"fail", "reset"}
           /\ q[1].type = "disc" => q[1].h \notin up /\ Silent(t, l - 1, q[1].h)
           /\ \A h : Silent(q, l, h) => Silent(t, l - 1, h)
  <1>1. l - 1 \in Nat /\ 1 \in 1 .. l /\ \A i \in 1 .. l - 1 : i + 1 \in 1 .. l /\ ~(i + 1 <= 1)
    OBVIOUS
  <1>2. \A i \in 1 .. l : q[i].type \notin {"fail", "reset"}
    BY DEF Story, Truthful
  <1>3. Truthful(t, l - 1)
    BY <1>1, <1>2 DEF Truthful
  <1>4. ASSUME NEW i \in 1 .. l, q[i].type = "disc"
        PROVE  q[i].h \notin up /\ \A j \in 1 .. l : q[j].h = q[i].h => j <= i
    BY <1>4 DEF Story, EndsLast
  <1>5. ASSUME NEW i \in 1 .. l - 1, t[i].type = "disc"
        PROVE  t[i].h \notin up /\ \A j \in 1 .. l - 1 : t[j].h = t[i].h => j <= i
    <2>1. i + 1 \in 1 .. l /\ t[i] = q[i + 1]
      BY <1>1
    <2>2. ASSUME NEW j \in 1 .. l - 1, t[j].h = t[i].h PROVE j <= i
      <3>1. j + 1 \in 1 .. l /\ t[j] = q[j + 1]
        BY <1>1
      <3>2. j + 1 <= i + 1
        BY <1>4, <1>5, <2>1, <2>2, <3>1
      <3>3. QED
        BY <3>2
    <2>3. QED
      BY <1>4, <1>5, <2>1, <2>2
  <1>6. q[1].type = "disc" => q[1].h \notin up /\ Silent(t, l - 1, q[1].h)
    BY <1>1, <1>4 DEF Silent
  <1>7. \A h : Silent(q, l, h) => Silent(t, l - 1, h)
    BY <1>1 DEF Silent
  <1>8. QED
    BY <1>1, <1>2, <1>3, <1>5, <1>6, <1>7 DEF Story, EndsLast

(* Event e goes on with the story: the links become down.                  *)
GoesOn(q, l, up, e, down) ==
    /\ e.type \in {"conn", "comp", "disc"} /\ (e.type = "disc" => e.h \notin down)
    /\ e.h \in up \/ Silent(q, l, e.h)
    /\ \A x \in down : x \in up \/ x = e.h

LEMMA StoryAppend ==
    ASSUME NEW q, NEW l \in Nat, NEW up, Story(q, l, up), NEW e, NEW down,
           GoesOn(q, l, up, e, down), NEW t, Longest(q, l, e, t)
    PROVE  Story(t, l + 1, down)
  <1>1. \A i \in 1 .. l + 1 : (i \in 1 .. l /\ t[i] = q[i]) \/ (i = l + 1 /\ t[i] = e)
    BY DEF Longest
  <1>2. Truthful(t, l + 1)
    BY <1>1 DEF Story, Truthful, GoesOn
  <1>3. ASSUME NEW i \in 1 .. l + 1, t[i].type = "disc"
        PROVE  t[i].h \notin down /\ \A j \in 1 .. l + 1 : t[j].h = t[i].h => j <= i
    <2>1. CASE i = l + 1
      BY <1>1, <1>3, <2>1 DEF GoesOn
    <2>2. CASE i \in 1 .. l
      <3>1. /\ t[i] = q[i] /\ q[i].h \notin up
            /\ \A j \in 1 .. l : q[j].h = q[i].h => j <= i
        BY <1>1, <1>3, <2>2 DEF Story, EndsLast
      <3>2. q[i].h # e.h
        BY <2>2, <3>1 DEF Silent, GoesOn
      <3>3. t[i].h \notin down
        BY <3>1, <3>2 DEF GoesOn
      <3>4. QED
        BY <1>1, <3>1, <3>2, <3>3
    <2>3. QED
      BY <1>1, <2>1, <2>2
  <1>4. QED
    BY <1>2, <1>3 DEF Story, EndsLast

-----------------------------------------------------------------------------
(* Credits is inductive.                                                   *)

LEMMA HonestFacts ==
    ASSUME Credits, honest
    PROVE  /\ host.at # "reset" /\ Story(events, Len(events), links)
           /\ Ending(host, events, Len(events), links) /\ Covered
           /\ avail + Total(out, Owing) + gone = MaxPkts
  BY DEF Credits, Solvent, CreditsConserved

LEMMA CompletionTypes ==
    ASSUME Ordered
    PROVE  /\ Len(events) \in Nat
           /\ \A h : \A i \in 1 .. Len(events) : Completes(events[i], h) \in Nat
  <1>1. events \in Seq(Events)
    BY OrderedTypes DEF EventsOK
  <1>2. QED
    BY <1>1, CompletesType

(* The host task goes on with its work.                                    *)
LEMMA SameOwing ==
    ASSUME conns' = conns,
           host' = host \/ (host.at # "broken" /\ host'.at # "broken")
    PROVE  Owing' = Owing
  BY DEF Owing, Connected

LEMMA QuietSolvent ==
    ASSUME Credits, UNCHANGED <<conns, out, avail, links, held, events, gone, honest>>,
           \/ host' = host
           \/ host.at # "broken" /\ host'.at \notin {"broken", "reset"}
    PROVE  Solvent'
  <1> SUFFICES ASSUME honest PROVE Solvent'
    BY DEF Solvent
  <1>1. Owing' = Owing
    BY SameOwing
  <1>2. /\ host.at # "reset" /\ Story(events, Len(events), links)
        /\ Ending(host, events, Len(events), links) /\ Covered
        /\ avail + Total(out, Owing) + gone = MaxPkts
    BY HonestFacts
  <1>3. host'.at # "reset" /\ Ending(host, events, Len(events), links)'
    BY <1>2 DEF Ending, Connected
  <1>4. Covered' /\ CreditsConserved'
    BY <1>1, <1>2 DEF Covered, CreditsConserved
  <1>5. QED
    BY <1>2, <1>3, <1>4 DEF Solvent

(* Fragments are handed over on connection h.                              *)
LEMMA MovedSolvent ==
    ASSUME Credits, NEW h \in Handles, Connected(h), NEW p, NEW o, o.n \in Nat, o.n <= avail,
           HandOver(h, p, o), UNCHANGED <<conns, links, events, honest>>,
           \/ host' = host
           \/ host.at # "broken" /\ host'.at \notin {"broken", "reset"}
    PROVE  Solvent'
  <1> SUFFICES ASSUME honest PROVE Solvent'
    BY DEF Solvent
  <1>1. PICK n \in Nat : n = o.n /\ n <= avail
    OBVIOUS
  <1>2. /\ out' = [out EXCEPT ![h] = out[h] + n] /\ avail' = avail - n
        /\ held' = (IF h \in links THEN [held EXCEPT ![h] = held[h] + n] ELSE held)
        /\ gone' = (IF host.at = "broken" /\ host.h = h THEN gone + n ELSE gone)
    BY <1>1 DEF HandOver
  <1>3. /\ out \in [Handles -> Nat] /\ held \in [Handles -> Nat] /\ avail \in Nat /\ gone \in Nat
        /\ out[h] \in Nat /\ held[h] \in Nat
    BY OrderedTypes DEF Credits
  <1>4. /\ host.at # "reset" /\ Story(events, Len(events), links)
        /\ Ending(host, events, Len(events), links) /\ Covered
        /\ avail + Total(out, Owing) + gone = MaxPkts
    BY HonestFacts
  <1>5. Owing' = Owing /\ Owing \in SUBSET Handles
    BY SameOwing DEF Owing
  <1>6. /\ out' \in [Handles -> Nat] /\ out'[h] = out[h] + n
        /\ \A x \in Handles : x # h => out'[x] = out[x] /\ held'[x] = held[x]
    BY <1>2, <1>3
  <1>7. avail' + Total(out', Owing) + gone' = MaxPkts
    <2>1. PICK t \in Nat, t2 \in Nat : t = Total(out, Owing) /\ t2 = Total(out', Owing)
      BY <1>3, <1>5, <1>6, TotalType
    <2>2. \A a, b, c, d \in Nat :
             (a - d) + b + (c + d) = a + b + c /\ (a - d) + (b + d) + c = a + b + c
      OBVIOUS
    <2>3. CASE host.at = "broken" /\ host.h = h
      <3>1. h \notin Owing
        BY <2>3 DEF Owing
      <3>2. Total(out', Owing) = Total(out, Owing)
        BY <1>5, <1>6, <3>1, TotalSame
      <3>3. avail' = avail - n /\ gone' = gone + n /\ t2 = t
        BY <1>2, <2>1, <2>3, <3>2
      <3>4. (avail - n) + t + (gone + n) = avail + t + gone
        BY <1>3, <2>2
      <3>5. avail + t + gone = MaxPkts
        BY <1>4, <2>1
      <3>6. QED
        BY <2>1, <3>3, <3>4, <3>5, Zenon
    <2>4. CASE ~(host.at = "broken" /\ host.h = h)
      <3>1. h \in Owing
        BY <2>4 DEF Owing
      <3>2. t2 + out[h] = t + (out[h] + n)
        BY <1>3, <1>5, <1>6, <2>1, <3>1, TotalChange
      <3>3. \A a, b, c, d \in Nat : b + a = c + (a + d) => b = c + d
        OBVIOUS
      <3>4. avail' = avail - n /\ gone' = gone /\ t2 = t + n
        BY <1>2, <1>3, <2>4, <3>2, <3>3
      <3>5. (avail - n) + (t + n) + gone = avail + t + gone
        BY <1>3, <2>2
      <3>6. avail + t + gone = MaxPkts
        BY <1>4, <2>1
      <3>7. QED
        BY <2>1, <3>4, <3>5, <3>6, Zenon
    <2>5. QED
      BY <2>3, <2>4
  <1>8. CreditsConserved'
    BY <1>5, <1>7 DEF CreditsConserved
  <1>9. Covered'
    <2> DEFINE l == Len(events)
    <2>1. l \in Nat /\ \A x : \A i \in 1 .. l : Completes(events[i], x) \in Nat
      BY CompletionTypes DEF Credits
    <2>2. ASSUME NEW x \in Handles
          PROVE  CoveredBy(events, l, x, out'[x], held'[x]) /\ (x \notin links => held'[x] = 0)
      <3>1. /\ CoveredBy(events, l, x, out[x], held[x]) /\ (x \notin links => held[x] = 0)
            /\ out[x] \in Nat /\ held[x] \in Nat
        BY <1>3, <1>4 DEF Covered
      <3>2. CASE x # h
        BY <1>6, <3>1, <3>2
      <3>3. CASE x = h
        <4>1. held'[h] \in Nat /\ held'[h] <= held[h] + n /\ (h \notin links => held'[h] = held[h])
          BY <1>2, <1>3
        <4> HIDE DEF l
        <4>2. CoveredBy(events, l, h, out[h] + n, held'[h])
          BY <2>1, <3>1, <3>3, <4>1, CoverMore
        <4>3. QED
          BY <1>6, <3>1, <3>3, <4>1, <4>2
      <3>4. QED
        BY <3>2, <3>3
    <2>3. QED
      BY <2>2 DEF Covered
  <1>10. host'.at # "reset" /\ Story(events, Len(events), links)'
         /\ Ending(host, events, Len(events), links)'
    BY <1>4 DEF Ending, Connected
  <1>11. QED
    BY <1>8, <1>9, <1>10 DEF Solvent

(* What is known once the first event has been taken from the queue.       *)
LEMMA TailFacts ==
    ASSUME Credits, honest, events # <<>>, NEW e, e = Head(events), NEW t, t = Tail(events)
    PROVE  /\ Story(t, Len(t), links) /\ e.type \notin {"fail", "reset"} /\ e.n \in Nat
           /\ e.type = "disc" => e.h \notin links /\ Silent(t, Len(t), e.h)
           /\ \A x \in Handles :
                /\ Completes(e, x) \in Nat /\ Completes(e, x) <= out[x]
                /\ CoveredBy(t, Len(t), x, out[x] - Completes(e, x), held[x])
  <1>1. PICK l \in Nat : l = Len(events)
    BY CompletionTypes DEF Credits
  <1>2. /\ l > 0 /\ Len(t) = l - 1 /\ e = events[1] /\ e \in Events
        /\ \A i \in 1 .. l - 1 : t[i] = events[i + 1]
    <2>1. EventsOK(events)
      BY OrderedTypes DEF Credits
    <2>2. /\ e \in Events /\ e = events[1] /\ 1 \in 1 .. l /\ Len(t) = l - 1
          /\ DOMAIN t = 1 .. l - 1 /\ \A i \in DOMAIN t : t[i] = events[i + 1]
      BY <1>1, <2>1, TailEvents
    <2>3. QED
      BY <2>2
  <1>3. Story(events, l, links) /\ Covered
    BY <1>1, HonestFacts
  <1>4. /\ Story(t, l - 1, links) /\ e.type \notin {"fail", "reset"}
        /\ e.type = "disc" => e.h \notin links /\ Silent(t, l - 1, e.h)
    BY <1>2, <1>3, StoryTail
  <1>5. ASSUME NEW x \in Handles
        PROVE  /\ Completes(e, x) \in Nat /\ Completes(e, x) <= out[x]
               /\ CoveredBy(t, l - 1, x, out[x] - Completes(e, x), held[x])
    <2>1. out[x] \in Nat /\ held[x] \in Nat
      BY OrderedTypes DEF Credits
    <2>2. \A i \in 1 .. l : Completes(events[i], x) \in Nat
      BY <1>1, CompletionTypes DEF Credits
    <2>3. CoveredBy(events, l, x, out[x], held[x])
      BY <1>1, <1>3 DEF Covered
    <2>4. /\ Completes(events[1], x) <= out[x]
          /\ CoveredBy(t, l - 1, x, out[x] - Completes(events[1], x), held[x])
      <3>1. l > 0 /\ \A i \in 1 .. l - 1 : t[i] = events[i + 1]
        BY <1>2
      <3>2. QED
        BY <2>1, <2>2, <2>3, <3>1, CoverTail, ZenonT(40)
    <2>5. QED
      BY <1>2, <2>4, CompletesType
  <1>6. e.n \in Nat
    BY <1>2 DEF Events
  <1>7. QED
    BY <1>2, <1>4, <1>5, <1>6

LEMMA ConnCompleteSolvent ==
    ASSUME Credits, ConnComplete
    PROVE  Solvent'
  <1> SUFFICES ASSUME honest PROVE Solvent'
    BY DEF Solvent, ConnComplete
  <1> DEFINE e == Head(events)
             t == Tail(events)
  <1>1. /\ conns' = (IF Connected(e.h) THEN conns ELSE <<e.h>> \o conns) /\ events' = t
        /\ events # <<>> /\ e.type = "conn" /\ host.at = "idle" /\ e.h \in Handles
        /\ UNCHANGED <<out, avail, host, links, held, gone, honest>>
    BY EventFacts DEF ConnComplete, Event, llVars, Credits
  <1>2. /\ Story(t, Len(t), links)
        /\ \A x \in Handles : CoveredBy(t, Len(t), x, out[x] - Completes(e, x), held[x])
    BY <1>1, TailFacts
  <1>3. \A x \in Handles : Completes(e, x) = 0 /\ out[x] \in Nat /\ out[x] - 0 = out[x]
    BY <1>1, OrderedTypes DEF Completes, Credits
  <1> HIDE DEF e, t
  <1>4. Covered /\ avail + Total(out, Owing) + gone = MaxPkts
    BY HonestFacts
  <1>5. Covered'
    BY <1>1, <1>2, <1>3, <1>4 DEF Covered
  <1>6. CreditsConserved'
    <2>1. CASE Connected(e.h)
      <3>1. Owing' = Owing
        BY <1>1, <2>1 DEF Owing, Connected
      <3>2. QED
        BY <1>1, <1>4, <3>1 DEF CreditsConserved
    <2>2. CASE ~Connected(e.h)
      <3>1. \A x : Contains(conns', x) <=> Contains(conns, x) \/ x = e.h
        BY <1>1, <2>2, OrderedTypes, ConsFacts DEF Connected, Credits
      <3>2. Owing' = Owing \cup {e.h} /\ e.h \notin Owing /\ Owing \in SUBSET Handles
        BY <1>1, <2>2, <3>1 DEF Owing, Connected
      <3>3. out[e.h] = 0 /\ out \in [Handles -> Nat]
        BY <1>1, <2>2, OrderedTypes DEF Forgotten, Credits
      <3>4. Total(out, Owing') = Total(out, Owing) + 0 /\ Total(out, Owing) \in Nat
        BY <1>1, <3>2, <3>3, TotalAdd, TotalType
      <3>5. Total(out, Owing') = Total(out, Owing)
        BY <3>4
      <3>6. QED
        BY <1>1, <1>4, <3>5 DEF CreditsConserved
    <2>3. QED
      BY <2>1, <2>2
  <1>7. host'.at # "reset" /\ Ending(host, events, Len(events), links)'
    BY <1>1 DEF Ending
  <1>8. QED
    BY <1>1, <1>2, <1>5, <1>6, <1>7 DEF Solvent

LEMMA NumCompletedSolvent ==
    ASSUME Credits, NumCompletedPkts
    PROVE  Solvent'
  <1> SUFFICES ASSUME honest PROVE Solvent'
    BY DEF Solvent, NumCompletedPkts
  <1> DEFINE e == Head(events)
             t == Tail(events)
  <1>1. /\ events # <<>> /\ e.type = "comp" /\ host.at = "idle" /\ e.h \in Handles
        /\ host' = [host EXCEPT !.at = "wake"] /\ host \in HostStates
        /\ UNCHANGED <<conns, links, held, gone, honest>>
    BY EventFacts, OrderedTypes DEF NumCompletedPkts, Event, llVars, Credits
  <1>2. /\ Story(t, Len(t), links) /\ e.n \in Nat
        /\ \A x \in Handles :
             /\ Completes(e, x) \in Nat /\ Completes(e, x) <= out[x]
             /\ CoveredBy(t, Len(t), x, out[x] - Completes(e, x), held[x])
    BY <1>1, TailFacts
  <1>3. /\ Completes(e, e.h) = e.n /\ e.n <= out[e.h]
        /\ \A x \in Handles : x # e.h => Completes(e, x) = 0
    BY <1>1, <1>2 DEF Completes
  <1>4. out \in [Handles -> Nat] /\ avail \in Nat /\ gone \in Nat /\ out[e.h] \in Nat
    BY <1>1, OrderedTypes DEF Credits
  <1>5. /\ events' = t
        /\ avail' = (IF Connected(e.h) THEN avail + e.n ELSE avail)
        /\ out' = (IF Connected(e.h) THEN [out EXCEPT ![e.h] = out[e.h] - e.n] ELSE out)
    <2>1. ~(out[e.h] < e.n)
      BY <1>2, <1>3, <1>4
    <2>2. QED
      BY <2>1 DEF NumCompletedPkts
  <1>6. ~Connected(e.h) => out[e.h] = 0 /\ e.n = 0
    BY <1>1, <1>2, <1>3, OrderedTypes DEF Forgotten, Credits
  <1> HIDE DEF e, t
  <1>7. /\ out' \in [Handles -> Nat] /\ out'[e.h] = out[e.h] - e.n /\ avail' = avail + e.n
        /\ \A x \in Handles : x # e.h => out'[x] = out[x]
    <2>1. out[e.h] - e.n \in Nat
      BY <1>2, <1>3, <1>4
    <2>2. CASE Connected(e.h)
      BY <1>1, <1>4, <1>5, <2>1, <2>2
    <2>3. CASE ~Connected(e.h)
      <3>1. avail + 0 = avail /\ out[e.h] - 0 = out[e.h]
        BY <1>4
      <3>2. QED
        BY <1>4, <1>5, <1>6, <2>3, <3>1
    <2>4. QED
      BY <2>2, <2>3
  <1>8. Covered /\ avail + Total(out, Owing) + gone = MaxPkts
    BY HonestFacts
  <1>9. Covered'
    <2>1. ASSUME NEW x \in Handles
          PROVE  out'[x] = out[x] - Completes(e, x)
      <3>1. out[x] \in Nat /\ out[x] - 0 = out[x]
        BY <1>4
      <3>2. QED
        BY <1>3, <1>7, <3>1
    <2>2. QED
      BY <1>1, <1>2, <1>5, <1>8, <2>1 DEF Covered
  <1>10. host'.at = "wake"
    BY <1>1 DEF HostStates
  <1>11. CreditsConserved'
    <2>1. Owing' = Owing /\ Owing \in SUBSET Handles
      BY <1>1, <1>10, SameOwing DEF Owing
    <2>2. PICK a \in Nat, b \in Nat : a = Total(out, Owing) /\ b = Total(out', Owing)
      BY <1>4, <1>7, <2>1, TotalType
    <2>3. b + e.n = a
      <3>1. CASE Connected(e.h)
        <4>1. e.h \in Owing
          BY <1>1, <3>1 DEF Owing
        <4>2. b + out[e.h] = a + (out[e.h] - e.n)
          BY <1>4, <1>7, <2>1, <2>2, <4>1, TotalChange
        <4>3. PICK c \in Nat, n \in Nat : c = out[e.h] /\ n = e.n
          BY <1>2, <1>4
        <4>4. b + c = a + (c - n)
          BY <4>2, <4>3
        <4>5. b + n = a
          BY <4>4
        <4>6. QED
          BY <4>3, <4>5
      <3>2. CASE ~Connected(e.h)
        <4>1. e.h \notin Owing
          BY <3>2 DEF Owing
        <4>2. a = b
          BY <1>7, <2>1, <2>2, <4>1, TotalSame
        <4>3. QED
          BY <1>6, <3>2, <4>2
      <3>3. QED
        BY <3>1, <3>2
    <2>4. (avail + e.n) + b + gone = avail + (b + e.n) + gone
      BY <1>2, <1>4
    <2>5. QED
      BY <1>1, <1>7, <1>8, <2>1, <2>2, <2>3, <2>4 DEF CreditsConserved
  <1>12. host'.at # "reset" /\ Ending(host, events, Len(events), links)'
    BY <1>10 DEF Ending
  <1>13. QED
    BY <1>1, <1>2, <1>5, <1>9, <1>11, <1>12 DEF Solvent

LEMMA DisconnSolvent ==
    ASSUME Credits, DisconnComplete
    PROVE  Solvent'
  <1> SUFFICES ASSUME honest PROVE Solvent'
    BY DEF Solvent, DisconnComplete
  <1> DEFINE e == Head(events)
             t == Tail(events)
  <1>1. /\ events # <<>> /\ e.type \in {"disc", "fail"} /\ host.at = "idle" /\ e.h \in Handles
        /\ events' = t /\ avail' = (IF Connected(e.h) THEN avail + out[e.h] ELSE avail)
        /\ host \in HostStates /\ UNCHANGED <<conns, out, links, held, gone, honest>>
    BY EventFacts, OrderedTypes DEF DisconnComplete, Event, connVars, llVars, Credits
  <1>2. /\ Story(t, Len(t), links) /\ e.type # "fail"
        /\ e.type = "disc" => e.h \notin links /\ Silent(t, Len(t), e.h)
        /\ \A x \in Handles : CoveredBy(t, Len(t), x, out[x] - Completes(e, x), held[x])
    BY <1>1, TailFacts
  <1>3. e.type = "disc" /\ e.h \notin links /\ Silent(t, Len(t), e.h)
    BY <1>1, <1>2
  <1>4. host' = IF Connected(e.h) THEN [at |-> "broken", h |-> e.h, i |-> 0]
                                  ELSE [host EXCEPT !.at = "wake"]
    BY <1>3 DEF DisconnComplete
  <1>5. \A x \in Handles : Completes(e, x) = 0 /\ out[x] \in Nat /\ out[x] - 0 = out[x]
    BY <1>3, OrderedTypes DEF Completes, Credits
  <1> HIDE DEF e, t
  <1>6. Covered /\ avail + Total(out, Owing) + gone = MaxPkts
    BY HonestFacts
  <1>7. Covered'
    BY <1>1, <1>2, <1>5, <1>6 DEF Covered
  <1>8. out \in [Handles -> Nat] /\ avail \in Nat /\ gone \in Nat /\ out[e.h] \in Nat
    BY <1>1, OrderedTypes DEF Credits
  <1>9. CASE Connected(e.h)
    <2>1. host'.at = "broken" /\ host'.h = e.h
      BY <1>4, <1>9
    <2>2. /\ Owing = Owing' \cup {e.h} /\ e.h \notin Owing'
          /\ Owing \in SUBSET Handles /\ Owing' \in SUBSET Handles
      BY <1>1, <1>9, <2>1 DEF Owing, Connected
    <2>3. PICK a \in Nat, b \in Nat : a = Total(out, Owing) /\ b = Total(out, Owing')
      BY <1>8, <2>2, TotalType
    <2>4. a = b + out[e.h]
      BY <1>1, <1>8, <2>2, <2>3, TotalAdd
    <2>5. (avail + out[e.h]) + b + gone = avail + (b + out[e.h]) + gone
      BY <1>8
    <2>6. CreditsConserved'
      BY <1>1, <1>6, <1>9, <2>3, <2>4, <2>5 DEF CreditsConserved
    <2>7. host'.at # "reset" /\ Ending(host, events, Len(events), links)'
      BY <1>1, <1>3, <1>9, <2>1 DEF Ending, Connected
    <2>8. QED
      BY <1>1, <1>2, <1>7, <2>6, <2>7 DEF Solvent
  <1>10. CASE ~Connected(e.h)
    <2>1. host'.at = "wake" /\ avail' = avail
      BY <1>1, <1>4, <1>10 DEF HostStates
    <2>2. Owing' = Owing
      BY <1>1, <2>1, SameOwing
    <2>3. CreditsConserved'
      BY <1>1, <1>6, <2>1, <2>2 DEF CreditsConserved
    <2>4. host'.at # "reset" /\ Ending(host, events, Len(events), links)'
      BY <2>1 DEF Ending
    <2>5. QED
      BY <1>1, <1>2, <1>7, <2>3, <2>4 DEF Solvent
  <1>11. QED
    BY <1>9, <1>10

LEMMA BrokenSolvent ==
    ASSUME Credits, ConnBroken
    PROVE  Solvent'
  <1> SUFFICES ASSUME honest PROVE Solvent'
    BY DEF Solvent, ConnBroken
  <1> DEFINE h == host.h
             l == Len(events)
  <1>1. /\ host.at = "broken" /\ host' = [at |-> "wake", h |-> 0, i |-> 0] /\ Forget(h)
        /\ UNCHANGED <<avail, links, held, events, gone, honest>>
    BY DEF ConnBroken, llVars
  <1>2. /\ h \in Handles /\ conns \in Seq(Handles) /\ IsInjective(conns)
        /\ out \in [Handles -> Nat] /\ held \in [Handles -> Nat]
    BY <1>1, OrderedTypes DEF HostWorks, Credits
  <1>3. /\ Story(events, l, links) /\ Ending(host, events, l, links) /\ Covered
        /\ avail + Total(out, Owing) + gone = MaxPkts
    BY HonestFacts
  <1>4. h \notin links /\ Silent(events, l, h) /\ held[h] = 0
    BY <1>1, <1>2, <1>3 DEF Ending, Covered
  <1>5. \A x : Contains(conns', x) <=> Contains(conns, x) /\ x # h
    BY <1>1, <1>2, RemoveFacts DEF Forget
  <1>6. out'[h] = 0 /\ \A x \in Handles : x # h => out'[x] = out[x]
    BY <1>1, <1>2 DEF Forget
  <1>7. l \in Nat
    BY CompletionTypes DEF Credits
  <1> HIDE DEF h, l
  <1>8. Owing' = Owing /\ h \notin Owing /\ Owing \in SUBSET Handles
    BY <1>1, <1>5 DEF Owing, Connected, h
  <1>9. Total(out', Owing) = Total(out, Owing)
    BY <1>6, <1>8, TotalSame
  <1>10. CreditsConserved'
    BY <1>1, <1>3, <1>8, <1>9 DEF CreditsConserved
  <1>11. Covered'
    <2>1. ASSUME NEW x \in Handles
          PROVE  CoveredBy(events, l, x, out'[x], held[x]) /\ (x \notin links => held[x] = 0)
      <3>1. CASE x = h
        BY <1>4, <1>6, <1>7, <3>1, CoverNone
      <3>2. CASE x # h
        BY <1>3, <1>6, <3>2 DEF Covered, l
      <3>3. QED
        BY <3>1, <3>2
    <2>2. QED
      BY <1>1, <2>1 DEF Covered, l
  <1>12. host'.at # "reset" /\ Ending(host, events, Len(events), links)'
    BY <1>1 DEF Ending
  <1>13. QED
    BY <1>1, <1>3, <1>10, <1>11, <1>12 DEF Solvent, l

LEMMA ResetSolvent ==
    ASSUME Credits, StartReset \/ ResetState \/ SetBufSz
    PROVE  Solvent'
  <1>1. CASE StartReset
    <2>1. honest' = honest /\ events # <<>> /\ Head(events).type = "reset"
      BY <1>1 DEF StartReset, Event
    <2>2. ~honest
      BY <2>1, TailFacts
    <2>3. QED
      BY <2>1, <2>2 DEF Solvent
  <1>2. CASE ResetState
    <2>1. honest' = honest /\ host.at = "reset"
      BY <1>2 DEF ResetState
    <2>2. QED
      BY <2>1 DEF Solvent, Credits
  <1>3. CASE SetBufSz
    <2> SUFFICES ASSUME honest' PROVE Solvent'
      BY DEF Solvent
    <2>1. /\ conns = <<>> /\ conns' = conns /\ out' = out /\ events' = events
          /\ avail' = MaxPkts /\ gone' = 0 /\ events = <<>> /\ links' = {}
          /\ held' = [h \in Handles |-> 0] /\ host' = Idle
      BY <1>3 DEF SetBufSz, connVars
    <2>2. \A x \in Handles : ~Connected(x)
      BY <2>1 DEF Connected, Contains
    <2>3. \A x \in Handles : out[x] = 0 /\ held'[x] = 0
      BY <2>1, <2>2, OrderedTypes DEF Forgotten, Credits
    <2>4. Len(events') = 0
      BY <2>1
    <2>5. Story(events, Len(events), links)'
      BY <2>4 DEF Story, Truthful, EndsLast
    <2>6. Covered'
      <3>1. \A x \in Handles : CoveredBy(events', 0, x, 0, 0)
        <4>1. \A x : Silent(events', 0, x)
          BY DEF Silent
        <4>2. QED
          BY <4>1, CoverNone
      <3>2. QED
        BY <2>1, <2>3, <2>4, <3>1 DEF Covered
    <2>7. Owing' = {}
      BY <2>1, <2>2 DEF Owing, Connected
    <2>8. Total(out', {}) = 0
      <3>1. Buffers(out', {}) = {}
        BY DEF Buffers
      <3>2. QED
        BY <3>1, FS_EmptySet DEF Total
    <2>9. CreditsConserved'
      BY <2>1, <2>7, <2>8, SizesAssumption DEF CreditsConserved
    <2>10. host'.at # "reset" /\ Ending(host, events, Len(events), links)'
      BY <2>1 DEF Ending, Idle
    <2>11. QED
      BY <2>5, <2>6, <2>9, <2>10 DEF Solvent
  <1>4. QED
    BY <1>1, <1>2, <1>3

(* The controller reports event e and holds less of the links.             *)
LEMMA LlSolvent ==
    ASSUME Credits, NEW e \in Events, e.type \in {"conn", "comp", "disc"},
           events' = Append(events, e),
           e.type = "disc" => e.h \notin links', e.h \in links \/ Silent(events, Len(events), e.h),
           \A x \in links' : x \in links \/ x = e.h, links \ {e.h} \subseteq links',
           host.at = "broken" => host.h # e.h,
           held' \in [Handles -> Nat],
           \A x \in Handles : held'[x] + Completes(e, x) <= held[x],
           \A x \in Handles : x \notin links' => held'[x] = 0,
           UNCHANGED <<conns, out, avail, host, gone, honest>>
    PROVE  Solvent'
  <1> SUFFICES ASSUME honest PROVE Solvent'
    BY DEF Solvent
  <1>1. PICK l \in Nat : l = Len(events)
    BY CompletionTypes DEF Credits
  <1>2. PICK t : t = events'
    OBVIOUS
  <1>3. Len(t) = l + 1 /\ t[l + 1] = e /\ \A i \in 1 .. l : t[i] = events[i]
    <2>1. events \in Seq(Events)
      BY OrderedTypes DEF Credits, EventsOK
    <2>2. QED
      BY <1>1, <1>2, <2>1, AppendProperties
  <1>4. /\ host.at # "reset" /\ Story(events, l, links) /\ Ending(host, events, l, links)
        /\ Covered /\ avail + Total(out, Owing) + gone = MaxPkts
    BY <1>1, HonestFacts
  <1>5. Story(t, l + 1, links')
    <2>1. GoesOn(events, l, links, e, links')
      BY <1>1 DEF GoesOn
    <2>2. Longest(events, l, e, t)
      BY <1>3 DEF Longest
    <2>3. QED
      BY <1>4, <2>1, <2>2, StoryAppend
  <1>6. host.at = "broken" => Connected(host.h) /\ host.h \notin links' /\ Silent(t, l + 1, host.h)
    <2> SUFFICES ASSUME host.at = "broken"
                 PROVE  Connected(host.h) /\ host.h \notin links' /\ Silent(t, l + 1, host.h)
      OBVIOUS
    <2>1. Connected(host.h) /\ host.h \notin links /\ Silent(events, l, host.h) /\ host.h # e.h
      BY <1>4 DEF Ending
    <2>2. host.h \notin links'
      BY <2>1
    <2>3. ASSUME NEW i \in 1 .. l + 1 PROVE t[i].h # host.h
      <3>1. i \in 1 .. l \/ i = l + 1
        OBVIOUS
      <3>2. QED
        BY <1>3, <2>1, <3>1 DEF Silent
    <2>4. QED
      BY <2>1, <2>2, <2>3 DEF Silent
  <1>7. Covered'
    <2>1. ASSUME NEW x \in Handles PROVE CoveredBy(t, l + 1, x, out[x], held'[x])
      <3>1. out[x] \in Nat /\ held[x] \in Nat /\ held'[x] \in Nat
        BY OrderedTypes DEF Credits
      <3>2. CoveredBy(events, l, x, out[x], held[x])
        BY <1>1, <1>4 DEF Covered
      <3>3. Completes(e, x) \in Nat /\ held'[x] + Completes(e, x) <= held[x]
        BY CompletesType
      <3>4. t[l + 1] = e /\ \A i \in 1 .. l : t[i] = events[i]
        BY <1>3
      <3>5. QED
        BY <3>1, <3>2, <3>3, <3>4, CoverAppend, Zenon
    <2>2. QED
      BY <1>2, <1>3, <2>1 DEF Covered
  <1>8. Owing' = Owing
    BY SameOwing
  <1>9. CreditsConserved'
    BY <1>4, <1>8 DEF CreditsConserved
  <1>10. Ending(host, events, Len(events), links)'
    BY <1>2, <1>3, <1>6 DEF Ending, Connected
  <1>11. QED
    BY <1>2, <1>3, <1>4, <1>5, <1>7, <1>9, <1>10 DEF Solvent

LEMMA ControllerSolvent ==
    ASSUME Credits, NEW h \in Handles,
           \/ LlConnect(h) \/ LlDisconnect(h) \/ LlTermFailure(h) \/ LlDuplicate(h)
           \/ \E n \in 1 .. MaxPkts : LlComplete(h, n)
    PROVE  Solvent'
  <1>1. /\ EventsOK(events) /\ DOMAIN events = 1 .. Len(events)
        /\ held \in [Handles -> Nat] /\ held[h] \in Nat /\ links \subseteq Handles
    BY OrderedTypes DEF Credits, EventsOK
  <1>2. honest => /\ host.at = "broken" => Connected(host.h) /\ host.h \notin links
                  /\ \A x \in Handles : x \notin links => held[x] = 0
    BY HonestFacts DEF Ending, Covered
  <1>3. CASE LlConnect(h)
    <2> SUFFICES ASSUME honest PROVE Solvent'
      BY <1>3 DEF Solvent, LlConnect, LlVarsHost
    <2> DEFINE e == [type |-> "conn", h |-> h, n |-> 0]
    <2>1. e \in Events /\ e.type = "conn" /\ e.h = h /\ \A x : Completes(e, x) = 0
      BY DEF Events, Completes
    <2>2. /\ events' = Append(events, e) /\ links' = links \cup {h} /\ held' = held
          /\ UNCHANGED <<conns, out, avail, host, gone, honest>>
      BY <1>3 DEF LlConnect, Report, LlVarsHost, connVars
    <2>3. Silent(events, Len(events), h)
      BY <1>1, <1>3 DEF LlConnect, Silent
    <2>4. host.at = "broken" => host.h # h
      BY <1>2, <1>3 DEF LlConnect, Zombies
    <2> HIDE DEF e
    <2>5. \A x \in Handles : held[x] \in Nat /\ held[x] + 0 <= held[x]
      BY <1>1
    <2>6. QED
      BY <1>1, <1>2, <2>1, <2>2, <2>3, <2>4, <2>5, LlSolvent
  <1>4. CASE LlDisconnect(h)
    <2> SUFFICES ASSUME honest PROVE Solvent'
      BY <1>4 DEF Solvent, LlDisconnect, LlVarsHost
    <2> DEFINE e == [type |-> "disc", h |-> h, n |-> 0]
    <2>1. e \in Events /\ e.type = "disc" /\ e.h = h /\ \A x : Completes(e, x) = 0
      BY DEF Events, Completes
    <2>2. /\ events' = Append(events, e) /\ links' = links \ {h} /\ h \in links
          /\ held' = [held EXCEPT ![h] = 0]
          /\ UNCHANGED <<conns, out, avail, host, gone, honest>>
      BY <1>4 DEF LlDisconnect, Report, LlVarsHost, connVars
    <2> HIDE DEF e
    <2>3. /\ held' \in [Handles -> Nat]
          /\ \A x \in Handles : held'[x] + 0 <= held[x] /\ (x \notin links' => held'[x] = 0)
      BY <1>1, <1>2, <2>2
    <2>4. QED
      BY <1>2, <2>1, <2>2, <2>3, LlSolvent
  <1>5. CASE LlTermFailure(h)
    BY <1>5 DEF LlTermFailure, Solvent
  <1>6. CASE LlDuplicate(h)
    BY <1>6 DEF LlDuplicate, Solvent
  <1>7. ASSUME NEW n \in 1 .. MaxPkts, LlComplete(h, n) PROVE Solvent'
    <2> SUFFICES ASSUME honest PROVE Solvent'
      BY <1>7 DEF Solvent, LlComplete, LlVarsHost
    <2>1. /\ h \in links /\ n \in Nat /\ n <= held[h] /\ held' = [held EXCEPT ![h] = held[h] - n]
          /\ UNCHANGED <<conns, out, avail, host, gone, honest, links>>
      BY <1>7, SizesAssumption DEF LlComplete, LlVarsHost, connVars
    <2>2. /\ held' \in [Handles -> Nat] /\ held'[h] = held[h] - n /\ held'[h] + n <= held[h]
          /\ \A x \in Handles : x # h => held'[x] = held[x]
      BY <1>1, <2>1
    <2>3. \A x \in Handles : x \notin links' => held'[x] = 0
      BY <1>2, <2>1, <2>2
    <2>4. CASE Report("comp", h, n)
      <3> DEFINE e == [type |-> "comp", h |-> h, n |-> n]
      <3>1. /\ e \in Events /\ e.type = "comp" /\ e.h = h /\ Completes(e, h) = n
            /\ \A x : x # h => Completes(e, x) = 0
        BY <2>1 DEF Events, Completes
      <3>2. events' = Append(events, e)
        BY <2>4 DEF Report
      <3> HIDE DEF e
      <3>3. ASSUME NEW x \in Handles PROVE held'[x] + Completes(e, x) <= held[x]
        <4>1. CASE x = h
          BY <2>2, <3>1, <4>1
        <4>2. CASE x # h
          BY <1>1, <2>2, <3>1, <4>2
        <4>3. QED
          BY <4>1, <4>2
      <3>4. host.at = "broken" => host.h # e.h
        BY <1>2, <2>1, <3>1
      <3>5. QED
        BY <2>1, <2>2, <2>3, <3>1, <3>2, <3>3, <3>4, LlSolvent
    <2>5. CASE UNCHANGED events
      <3>1. /\ host.at # "reset" /\ Story(events, Len(events), links)
            /\ Ending(host, events, Len(events), links) /\ Covered
            /\ avail + Total(out, Owing) + gone = MaxPkts
        BY HonestFacts
      <3>2. Covered'
        <4> DEFINE l == Len(events)
        <4>1. l \in Nat /\ \A x : \A i \in 1 .. l : Completes(events[i], x) \in Nat
          BY CompletionTypes DEF Credits
        <4>2. ASSUME NEW x \in Handles PROVE CoveredBy(events, l, x, out[x], held'[x])
          <5>1. CoveredBy(events, l, x, out[x], held[x]) /\ out[x] \in Nat /\ held[x] \in Nat
            BY <3>1, OrderedTypes DEF Covered, Credits
          <5>2. held'[x] \in Nat /\ held'[x] <= held[x] + 0 /\ out[x] + 0 = out[x] /\ 0 \in Nat
            BY <1>1, <2>1, <2>2, <5>1
          <5> HIDE DEF l
          <5>3. CoveredBy(events, l, x, out[x] + 0, held'[x])
            BY <4>1, <5>1, <5>2, CoverMore
          <5>4. QED
            BY <5>2, <5>3
        <4>3. QED
          BY <2>1, <2>3, <2>5, <4>2 DEF Covered
      <3>3. CreditsConserved'
        BY <2>1, <3>1, SameOwing DEF CreditsConserved
      <3>4. Ending(host, events, Len(events), links)'
        BY <2>1, <2>5, <3>1 DEF Ending, Connected
      <3>5. QED
        BY <2>1, <2>5, <3>1, <3>2, <3>3, <3>4 DEF Solvent
    <2>6. QED
      BY <1>7, <2>4, <2>5 DEF LlComplete
  <1>8. QED
    BY <1>3, <1>4, <1>5, <1>6, <1>7

LEMMA TasksSolvent ==
    ASSUME Credits, NEW h \in Handles, NEW n \in 1 .. MaxFrags, Queue(h, n) \/ Transmit(h, n)
    PROVE  Solvent'
  <1>1. CASE Queue(h, n)
    BY <1>1, QuietSolvent DEF Queue, Sending
  <1>2. CASE Transmit(h, n)
    <2>1. PICK p \in Packets : p = NewPacket(n) /\ p.done = 0
      BY NewPacketType DEF Credits
    <2>2. PICK o \in Results : TxNow(h, p, o)
      BY <1>2, <2>1 DEF Transmit
    <2>3. p.done < p.of /\ TypeOK
      BY <2>1, SizesAssumption DEF Packets, Credits, Ordered, Types
    <2>4. o.n \in Nat /\ o.n <= avail /\ HandOver(h, p, o)
      BY <2>2, <2>3, TxNowFacts
    <2>5. Connected(h) /\ UNCHANGED <<conns, host, links, events, honest>>
      BY <1>2 DEF Transmit, Sending
    <2>6. QED
      BY <2>4, <2>5, MovedSolvent
  <1>3. QED
    BY <1>1, <1>2

LEMMA WakeupSolvent ==
    ASSUME Credits, WakeupTx \/ WakeupTxConn \/ WakeupNext
    PROVE  Solvent'
  <1>1. CASE WakeupTx
    <2>1. host.at = "wake" /\ host'.at \in {"first", "all"}
      BY <1>1 DEF WakeupTx
    <2>2. QED
      BY <1>1, <2>1, QuietSolvent DEF WakeupTx, connVars, llVars
  <1>2. CASE WakeupNext
    <2>1. host.at \in {"first", "all"} /\ host'.at \in {"idle", "first", "all"}
      BY <1>2, OrderedTypes DEF WakeupNext, Idle, HostStates, Credits
    <2>2. UNCHANGED <<conns, out, avail, links, held, events, gone, honest>>
      BY <1>2 DEF WakeupNext, connVars, llVars
    <2>3. QED
      BY <2>1, <2>2, QuietSolvent
  <1>3. CASE WakeupTxConn
    <2> DEFINE h == conns[host.i]
               p == Head(txq[h])
    <2>1. PICK o \in Results : /\ TxNow(h, p, o)
                               /\ host' = IF o.res = "again" THEN Idle ELSE host
      BY <1>3 DEF WakeupTxConn
    <2>2. /\ host.at \in {"first", "all"} /\ host.i <= Len(conns) /\ txq[h] # <<>>
          /\ UNCHANGED <<conns, links, events, honest>>
      BY <1>3 DEF WakeupTxConn
    <2>3. h \in Handles /\ Connected(h)
      <3>1. host.i \in 1 .. Len(conns)
        BY <2>2, OrderedTypes DEF HostWorks, HostStates, Credits
      <3>2. conns \in Seq(Handles)
        BY OrderedTypes DEF Credits
      <3>3. conns[host.i] \in Handles
        BY <3>1, <3>2
      <3>4. Contains(conns, conns[host.i])
        BY <3>1 DEF Contains
      <3>5. QED
        BY <3>3, <3>4 DEF Connected
    <2> HIDE DEF h
    <2>4. p \in Packets /\ p.done < p.of
      <3>1. PICK q \in Seq(Packets) : q = txq[h] /\ q # <<>> /\ FragOK(q, Len(q), frag[h])
        BY <2>2, <2>3, OrderedTypes DEF Queues, QueueOK, Credits
      <3>2. p = q[1] /\ p \in Packets /\ 1 \in 1 .. Len(q)
        BY <3>1
      <3>3. QED
        BY <3>1, <3>2 DEF FragOK
    <2> HIDE DEF p
    <2>5. o.n \in Nat /\ o.n <= avail /\ HandOver(h, p, o)
      BY <2>1, <2>3, <2>4, TxNowFacts DEF Credits, Ordered, Types
    <2>6. host' = host \/ (host.at # "broken" /\ host'.at \notin {"broken", "reset"})
      BY <2>1, <2>2 DEF Idle
    <2>7. QED
      BY <2>2, <2>3, <2>5, <2>6, MovedSolvent
  <1>4. QED
    BY <1>1, <1>2, <1>3

LEMMA InitSolvent == ASSUME Init PROVE Solvent
  <1>1. Len(events) = 0 /\ \A x : ~Contains(conns, x)
    BY DEF Init, Contains
  <1>2. Story(events, Len(events), links) /\ Ending(host, events, Len(events), links)
    BY <1>1 DEF Init, Idle, Story, Truthful, EndsLast, Ending
  <1>3. Covered
    <2>1. \A x : Silent(events, 0, x)
      BY DEF Silent
    <2>2. \A x : CoveredBy(events, 0, x, 0, 0)
      BY <2>1, CoverNone
    <2>3. QED
      BY <1>1, <2>2 DEF Init, Covered
  <1>4. CreditsConserved
    <2>1. Owing = {}
      BY <1>1 DEF Owing, Connected
    <2>2. Buffers(out, {}) = {}
      BY DEF Buffers
    <2>3. Total(out, Owing) = 0
      BY <2>1, <2>2, FS_EmptySet DEF Total
    <2>4. QED
      BY <2>3, SizesAssumption DEF Init, CreditsConserved
  <1>5. host.at # "reset"
    BY DEF Init, Idle
  <1>6. QED
    BY <1>2, <1>3, <1>4, <1>5 DEF Solvent

LEMMA CreditsStep == ASSUME Credits, [Next]_vars PROVE Credits'
  <1>1. Ordered'
    BY OrderedStep DEF Credits
  <1>2. CASE HostStep
    <2>1. Solvent'
      BY <1>2, WakeupSolvent, ConnCompleteSolvent, NumCompletedSolvent, DisconnSolvent,
         BrokenSolvent, ResetSolvent DEF HostStep
    <2>2. QED
      BY <1>1, <2>1 DEF Credits
  <1>3. CASE TaskStep
    <2>1. Solvent'
      BY <1>3, TasksSolvent DEF TaskStep
    <2>2. QED
      BY <1>1, <2>1 DEF Credits
  <1>4. CASE LlStep
    <2>1. Solvent'
      BY <1>4, ControllerSolvent DEF LlStep
    <2>2. QED
      BY <1>1, <2>1 DEF Credits
  <1>5. CASE UNCHANGED vars
    <2>1. Solvent'
      BY <1>5, QuietSolvent DEF vars, connVars, llVars
    <2>2. QED
      BY <1>1, <2>1 DEF Credits
  <1>6. QED
    BY <1>2, <1>3, <1>4, <1>5 DEF Next

(* As long as the controller reports the truth, ble_hs_hci_avail_pkts, the *)
(* packets outstanding on the connections and the credits spent on links   *)
(* that had just broken add up to the controller's buffers.                *)
THEOREM CreditsConservedAlways == Spec => []CreditsConserved
  <1>1. Init => Credits
    BY InitOrdered, InitSolvent DEF Credits
  <1>2. Credits /\ [Next]_vars => Credits'
    BY CreditsStep
  <1>3. Credits => CreditsConserved
    BY DEF Credits, Solvent, CreditsConserved
  <1>4. QED
    BY <1>1, <1>2, <1>3, PTL DEF Spec

(* The host never counts on a buffer that the controller does not have     *)
(* free: ble_hs_hci_avail_pkts is at most the controller's room, so that   *)
(* no fragment of a live link is refused.                                  *)
THEOREM NeverOverrunAlways == Spec => []NeverOverrun
  <1>1. Init => Credits
    BY InitOrdered, InitSolvent DEF Credits
  <1>2. Credits /\ [Next]_vars => Credits'
    BY CreditsStep
  <1>3. Credits => NeverOverrun
    <2> SUFFICES ASSUME Credits, honest PROVE avail \in 0 .. Room
      BY DEF NeverOverrun
    <2>1. /\ Ending(host, events, Len(events), links) /\ Covered
          /\ avail + Total(out, Owing) + gone = MaxPkts
      BY HonestFacts
    <2>2. /\ out \in [Handles -> Nat] /\ held \in [Handles -> Nat] /\ avail \in Nat
          /\ gone \in Nat /\ Forgotten
      BY OrderedTypes DEF Credits
    <2>3. Owing \in SUBSET Handles
      BY DEF Owing
    <2>4. ASSUME NEW x \in Handles, held[x] # 0 PROVE x \in Owing /\ held[x] <= out[x]
      <3>1. PICK l : l = Len(events) /\ l \in Nat
                     /\ \A i \in 1 .. l : Completes(events[i], x) \in Nat
        BY CompletionTypes DEF Credits
      <3>2. out[x] \in Nat /\ held[x] \in Nat
        BY <2>2
      <3>3. CoveredBy(events, l, x, out[x], held[x]) /\ x \in links
        BY <2>1, <2>4, <3>1 DEF Covered
      <3>4. held[x] <= out[x]
        BY <3>1, <3>2, <3>3, CoverBound
      <3>5. Connected(x)
        BY <2>2, <2>4, <3>2, <3>4 DEF Forgotten
      <3>6. QED
        BY <2>1, <3>3, <3>4, <3>5 DEF Ending, Owing
    <2>5. Total(held, Handles) <= Total(out, Owing)
      BY <2>2, <2>3, <2>4, TotalGrows
    <2>6. Total(held, Handles) \in Nat /\ Total(out, Owing) \in Nat
      BY <2>2, <2>3, TotalType
    <2>7. QED
      BY <2>1, <2>2, <2>5, <2>6, SizesAssumption DEF Room, Held
  <1>4. QED
    BY <1>1, <1>2, <1>3, PTL DEF Spec
-----------------------------------------------------------------------------
(* Nobody waits for nobody: the safety part of QueuesDrain.                *)

(* The host task goes back to its events only when the queues are empty or *)
(* no credit is left, unless an mbuf was missing: a task that queues a     *)
(* packet, or a section that returns credits, is never overlooked by       *)
(* ble_hs_wakeup_tx.                                                       *)
NoLostWakeup ==
    host.at = "idle" /\ "nofrag" \notin faults =>
        \A h \in Handles : txq[h] # <<>> => avail = 0

(* While the queues are served, those passed already are empty.            *)
Woken ==
    "nofrag" \notin faults =>
        /\ NoLostWakeup
        /\ host.at = "first" => host.i <= Len(conns)
        /\ host.at = "all" => \A i \in 1 .. Len(conns) : i < host.i => txq[conns[i]] = <<>>

(* A packet has to wait only when the last credit is spent.                *)
LEMMA AgainSpent ==
    ASSUME TypeOK, NEW h \in Handles, NEW p \in Packets, p.done < p.of, NEW o \in Results,
           TxNow(h, p, o), "nofrag" \notin faults'
    PROVE  /\ "nofrag" \notin faults /\ avail' \in Nat
           /\ o.res = "again" \/ avail = 0 => avail' = 0
  <1> DEFINE want == Min({p.of - p.done, avail})
  <1>1. /\ p.of \in Nat /\ p.done \in Nat /\ avail \in Nat /\ o.n \in Nat
    BY SizesAssumption DEF Packets, Results, TypeOK
  <1>2. o.n <= avail /\ avail' = avail - o.n /\ p.done + o.n <= p.of
    BY TxNowFacts DEF HandOver
  <1>3. "nofrag" \notin faults /\ (o \in Outcomes(h, p) \/ o \in NoMem(h, p))
    BY DEF TxNow, Blame
  <1>4. want = IF p.of - p.done <= avail THEN p.of - p.done ELSE avail
    BY <1>1, MinPair
  <1>5. ASSUME o.res = "again" PROVE avail' = 0
    <2>1. o \in Outcomes(h, p)
      BY <1>3, <1>5 DEF NoMem
    <2> HIDE DEF want
    <2>2. PICK k \in (IF h \in links THEN {Min({want, Room})} ELSE {0, want}) :
             o = [n |-> k, res |-> IF k < want THEN "error" ELSE Ended(p, k)]
      BY <2>1 DEF Outcomes, want
    <2>3. o.n = k /\ ~(k < want) /\ p.done + k # p.of
      BY <1>5, <2>2 DEF Ended
    <2>4. QED
      BY <1>1, <1>2, <1>4, <2>3
  <1>6. QED
    BY <1>1, <1>2, <1>3, <1>5

(* The connection that ble_hs_wakeup_tx_conn serves, and its packet.       *)
LEMMA ServedFacts ==
    ASSUME Ordered, host.at \in {"first", "all"}, host.i <= Len(conns),
           NEW h, h = conns[host.i], txq[h] # <<>>
    PROVE  /\ h \in Handles /\ Connected(h) /\ host.i \in 1 .. Len(conns)
           /\ Head(txq[h]) \in Packets /\ Head(txq[h]).done < Head(txq[h]).of
  <1>1. host.i \in 1 .. Len(conns)
    BY OrderedTypes DEF HostWorks, HostStates
  <1>2. conns \in Seq(Handles)
    BY OrderedTypes
  <1>3. h \in Handles
    BY <1>1, <1>2
  <1>4. Connected(h)
    BY <1>1 DEF Connected, Contains
  <1>5. PICK q \in Seq(Packets) : q = txq[h] /\ q # <<>> /\ FragOK(q, Len(q), frag[h])
    BY <1>3, OrderedTypes DEF Queues, QueueOK
  <1>6. Head(q) = q[1] /\ Head(q) \in Packets /\ 1 \in 1 .. Len(q)
    BY <1>5
  <1>7. QED
    BY <1>1, <1>3, <1>4, <1>5, <1>6 DEF FragOK

LEMMA ServeWoken ==
    ASSUME Ordered, Woken, WakeupTxConn
    PROVE  Woken'
  <1> SUFFICES ASSUME "nofrag" \notin faults' PROVE Woken'
    BY DEF Woken
  <1>0. /\ conns \in Seq(Handles) /\ IsInjective(conns) /\ txq \in [Handles -> Seq(Packets)]
        /\ Len(conns) \in Nat /\ DOMAIN conns = 1 .. Len(conns) /\ TypeOK
    BY OrderedTypes DEF Ordered, Types
  <1> DEFINE h == conns[host.i]
             q == txq[h]
  <1>1. PICK o \in Results : /\ TxNow(h, Head(q), o)
                             /\ txq' = [txq EXCEPT ![h] = Rest(Head(q), o) \o Tail(q)]
                             /\ host' = IF o.res = "again" THEN Idle ELSE host
    BY DEF WakeupTxConn
  <1>2. /\ host.at \in {"first", "all"} /\ host.i <= Len(conns) /\ q # <<>>
        /\ UNCHANGED <<conns, sent, links, events, honest>>
    BY DEF WakeupTxConn
  <1>3. /\ h \in Handles /\ host.i \in 1 .. Len(conns)
        /\ Head(q) \in Packets /\ Head(q).done < Head(q).of
    BY <1>2, ServedFacts
  <1>4. "nofrag" \notin faults /\ (o.res = "again" => avail' = 0)
    BY <1>0, <1>1, <1>3, AgainSpent
  <1>5. CASE o.res = "again"
    BY <1>1, <1>4, <1>5 DEF Woken, NoLostWakeup, Idle
  <1>6. CASE o.res # "again"
    <2>1. host' = host
      BY <1>1, <1>6
    <2>2. ASSUME NEW i \in 1 .. Len(conns), i < host.i, host.at = "all"
          PROVE  txq'[conns[i]] = <<>>
      <3>1. conns[i] # h
        <4>1. i # host.i
          BY <1>0, <1>3, <2>2
        <4>2. QED
          BY <1>0, <1>3, <4>1 DEF IsInjective
      <3>2. conns[i] \in Handles
        BY <1>0
      <3>3. txq'[conns[i]] = txq[conns[i]]
        BY <1>0, <1>1, <3>1, <3>2
      <3>4. QED
        BY <1>4, <2>2, <3>3 DEF Woken
    <2>3. QED
      BY <1>2, <2>1, <2>2 DEF Woken, NoLostWakeup
  <1>7. QED
    BY <1>5, <1>6

LEMMA WakeupWoken ==
    ASSUME Ordered, Woken, WakeupTx \/ WakeupTxConn \/ WakeupNext
    PROVE  Woken'
  <1> SUFFICES ASSUME "nofrag" \notin faults' PROVE Woken'
    BY DEF Woken
  <1>0. /\ conns \in Seq(Handles) /\ IsInjective(conns) /\ txq \in [Handles -> Seq(Packets)]
        /\ host \in HostStates /\ Forgotten /\ Len(conns) \in Nat /\ DOMAIN conns = 1 .. Len(conns)
        /\ TypeOK
    BY OrderedTypes DEF Ordered, Types
  <1>1. CASE WakeupTx
    <2> DEFINE I == {i \in 1 .. Len(conns) : frag[conns[i]]}
               k == SelectInSeq(conns, LAMBDA h : frag[h])
    <2>1. k = IF I # {} THEN Min(I) ELSE 0
      BY DEF SelectInSeq
    <2>2. I \in SUBSET Nat
      BY <1>0
    <2>3. k > 0 => k \in I
      <3> HIDE DEF I, k
      <3>1. QED
        BY <2>1, <2>2, MinIsIn
    <2>4. k > 0 => k <= Len(conns)
      BY <1>0, <2>3
    <2>5. host' = IF k > 0 THEN [at |-> "first", h |-> 0, i |-> k]
                           ELSE [at |-> "all", h |-> 0, i |-> 1]
      BY <1>1 DEF WakeupTx
    <2> HIDE DEF I, k
    <2>6. conns' = conns
      BY <1>1 DEF WakeupTx, connVars
    <2>7. CASE k > 0
      BY <2>4, <2>5, <2>6, <2>7 DEF Woken, NoLostWakeup
    <2>8. CASE ~(k > 0)
      <3>1. host'.at = "all" /\ host'.i = 1
        BY <2>5, <2>8
      <3>2. \A i \in 1 .. Len(conns) : ~(i < 1)
        BY <1>0
      <3>3. QED
        BY <2>6, <3>1, <3>2 DEF Woken, NoLostWakeup
    <2>9. QED
      BY <2>7, <2>8
  <1>2. CASE WakeupTxConn
    BY <1>2, ServeWoken
  <1>3. CASE WakeupNext
    <2>1. /\ host.at \in {"first", "all"} /\ (host.i <= Len(conns) => txq[conns[host.i]] = <<>>)
          /\ host' = (IF host.i > Len(conns) THEN Idle
                      ELSE IF host.at = "first" THEN [at |-> "all", h |-> 0, i |-> 1]
                      ELSE [host EXCEPT !.i = host.i + 1])
          /\ conns' = conns /\ txq' = txq /\ faults' = faults
      BY <1>3 DEF WakeupNext, connVars
    <2>2. host.i \in Nat
      BY <1>0 DEF HostStates
    <2>3. CASE host.i > Len(conns)
      <3>1. host.at = "all" /\ \A i \in 1 .. Len(conns) : txq[conns[i]] = <<>>
        BY <1>0, <2>1, <2>2, <2>3 DEF Woken
      <3>2. \A h \in Handles : txq[h] = <<>>
        BY <1>0, <3>1 DEF Forgotten, Connected, Contains
      <3>3. QED
        BY <2>1, <2>3, <3>2 DEF Woken, NoLostWakeup, Idle
    <2>4. CASE ~(host.i > Len(conns)) /\ host.at = "first"
      <3>1. host'.at = "all" /\ host'.i = 1
        BY <2>1, <2>4
      <3>2. \A i \in 1 .. Len(conns) : ~(i < 1)
        BY <1>0
      <3>3. QED
        BY <2>1, <3>1, <3>2 DEF Woken, NoLostWakeup
    <2>5. CASE ~(host.i > Len(conns)) /\ host.at = "all"
      <3>1. host'.at = "all" /\ host'.i = host.i + 1
        BY <1>0, <2>1, <2>5 DEF HostStates
      <3>2. ASSUME NEW i \in 1 .. Len(conns), i < host.i + 1 PROVE txq[conns[i]] = <<>>
        <4>1. i < host.i \/ i = host.i
          BY <2>2, <3>2
        <4>2. QED
          BY <1>0, <2>1, <2>2, <2>5, <4>1 DEF Woken
      <3>3. QED
        BY <2>1, <3>1, <3>2 DEF Woken, NoLostWakeup
    <2>6. QED
      BY <2>1, <2>3, <2>4, <2>5
  <1>4. QED
    BY <1>1, <1>2, <1>3

LEMMA TasksWoken ==
    ASSUME Ordered, Woken, NEW h \in Handles, NEW n \in 1 .. MaxFrags, Queue(h, n) \/ Transmit(h, n)
    PROVE  Woken'
  <1> SUFFICES ASSUME "nofrag" \notin faults' PROVE Woken'
    BY DEF Woken
  <1>1. /\ host' = host /\ conns' = conns /\ host.at \notin {"first", "all"}
    BY DEF Queue, Transmit, Sending, Unlocked
  <1>2. txq \in [Handles -> Seq(Packets)] /\ TypeOK
    BY OrderedTypes DEF Ordered, Types
  <1> SUFFICES ASSUME host.at = "idle", NEW x \in Handles, txq'[x] # <<>> PROVE avail' = 0
    BY <1>1 DEF Woken, NoLostWakeup
  <1>3. CASE Queue(h, n)
    <2>1. /\ txq[h] # <<>> /\ avail' = avail /\ faults' = faults
          /\ txq' = [txq EXCEPT ![h] = Append(txq[h], NewPacket(n))]
      BY <1>3 DEF Queue
    <2>2. QED
      BY <2>1 DEF Woken, NoLostWakeup
  <1>4. CASE Transmit(h, n)
    <2>1. PICK p \in Packets : p = NewPacket(n) /\ p.done = 0
      BY NewPacketType
    <2>2. PICK o \in Results : TxNow(h, p, o) /\ txq' = [txq EXCEPT ![h] = txq[h] \o Rest(p, o)]
      BY <1>4, <2>1 DEF Transmit
    <2>3. p.done < p.of
      BY <2>1, SizesAssumption DEF Packets
    <2>4. "nofrag" \notin faults /\ (o.res = "again" \/ avail = 0 => avail' = 0)
      BY <1>2, <2>2, <2>3, AgainSpent
    <2>5. CASE x = h
      <3>1. txq[h] = <<>>
        BY <1>4 DEF Transmit
      <3>2. o.res # "again" => txq'[h] = <<>>
        BY <1>2, <2>2, <3>1 DEF Rest
      <3>3. QED
        BY <2>4, <2>5, <3>2
    <2>6. CASE x # h
      <3>1. txq'[x] = txq[x]
        BY <1>2, <2>2, <2>6
      <3>2. QED
        BY <2>4, <3>1 DEF Woken, NoLostWakeup
    <2>7. QED
      BY <2>5, <2>6
  <1>5. QED
    BY <1>3, <1>4

LEMMA WokenStep ==
    ASSUME Ordered, Woken, [Next]_vars
    PROVE  Woken'
  <1> SUFFICES ASSUME "nofrag" \notin faults' PROVE Woken'
    BY DEF Woken
  <1>0. host \in HostStates /\ Forgotten
    BY OrderedTypes
  <1>1. CASE WakeupTx \/ WakeupTxConn \/ WakeupNext
    BY <1>1, WakeupWoken
  <1>2. CASE ConnComplete
    <2>1. host.at = "idle" /\ UNCHANGED <<txq, avail, host, faults>>
      BY <1>2 DEF ConnComplete, Event
    <2>2. QED
      BY <2>1 DEF Woken, NoLostWakeup
  <1>3. CASE NumCompletedPkts \/ DisconnComplete \/ ConnBroken \/ StartReset \/ ResetState
    <2>1. host'.at \in {"wake", "broken", "reset"}
      BY <1>0, <1>3 DEF NumCompletedPkts, DisconnComplete, ConnBroken, StartReset, ResetState,
                        HostStates
    <2>2. QED
      BY <2>1 DEF Woken, NoLostWakeup
  <1>4. CASE SetBufSz
    <2>1. conns = <<>> /\ txq' = txq /\ host' = Idle
      BY <1>4 DEF SetBufSz, connVars
    <2>2. \A h \in Handles : txq[h] = <<>>
      BY <1>0, <2>1 DEF Forgotten, Connected, Contains
    <2>3. QED
      BY <2>1, <2>2 DEF Woken, NoLostWakeup, Idle
  <1>5. CASE TaskStep
    BY <1>5, TasksWoken DEF TaskStep
  <1>6. CASE LlStep \/ UNCHANGED vars
    <2>1. UNCHANGED <<conns, txq, avail, host>> /\ "nofrag" \notin faults
      BY <1>6 DEF LlStep, LlConnect, LlDisconnect, LlTermFailure, LlDuplicate, LlComplete, Blame,
                  LlVarsHost, connVars, vars
    <2>2. QED
      BY <2>1 DEF Woken, NoLostWakeup
  <1>7. QED
    BY <1>1, <1>2, <1>3, <1>4, <1>5, <1>6 DEF Next, HostStep

(* Whatever the tasks and the controller do between the locked sections of *)
(* the host task, ble_hs_wakeup_tx leaves no packet waiting that could be  *)
(* sent: a host task that waits for events has empty queues or no credits. *)
(* The code does not promise it when an mbuf for a fragment was missing.   *)
THEOREM NoLostWakeupAlways == Spec => []NoLostWakeup
  <1>1. Init => Ordered /\ Woken
    BY InitOrdered DEF Init, Idle, Woken, NoLostWakeup
  <1>2. Ordered /\ Woken /\ [Next]_vars => Ordered' /\ Woken'
    BY OrderedStep, WokenStep
  <1>3. Woken => NoLostWakeup
    BY DEF Woken, NoLostWakeup
  <1>4. QED
    BY <1>1, <1>2, <1>3, PTL DEF Spec
-----------------------------------------------------------------------------
(* Credits that are out come back.                                         *)

(* Of a live link every packet outstanding is held by the controller or    *)
(* its completion waits: the bound of Covered is exact unless a completion *)
(* was lost.                                                               *)
Backed ==
    honest /\ "lost" \notin faults =>
        \A h \in links : ~CoveredBy(events, Len(events), h, out[h], held[h] + 1)

(* The host knows of a connection, or will; it will hear of its end, or is *)
(* removing it.                                                            *)
Known(q, l, h) == Connected(h) \/ \E i \in 1 .. l : q[i].type = "conn" /\ q[i].h = h

Closing(q, l, h) ==
    \/ host.at = "broken" /\ host.h = h
    \/ \E i \in 1 .. l : q[i].type = "disc" /\ q[i].h = h

(* A connection has a link, or its end is under way.                       *)
Reported ==
    honest => \A h \in Handles :
        Known(events, Len(events), h) => h \in links \/ Closing(events, Len(events), h)

(* The credits of all packets waiting will be there: while a packet waits  *)
(* and the host task has nothing to do, the controller holds a fragment    *)
(* whose completion will wake the queues.                                  *)
NoStall ==
    honest /\ ~Starved /\ host.at = "idle" /\ (\E h \in Handles : txq[h] # <<>>) =>
        events # <<>> \/ \E g \in links : held[g] > 0

(* The completions that wait, taken back by n packets on both sides.       *)
LEMMA CoverLess ==
    ASSUME NEW q, NEW l \in Nat, NEW h, NEW a \in Nat, NEW b \in Nat, NEW n \in Nat,
           CoveredBy(q, l, h, a + n, b + n), \A i \in 1 .. l : Completes(q[i], h) \in Nat
    PROVE  CoveredBy(q, l, h, a, b)
  <1>1. PICK r \in [0 .. l -> Nat] : r[0] = a + n /\ b + n <= r[l] /\ Covers(r, q, l, h)
    BY DEF CoveredBy
  <1> DEFINE less == {j \in 0 .. l : r[l - j] < n}
  <1>2. less = {}
    <2> SUFFICES ASSUME less # {} PROVE FALSE
      OBVIOUS
    <2>1. PICK k : k \in less /\ \A y \in less : k <= y
      <3>1. less \in SUBSET Nat
        OBVIOUS
      <3> HIDE DEF less
      <3>2. QED
        BY <3>1, MinIsIn
    <2>2. k \in 0 .. l /\ r[l - k] < n /\ l - 0 = l /\ l \in 0 .. l
      BY <2>1
    <2>3. k # 0
      BY <1>1, <2>2
    <2>4. /\ k - 1 \in 0 .. l /\ ~(k <= k - 1) /\ l - (k - 1) \in 1 .. l
          /\ (l - (k - 1)) - 1 = l - k
      BY <2>2, <2>3
    <2>5. ~(r[l - (k - 1)] < n)
      BY <2>1, <2>4
    <2>6. PICK m \in 1 .. l : m = l - (k - 1) /\ m - 1 = l - k
      BY <2>4
    <2>7. r[m] + Completes(q[m], h) = r[m - 1] /\ Completes(q[m], h) \in Nat
      BY <1>1 DEF Covers
    <2>8. m \in 0 .. l /\ m - 1 \in 0 .. l /\ r[m] \in Nat /\ r[m - 1] \in Nat
      BY <1>1
    <2>9. QED
      BY <2>2, <2>5, <2>6, <2>7, <2>8
  <1>3. ASSUME NEW i \in 0 .. l PROVE r[i] \in Nat /\ r[i] - n \in Nat
    <2>1. l - i \in 0 .. l /\ l - (l - i) = i /\ r[i] \in Nat
      BY <1>1
    <2>2. ~(r[i] < n)
      BY <1>2, <2>1
    <2>3. QED
      BY <2>1, <2>2
  <1> HIDE DEF less
  <1> DEFINE r2 == [i \in 0 .. l |-> r[i] - n]
  <1>4. r2 \in [0 .. l -> Nat] /\ \A i \in 0 .. l : r2[i] = r[i] - n
    BY <1>3
  <1>5. 0 \in 0 .. l /\ l \in 0 .. l /\ \A i \in 1 .. l : i \in 0 .. l /\ i - 1 \in 0 .. l
    OBVIOUS
  <1> HIDE DEF r2
  <1>6. r2[0] = a /\ b <= r2[l]
    BY <1>1, <1>3, <1>4, <1>5
  <1>7. ASSUME NEW i \in 1 .. l PROVE r2[i] + Completes(q[i], h) = r2[i - 1]
    <2>1. r[i] + Completes(q[i], h) = r[i - 1] /\ Completes(q[i], h) \in Nat
      BY <1>1 DEF Covers
    <2>2. r[i] \in Nat /\ r2[i] = r[i] - n /\ r2[i - 1] = r[i - 1] - n
      BY <1>3, <1>4, <1>5
    <2>3. QED
      BY <2>1, <2>2
  <1>8. QED
    BY <1>4, <1>6, <1>7 DEF CoveredBy, Covers

(* The first event is put back.                                            *)
LEMMA CoverHead ==
    ASSUME NEW q, NEW l \in Nat, l > 0, NEW h, NEW a \in Nat, NEW b \in Nat,
           Completes(q[1], h) \in Nat, Completes(q[1], h) <= a,
           NEW t, \A i \in 1 .. l - 1 : t[i] = q[i + 1],
           CoveredBy(t, l - 1, h, a - Completes(q[1], h), b)
    PROVE  CoveredBy(q, l, h, a, b)
  <1>1. PICK c \in Nat : c = Completes(q[1], h) /\ c <= a
    OBVIOUS
  <1>2. PICK r \in [0 .. l - 1 -> Nat] :
           r[0] = a - c /\ b <= r[l - 1] /\ Covers(r, t, l - 1, h)
    BY <1>1 DEF CoveredBy
  <1> DEFINE r2 == [i \in 0 .. l |-> IF i = 0 THEN a ELSE r[i - 1]]
  <1>3. \A i \in 0 .. l : i # 0 => i - 1 \in 0 .. l - 1
    OBVIOUS
  <1>4. r2 \in [0 .. l -> Nat]
    BY <1>2, <1>3
  <1>5. r2[0] = a /\ \A i \in 1 .. l : r2[i] = r[i - 1]
    OBVIOUS
  <1>6. r2[l] = r[l - 1]
    BY <1>5
  <1> HIDE DEF r2
  <1>7. ASSUME NEW i \in 1 .. l PROVE r2[i] + Completes(q[i], h) = r2[i - 1]
    <2>1. CASE i = 1
      <3>1. r2[i] = a - c /\ r2[i - 1] = a /\ Completes(q[i], h) = c
        BY <1>1, <1>2, <1>5, <2>1
      <3>2. QED
        BY <1>1, <3>1
    <2>2. CASE i # 1
      <3>1. PICK j \in 1 .. l - 1 : i = j + 1
        <4>1. i - 1 \in 1 .. l - 1 /\ i = (i - 1) + 1
          BY <2>2
        <4>2. QED
          BY <4>1
      <3>2. j + 1 \in 1 .. l /\ j \in 1 .. l /\ (j + 1) - 1 = j
        BY <3>1
      <3>3. r2[j + 1] = r[j] /\ r2[j] = r[j - 1] /\ t[j] = q[j + 1]
        BY <1>5, <3>2
      <3>4. r[j] + Completes(t[j], h) = r[j - 1]
        BY <1>2 DEF Covers
      <3>5. QED
        BY <3>1, <3>2, <3>3, <3>4
    <2>3. QED
      BY <2>1, <2>2
  <1>8. QED
    BY <1>2, <1>4, <1>5, <1>6, <1>7 DEF CoveredBy, Covers

(* The last event is taken back.                                           *)
LEMMA CoverFront ==
    ASSUME NEW q, NEW l \in Nat, NEW h, NEW a \in Nat, NEW b \in Nat,
           NEW e, Completes(e, h) \in Nat,
           NEW t, t[l + 1] = e, \A i \in 1 .. l : t[i] = q[i], CoveredBy(t, l + 1, h, a, b)
    PROVE  CoveredBy(q, l, h, a, b + Completes(e, h))
  <1>1. PICK r \in [0 .. l + 1 -> Nat] : r[0] = a /\ b <= r[l + 1] /\ Covers(r, t, l + 1, h)
    BY DEF CoveredBy
  <1> DEFINE r2 == [i \in 0 .. l |-> r[i]]
  <1>2. \A i \in 0 .. l : i \in 0 .. l + 1
    OBVIOUS
  <1>3. r2 \in [0 .. l -> Nat] /\ \A i \in 0 .. l : r2[i] = r[i]
    BY <1>1, <1>2
  <1>4. 0 \in 0 .. l /\ l \in 0 .. l /\ l + 1 \in 1 .. l + 1 /\ (l + 1) - 1 = l
        /\ l + 1 \in 0 .. l + 1
    OBVIOUS
  <1>5. r[l + 1] + Completes(e, h) = r[l] /\ r[l + 1] \in Nat
    <2>1. r[l + 1] + Completes(t[l + 1], h) = r[(l + 1) - 1]
      BY <1>1, <1>4 DEF Covers
    <2>2. QED
      BY <1>1, <1>4, <2>1
  <1> HIDE DEF r2
  <1>6. r2[0] = a /\ b + Completes(e, h) <= r2[l]
    BY <1>1, <1>3, <1>4, <1>5
  <1>7. ASSUME NEW i \in 1 .. l PROVE r2[i] + Completes(q[i], h) = r2[i - 1]
    <2>1. i \in 0 .. l /\ i - 1 \in 0 .. l /\ i \in 1 .. l + 1 /\ t[i] = q[i]
      OBVIOUS
    <2>2. r[i] + Completes(t[i], h) = r[i - 1]
      BY <1>1, <2>1 DEF Covers
    <2>3. QED
      BY <1>3, <2>1, <2>2
  <1>8. QED
    BY <1>3, <1>6, <1>7 DEF CoveredBy, Covers

LEMMA TailIndex ==
    ASSUME Ordered, events # <<>>, NEW t, t = Tail(events), NEW l, l = Len(events)
    PROVE  /\ l \in Nat /\ l > 0 /\ Len(t) = l - 1 /\ events[1] = Head(events)
           /\ \A i \in 1 .. l - 1 : t[i] = events[i + 1]
  <1>1. EventsOK(events)
    BY OrderedTypes
  <1>2. /\ Head(events) = events[1] /\ 1 \in 1 .. Len(events) /\ Len(events) \in Nat
        /\ Len(t) = Len(events) - 1 /\ DOMAIN t = 1 .. Len(events) - 1
        /\ \A i \in DOMAIN t : t[i] = events[i + 1]
    BY <1>1, TailEvents
  <1>3. QED
    BY <1>2

LEMMA AppendIndex ==
    ASSUME Ordered, NEW e \in Events, NEW t, t = Append(events, e), NEW l, l = Len(events)
    PROVE  /\ l \in Nat /\ Len(t) = l + 1 /\ t[l + 1] = e
           /\ \A i \in 1 .. l : t[i] = events[i]
  <1>1. events \in Seq(Events)
    BY OrderedTypes DEF EventsOK
  <1>2. QED
    BY <1>1, AppendProperties

(* The first event is handled, and packets it completes are outstanding no *)
(* longer.                                                                 *)
LEMMA TakenBacked ==
    ASSUME Credits, Backed, honest, events # <<>>, NEW e, e = Head(events),
           events' = Tail(events), links' = links, held' = held, faults' = faults,
           \A x \in Handles : out'[x] = out[x] - Completes(e, x)
    PROVE  Backed'
  <1> SUFFICES ASSUME "lost" \notin faults, NEW x \in links,
                      CoveredBy(events', Len(events'), x, out'[x], held[x] + 1)
               PROVE  FALSE
    BY DEF Backed
  <1>1. PICK t : t = events' /\ t = Tail(events)
    OBVIOUS
  <1>0. PICK l \in Nat : l = Len(events)
    BY CompletionTypes DEF Credits
  <1>2. /\ l = Len(events) /\ l > 0 /\ Len(t) = l - 1 /\ events[1] = e
        /\ \A i \in 1 .. l - 1 : t[i] = events[i + 1]
    BY <1>0, <1>1, TailIndex DEF Credits
  <1>3. x \in Handles /\ out[x] \in Nat /\ held[x] \in Nat /\ held[x] + 1 \in Nat
    BY OrderedTypes DEF Credits
  <1>4. Completes(e, x) \in Nat /\ Completes(e, x) <= out[x]
    BY <1>1, <1>3, TailFacts
  <1>5. CoveredBy(t, l - 1, x, out[x] - Completes(events[1], x), held[x] + 1)
    BY <1>1, <1>2, <1>3
  <1>6. l > 0 /\ Completes(events[1], x) \in Nat /\ Completes(events[1], x) <= out[x]
    BY <1>2, <1>4
  <1>7. \A i \in 1 .. l - 1 : t[i] = events[i + 1]
    BY <1>2
  <1>8. CoveredBy(events, l, x, out[x], held[x] + 1)
    BY <1>3, <1>5, <1>6, <1>7, CoverHead
  <1>9. QED
    BY <1>2, <1>8 DEF Backed

LEMMA TakenReported ==
    ASSUME Credits, Reported, honest, events # <<>>, NEW e, e = Head(events),
           events' = Tail(events), links' = links, host.at = "idle", e.type # "disc",
           \A x \in Handles : Connected(x)' => Connected(x) \/ (e.type = "conn" /\ e.h = x)
    PROVE  Reported'
  <1> SUFFICES ASSUME NEW x \in Handles, Known(events, Len(events), x)'
               PROVE  x \in links \/ Closing(events, Len(events), x)'
    BY DEF Reported
  <1>1. PICK t : t = events' /\ t = Tail(events)
    OBVIOUS
  <1>0. PICK l \in Nat : l = Len(events)
    BY CompletionTypes DEF Credits
  <1>2. /\ l = Len(events) /\ l > 0 /\ Len(t) = l - 1 /\ events[1] = e
        /\ \A i \in 1 .. l - 1 : t[i] = events[i + 1]
    BY <1>0, <1>1, TailIndex DEF Credits
  <1>3. 1 \in 1 .. l /\ \A i \in 1 .. l - 1 : i + 1 \in 1 .. l
    BY <1>2
  <1>4. Known(events, l, x)
    <2>1. CASE Connected(x)'
      BY <1>2, <1>3, <2>1 DEF Known
    <2>2. CASE \E i \in 1 .. l - 1 : t[i].type = "conn" /\ t[i].h = x
      BY <1>2, <1>3, <2>2 DEF Known
    <2>3. QED
      BY <1>1, <1>2, <2>1, <2>2 DEF Known
  <1>5. x \in links \/ Closing(events, l, x)
    BY <1>2, <1>4 DEF Reported
  <1>6. CASE Closing(events, l, x)
    <2>1. PICK i \in 1 .. l : events[i].type = "disc" /\ events[i].h = x
      BY <1>6 DEF Closing
    <2>2. i # 1
      BY <1>2, <2>1
    <2>3. i - 1 \in 1 .. l - 1 /\ (i - 1) + 1 = i
      BY <2>2
    <2>4. t[i - 1] = events[i]
      BY <1>2, <2>3
    <2>5. QED
      BY <1>1, <1>2, <2>1, <2>3, <2>4 DEF Closing
  <1>7. QED
    BY <1>5, <1>6

(* The controller reports event e; a link that comes up is new to both.    *)
LEMMA AddedBacked ==
    ASSUME Credits, Backed, honest, NEW e \in Events, events' = Append(events, e), out' = out,
           faults' = faults, held' \in [Handles -> Nat], links' \subseteq Handles,
           \A x \in links' : \/ x \in links /\ held[x] = held'[x] + Completes(e, x)
                             \/ out[x] = 0 /\ held'[x] = 0
    PROVE  Backed'
  <1> SUFFICES ASSUME "lost" \notin faults, NEW x \in links',
                      CoveredBy(events', Len(events'), x, out[x], held'[x] + 1)
               PROVE  FALSE
    BY DEF Backed
  <1>1. PICK t : t = events' /\ t = Append(events, e)
    OBVIOUS
  <1>0. PICK l \in Nat : l = Len(events)
    BY CompletionTypes DEF Credits
  <1>2. /\ l = Len(events) /\ Len(t) = l + 1 /\ t[l + 1] = e
        /\ \A i \in 1 .. l : t[i] = events[i]
    BY <1>0, <1>1, AppendIndex DEF Credits
  <1>3. /\ x \in Handles /\ out[x] \in Nat /\ held[x] \in Nat /\ held'[x] \in Nat
        /\ held'[x] + 1 \in Nat
    BY OrderedTypes DEF Credits
  <1>4. Completes(e, x) \in Nat
    BY CompletesType
  <1>5. CoveredBy(t, l + 1, x, out[x], held'[x] + 1)
    BY <1>1, <1>2
  <1>6. t[l + 1] = e /\ \A i \in 1 .. l : t[i] = events[i]
    BY <1>2
  <1>7. CASE x \in links /\ held[x] = held'[x] + Completes(e, x)
    <2>1. CoveredBy(events, l, x, out[x], (held'[x] + 1) + Completes(e, x))
      BY <1>3, <1>4, <1>5, <1>6, CoverFront
    <2>2. (held'[x] + 1) + Completes(e, x) = held[x] + 1
      BY <1>3, <1>4, <1>7
    <2>3. QED
      BY <1>2, <1>7, <2>1, <2>2 DEF Backed
  <1>8. CASE out[x] = 0 /\ held'[x] = 0
    <2>1. \A i \in 1 .. l + 1 : Completes(t[i], x) \in Nat
      <3>1. \A i \in 1 .. l : Completes(events[i], x) \in Nat
        BY <1>2, CompletionTypes DEF Credits
      <3>2. \A i \in 1 .. l + 1 : i \in 1 .. l \/ i = l + 1
        OBVIOUS
      <3>3. QED
        BY <1>4, <1>6, <3>1, <3>2
    <2>2. l + 1 \in Nat
      OBVIOUS
    <2>3. held'[x] + 1 <= out[x]
      BY <1>3, <1>5, <2>1, <2>2, CoverBound
    <2>4. QED
      BY <1>8, <2>3
  <1>9. QED
    BY <1>7, <1>8

LEMMA AddedReported ==
    ASSUME Credits, Reported, honest, NEW e \in Events, events' = Append(events, e),
           conns' = conns, host' = host, e.type = "conn" => e.h \in links',
           \A x \in links : x \in links' \/ (e.type = "disc" /\ e.h = x)
    PROVE  Reported'
  <1> SUFFICES ASSUME NEW x \in Handles, Known(events, Len(events), x)'
               PROVE  x \in links' \/ Closing(events, Len(events), x)'
    BY DEF Reported
  <1>1. PICK t : t = events' /\ t = Append(events, e)
    OBVIOUS
  <1>0. PICK l \in Nat : l = Len(events)
    BY CompletionTypes DEF Credits
  <1>2. /\ l = Len(events) /\ Len(t) = l + 1 /\ t[l + 1] = e
        /\ \A i \in 1 .. l : t[i] = events[i]
    BY <1>0, <1>1, AppendIndex DEF Credits
  <1>3. /\ l + 1 \in 1 .. l + 1 /\ \A i \in 1 .. l : i \in 1 .. l + 1
        /\ \A i \in 1 .. l + 1 : i \in 1 .. l \/ i = l + 1
    OBVIOUS
  <1>4. Known(t, l + 1, x)
    BY <1>1, <1>2 DEF Known, Connected
  <1>5. Known(events, l, x) \/ x \in links'
    BY <1>2, <1>3, <1>4 DEF Known
  <1>6. x \in links \/ Closing(events, l, x) \/ x \in links'
    BY <1>2, <1>5 DEF Reported
  <1>7. x \in links' \/ Closing(t, l + 1, x)
    BY <1>2, <1>3, <1>6 DEF Closing
  <1>8. QED
    BY <1>1, <1>2, <1>7 DEF Closing

(* Fragments are handed over on connection h.                              *)
LEMMA MovedBacked ==
    ASSUME Credits, Backed, Reported, honest, NEW h \in Handles, NEW p, NEW o, o.n \in Nat,
           HandOver(h, p, o), faults \subseteq faults', UNCHANGED <<conns, links, events>>,
           host' = host \/ (host.at # "broken" /\ host'.at # "broken")
    PROVE  Backed' /\ Reported'
  <1>1. PICK n \in Nat : n = o.n
    OBVIOUS
  <1>2. /\ out' = [out EXCEPT ![h] = out[h] + n]
        /\ held' = (IF h \in links THEN [held EXCEPT ![h] = held[h] + n] ELSE held)
    BY <1>1 DEF HandOver
  <1>3. out \in [Handles -> Nat] /\ held \in [Handles -> Nat] /\ links \subseteq Handles
    BY OrderedTypes DEF Credits
  <1>4. Reported'
    BY DEF Reported, Known, Closing, Connected
  <1>5. Backed'
    <2> SUFFICES ASSUME "lost" \notin faults, NEW x \in links,
                        CoveredBy(events, Len(events), x, out'[x], held'[x] + 1)
                 PROVE  FALSE
      BY DEF Backed
    <2>1. x \in Handles /\ out[x] \in Nat /\ held[x] \in Nat /\ held[x] + 1 \in Nat
      BY <1>3
    <2>2. PICK l \in Nat : l = Len(events) /\ \A i \in 1 .. l : Completes(events[i], x) \in Nat
      BY CompletionTypes DEF Credits
    <2>3. CASE x = h
      <3>1. out'[x] = out[x] + n /\ held'[x] + 1 = (held[x] + 1) + n
        BY <1>2, <1>3, <2>1, <2>3
      <3>2. CoveredBy(events, l, x, out[x] + n, (held[x] + 1) + n)
        BY <2>2, <3>1
      <3>3. CoveredBy(events, l, x, out[x], held[x] + 1)
        BY <2>1, <2>2, <3>2, CoverLess
      <3>4. QED
        BY <2>2, <3>3 DEF Backed
    <2>4. CASE x # h
      <3>1. out'[x] = out[x] /\ held'[x] = held[x]
        BY <1>2, <1>3, <2>1, <2>4
      <3>2. QED
        BY <3>1 DEF Backed
    <2>5. QED
      BY <2>3, <2>4
  <1>6. QED
    BY <1>4, <1>5

LEMMA ConnCompleteBacked ==
    ASSUME Credits, Backed, Reported, honest, ConnComplete
    PROVE  Backed' /\ Reported'
  <1> DEFINE e == Head(events)
  <1>1. /\ conns' = (IF Connected(e.h) THEN conns ELSE <<e.h>> \o conns)
        /\ events' = Tail(events) /\ events # <<>> /\ e.type = "conn" /\ host.at = "idle"
        /\ e.h \in Handles /\ UNCHANGED <<out, links, held, faults>>
    BY EventFacts DEF ConnComplete, Event, llVars, Credits
  <1> HIDE DEF e
  <1>2. \A x \in Handles : out'[x] = out[x] - Completes(e, x)
    <2>1. \A x \in Handles : Completes(e, x) = 0 /\ out[x] \in Nat
      BY <1>1, OrderedTypes DEF Completes, Credits
    <2>2. QED
      BY <1>1, <2>1
  <1>3. \A x \in Handles : Connected(x)' => Connected(x) \/ e.h = x
    <2>1. CASE Connected(e.h)
      BY <1>1, <2>1 DEF Connected
    <2>2. CASE ~Connected(e.h)
      <3>1. \A x : Contains(conns', x) <=> Contains(conns, x) \/ x = e.h
        BY <1>1, <2>2, OrderedTypes, ConsFacts DEF Connected, Credits
      <3>2. QED
        BY <3>1 DEF Connected
    <2>3. QED
      BY <2>1, <2>2
  <1>4. QED
    BY <1>1, <1>2, <1>3, TakenBacked, TakenReported DEF e

LEMMA NumCompletedBacked ==
    ASSUME Credits, Backed, Reported, honest, NumCompletedPkts
    PROVE  Backed' /\ Reported'
  <1> DEFINE e == Head(events)
  <1>1. /\ events # <<>> /\ e.type = "comp" /\ host.at = "idle" /\ e.h \in Handles
        /\ UNCHANGED <<conns, links, held, faults>>
    BY EventFacts DEF NumCompletedPkts, Event, llVars, Credits
  <1>2. /\ e.n \in Nat
        /\ \A x \in Handles : Completes(e, x) \in Nat /\ Completes(e, x) <= out[x]
    BY <1>1, TailFacts
  <1>3. /\ Completes(e, e.h) = e.n /\ \A x \in Handles : x # e.h => Completes(e, x) = 0
    BY <1>1 DEF Completes
  <1>4. out \in [Handles -> Nat] /\ out[e.h] \in Nat /\ e.n <= out[e.h]
    BY <1>1, <1>2, <1>3, OrderedTypes DEF Credits
  <1>5. /\ events' = Tail(events)
        /\ out' = (IF Connected(e.h) THEN [out EXCEPT ![e.h] = out[e.h] - e.n] ELSE out)
    <2>1. ~(out[e.h] < e.n)
      BY <1>2, <1>4
    <2>2. QED
      BY <2>1 DEF NumCompletedPkts
  <1>6. ~Connected(e.h) => e.n = 0
    <2>1. ~Connected(e.h) => out[e.h] = 0
      BY <1>1, OrderedTypes DEF Forgotten, Credits
    <2>2. QED
      BY <1>2, <1>4, <2>1
  <1> HIDE DEF e
  <1>7. ASSUME NEW x \in Handles PROVE out'[x] = out[x] - Completes(e, x)
    <2>1. out[x] \in Nat
      BY <1>4
    <2>2. CASE x # e.h
      <3>1. Completes(e, x) = 0 /\ out'[x] = out[x]
        BY <1>3, <1>4, <1>5, <2>2
      <3>2. QED
        BY <2>1, <3>1
    <2>3. CASE x = e.h /\ Connected(e.h)
      BY <1>3, <1>4, <1>5, <2>3
    <2>4. CASE x = e.h /\ ~Connected(e.h)
      <3>1. Completes(e, x) = 0 /\ out'[x] = out[x]
        BY <1>3, <1>5, <1>6, <2>4
      <3>2. QED
        BY <2>1, <3>1
    <2>5. QED
      BY <2>2, <2>3, <2>4
  <1>8. \A x \in Handles : Connected(x)' => Connected(x)
    BY <1>1 DEF Connected
  <1>9. QED
    BY <1>1, <1>5, <1>7, <1>8, TakenBacked, TakenReported DEF e

LEMMA DisconnBacked ==
    ASSUME Credits, Backed, Reported, honest, DisconnComplete
    PROVE  Backed' /\ Reported'
  <1> DEFINE e == Head(events)
             t == Tail(events)
  <1>1. /\ events # <<>> /\ e.type \in {"disc", "fail"} /\ host.at = "idle" /\ e.h \in Handles
        /\ events' = t /\ UNCHANGED <<conns, out, links, held, faults>>
    BY EventFacts DEF DisconnComplete, Event, connVars, llVars, Credits
  <1>2. /\ e.type # "fail"
        /\ e.type = "disc" => e.h \notin links /\ Silent(t, Len(t), e.h)
    BY <1>1, TailFacts
  <1>3. e.type = "disc" /\ Silent(t, Len(t), e.h)
    BY <1>1, <1>2
  <1>4. Connected(e.h) => host' = [at |-> "broken", h |-> e.h, i |-> 0]
    BY <1>3 DEF DisconnComplete
  <1> HIDE DEF e, t
  <1>5. \A x \in Handles : out'[x] = out[x] - Completes(e, x)
    <2>1. \A x \in Handles : Completes(e, x) = 0 /\ out[x] \in Nat
      BY <1>3, OrderedTypes DEF Completes, Credits
    <2>2. QED
      BY <1>1, <2>1
  <1>6. Backed'
    BY <1>1, <1>5, TakenBacked DEF e, t
  <1>7. Reported'
    <2> SUFFICES ASSUME NEW x \in Handles, Known(events, Len(events), x)'
                 PROVE  x \in links \/ Closing(events, Len(events), x)'
      BY <1>1 DEF Reported
    <2>1. PICK l \in Nat : l = Len(events)
      BY CompletionTypes DEF Credits
    <2>2. /\ l > 0 /\ Len(t) = l - 1 /\ events[1] = e
          /\ \A i \in 1 .. l - 1 : t[i] = events[i + 1]
      BY <1>1, <2>1, TailIndex DEF Credits, e, t
    <2>3. \A i \in 1 .. l - 1 : i + 1 \in 1 .. l
      BY <2>2
    <2>4. Connected(x) \/ \E i \in 1 .. l - 1 : t[i].type = "conn" /\ t[i].h = x
      BY <1>1, <2>2 DEF Known, Connected
    <2>5. Known(events, l, x)
      BY <2>2, <2>3, <2>4 DEF Known
    <2>6. x \in links \/ Closing(events, l, x)
      BY <2>1, <2>5 DEF Reported
    <2>7. CASE Closing(events, l, x)
      <3>1. PICK i \in 1 .. l : events[i].type = "disc" /\ events[i].h = x
        BY <1>1, <2>7 DEF Closing
      <3>2. CASE i = 1
        <4>1. x = e.h /\ ~\E j \in 1 .. l - 1 : t[j].h = x
          BY <1>3, <2>2, <3>1, <3>2 DEF Silent
        <4>2. Connected(x)
          BY <2>4, <4>1
        <4>3. QED
          BY <1>4, <4>1, <4>2 DEF Closing
      <3>3. CASE i # 1
        <4>1. i - 1 \in 1 .. l - 1 /\ (i - 1) + 1 = i
          BY <3>3
        <4>2. t[i - 1] = events[i]
          BY <2>2, <4>1
        <4>3. QED
          BY <1>1, <2>2, <3>1, <4>1, <4>2 DEF Closing
      <3>4. QED
        BY <3>2, <3>3
    <2>8. QED
      BY <2>6, <2>7
  <1>8. QED
    BY <1>6, <1>7

LEMMA BrokenBacked ==
    ASSUME Credits, Backed, Reported, honest, ConnBroken
    PROVE  Backed' /\ Reported'
  <1> DEFINE h == host.h
             l == Len(events)
  <1>1. /\ host.at = "broken" /\ host' = [at |-> "wake", h |-> 0, i |-> 0] /\ Forget(h)
        /\ UNCHANGED <<links, held, events, faults>>
    BY DEF ConnBroken, llVars
  <1>2. /\ h \in Handles /\ conns \in Seq(Handles) /\ IsInjective(conns)
        /\ out \in [Handles -> Nat] /\ links \subseteq Handles
    BY <1>1, OrderedTypes DEF HostWorks, Credits
  <1>3. h \notin links /\ Silent(events, l, h)
    BY <1>1, HonestFacts DEF Ending
  <1>4. \A x : Contains(conns', x) <=> Contains(conns, x) /\ x # h
    BY <1>1, <1>2, RemoveFacts DEF Forget
  <1>5. \A x \in Handles : x # h => out'[x] = out[x]
    BY <1>1, <1>2 DEF Forget
  <1>6. Backed'
    BY <1>1, <1>2, <1>3, <1>5 DEF Backed
  <1>7. Reported'
    <2> SUFFICES ASSUME NEW x \in Handles, Known(events, l, x)'
                 PROVE  x \in links \/ Closing(events, l, x)'
      BY <1>1 DEF Reported
    <2>1. Known(events, l, x) /\ x # h
      BY <1>1, <1>3, <1>4 DEF Known, Connected, Silent
    <2>2. x \in links \/ Closing(events, l, x)
      BY <2>1 DEF Reported
    <2>3. QED
      BY <1>1, <2>1, <2>2 DEF Closing
  <1>8. QED
    BY <1>6, <1>7

LEMMA ResetBacked ==
    ASSUME Credits, StartReset \/ ResetState \/ SetBufSz
    PROVE  Backed' /\ Reported'
  <1>1. CASE StartReset
    <2>1. honest' = honest /\ events # <<>> /\ Head(events).type = "reset"
      BY <1>1 DEF StartReset, Event
    <2>2. ~honest
      BY <2>1, TailFacts
    <2>3. QED
      BY <2>1, <2>2 DEF Backed, Reported
  <1>2. CASE ResetState
    BY <1>2, HonestFacts DEF ResetState, Backed, Reported
  <1>3. CASE SetBufSz
    <2>1. /\ conns = <<>> /\ conns' = conns /\ events' = events /\ links' = {}
          /\ (honest' => events = <<>>)
      BY <1>3 DEF SetBufSz, connVars
    <2>2. ASSUME honest', NEW x \in Handles PROVE ~Known(events, Len(events), x)'
      <3>1. Len(events') = 0 /\ ~Contains(conns', x)
        BY <2>1, <2>2 DEF Contains
      <3>2. QED
        BY <3>1 DEF Known, Connected
    <2>3. QED
      BY <2>1, <2>2 DEF Backed, Reported
  <1>4. QED
    BY <1>1, <1>2, <1>3

LEMMA ControllerBacked ==
    ASSUME Credits, Backed, Reported, honest, NEW h \in Handles,
           \/ LlConnect(h) \/ LlDisconnect(h) \/ LlTermFailure(h) \/ LlDuplicate(h)
           \/ \E n \in 1 .. MaxPkts : LlComplete(h, n)
    PROVE  Backed' /\ Reported'
  <1>1. /\ DOMAIN events = 1 .. Len(events) /\ out \in [Handles -> Nat]
        /\ held \in [Handles -> Nat] /\ held[h] \in Nat /\ links \subseteq Handles
    BY OrderedTypes DEF Credits, EventsOK
  <1>2. CASE LlConnect(h)
    <2> DEFINE e == [type |-> "conn", h |-> h, n |-> 0]
    <2>1. e \in Events /\ e.type = "conn" /\ e.h = h /\ \A x : Completes(e, x) = 0
      BY DEF Events, Completes
    <2>2. /\ events' = Append(events, e) /\ links' = links \cup {h} /\ held' = held
          /\ h \notin links /\ UNCHANGED <<conns, out, host, faults>>
      BY <1>2 DEF LlConnect, Report, LlVarsHost, connVars
    <2>3. held[h] = 0
      BY <2>2, HonestFacts DEF Covered
    <2>4. ~Connected(h)
      <3>1. \A i \in 1 .. Len(events) : events[i].h # h
        BY <1>1, <1>2 DEF LlConnect
      <3>2. ASSUME Connected(h) PROVE FALSE
        <4>1. h \in Zombies
          BY <1>2, <3>2 DEF LlConnect
        <4>2. Closing(events, Len(events), h)
          BY <2>2, <3>2 DEF Reported, Known
        <4>3. QED
          BY <3>1, <4>1, <4>2 DEF Closing, Zombies
      <3>3. QED
        BY <3>2
    <2>5. out[h] = 0
      BY <2>4, OrderedTypes DEF Forgotten, Credits
    <2> HIDE DEF e
    <2>6. \A x \in links' : \/ x \in links /\ held[x] = held'[x] + Completes(e, x)
                            \/ out[x] = 0 /\ held'[x] = 0
      <3>1. \A x \in links : held[x] \in Nat /\ held[x] = held[x] + 0
        BY <1>1
      <3>2. QED
        BY <2>1, <2>2, <2>3, <2>5, <3>1
    <2>7. Backed'
      BY <1>1, <2>1, <2>2, <2>6, AddedBacked
    <2>8. Reported'
      BY <2>1, <2>2, AddedReported
    <2>9. QED
      BY <2>7, <2>8
  <1>3. CASE LlDisconnect(h)
    <2> DEFINE e == [type |-> "disc", h |-> h, n |-> 0]
    <2>1. e \in Events /\ e.type = "disc" /\ e.h = h /\ \A x : Completes(e, x) = 0
      BY DEF Events, Completes
    <2>2. /\ events' = Append(events, e) /\ links' = links \ {h} /\ held' = [held EXCEPT ![h] = 0]
          /\ UNCHANGED <<conns, out, host, faults>>
      BY <1>3 DEF LlDisconnect, Report, LlVarsHost, connVars
    <2> HIDE DEF e
    <2>3. /\ held' \in [Handles -> Nat]
          /\ \A x \in links' : x \in links /\ held[x] = held'[x] + Completes(e, x)
      BY <1>1, <2>1, <2>2
    <2>4. Backed'
      BY <1>1, <2>1, <2>2, <2>3, AddedBacked
    <2>5. Reported'
      BY <2>1, <2>2, AddedReported
    <2>6. QED
      BY <2>4, <2>5
  <1>4. CASE LlTermFailure(h) \/ LlDuplicate(h)
    BY <1>4 DEF LlTermFailure, LlDuplicate, Backed, Reported
  <1>5. ASSUME NEW n \in 1 .. MaxPkts, LlComplete(h, n) PROVE Backed' /\ Reported'
    <2>1. /\ n \in Nat /\ n <= held[h] /\ held' = [held EXCEPT ![h] = held[h] - n]
          /\ UNCHANGED <<conns, out, host, links>>
      BY <1>5, SizesAssumption DEF LlComplete, LlVarsHost, connVars
    <2>2. /\ held' \in [Handles -> Nat] /\ held[h] = held'[h] + n
          /\ \A x \in Handles : x # h => held[x] = held'[x] + 0
      BY <1>1, <2>1
    <2>3. CASE Report("comp", h, n) /\ UNCHANGED faults
      <3> DEFINE e == [type |-> "comp", h |-> h, n |-> n]
      <3>1. /\ e \in Events /\ e.type = "comp" /\ Completes(e, h) = n
            /\ \A x : x # h => Completes(e, x) = 0
        BY <2>1 DEF Events, Completes
      <3>2. events' = Append(events, e) /\ faults' = faults
        BY <2>3 DEF Report
      <3> HIDE DEF e
      <3>3. \A x \in links' : x \in links /\ held[x] = held'[x] + Completes(e, x)
        BY <1>1, <2>1, <2>2, <3>1
      <3>4. Backed'
        BY <1>1, <2>1, <2>2, <3>1, <3>2, <3>3, AddedBacked
      <3>5. Reported'
        BY <2>1, <3>1, <3>2, AddedReported
      <3>6. QED
        BY <3>4, <3>5
    <2>4. CASE Blame("lost") /\ UNCHANGED events
      <3>1. Backed'
        BY <2>4 DEF Backed, Blame
      <3>2. Reported'
        BY <2>1, <2>4 DEF Reported, Known, Closing, Connected
      <3>3. QED
        BY <3>1, <3>2
    <2>5. QED
      BY <1>5, <2>3, <2>4 DEF LlComplete
  <1>6. QED
    BY <1>2, <1>3, <1>4, <1>5

LEMMA SendsBacked ==
    ASSUME Credits, Backed, Reported, honest, NEW h \in Handles, NEW n \in 1 .. MaxFrags,
           Transmit(h, n)
    PROVE  Backed' /\ Reported'
  <1>1. PICK p \in Packets : p = NewPacket(n) /\ p.done = 0
    BY NewPacketType DEF Credits
  <1>2. PICK o \in Results : TxNow(h, p, o)
    BY <1>1 DEF Transmit
  <1>3. p.done < p.of /\ TypeOK
    BY <1>1, SizesAssumption DEF Packets, Credits, Ordered, Types
  <1>4. o.n \in Nat /\ HandOver(h, p, o) /\ faults \subseteq faults'
    BY <1>2, <1>3, TxNowFacts DEF TxNow, Blame
  <1>5. UNCHANGED <<conns, host, links, events>>
    BY DEF Transmit, Sending
  <1>6. QED
    BY <1>4, <1>5, MovedBacked

LEMMA ServeBacked ==
    ASSUME Credits, Backed, Reported, honest, WakeupTxConn
    PROVE  Backed' /\ Reported'
  <1> DEFINE h == conns[host.i]
             p == Head(txq[h])
  <1>1. PICK o \in Results : /\ TxNow(h, p, o)
                             /\ host' = IF o.res = "again" THEN Idle ELSE host
    BY DEF WakeupTxConn
  <1>2. /\ host.at \in {"first", "all"} /\ host.i <= Len(conns) /\ txq[h] # <<>>
        /\ UNCHANGED <<conns, links, events>>
    BY DEF WakeupTxConn
  <1>3. h \in Handles /\ p \in Packets /\ p.done < p.of
    BY <1>2, ServedFacts DEF Credits
  <1> HIDE DEF h, p
  <1>4. o.n \in Nat /\ HandOver(h, p, o) /\ faults \subseteq faults'
    BY <1>1, <1>3, TxNowFacts DEF Credits, Ordered, Types, TxNow, Blame
  <1>5. host' = host \/ (host.at # "broken" /\ host'.at # "broken")
    BY <1>1, <1>2 DEF Idle
  <1>6. QED
    BY <1>2, <1>3, <1>4, <1>5, MovedBacked

LEMMA BackedStep ==
    ASSUME Credits, Backed, Reported, [Next]_vars
    PROVE  Backed' /\ Reported'
  <1>1. CASE SetBufSz
    BY <1>1, ResetBacked
  <1> SUFFICES ASSUME ~SetBufSz PROVE Backed' /\ Reported'
    BY <1>1
  <1>2. honest' => honest
    BY DEF Next, HostStep, WakeupTx, WakeupTxConn, WakeupNext, ConnComplete, NumCompletedPkts,
           DisconnComplete, ConnBroken, StartReset, ResetState, TaskStep, Queue, Transmit, Sending,
           LlStep, LlConnect, LlDisconnect, LlTermFailure, LlDuplicate, LlComplete, LlVarsHost, vars
  <1> SUFFICES ASSUME honest PROVE Backed' /\ Reported'
    BY <1>2 DEF Backed, Reported
  <1>3. CASE WakeupTx \/ WakeupNext \/ (\E h \in Handles, n \in 1 .. MaxFrags : Queue(h, n))
             \/ UNCHANGED vars
    <2>1. /\ UNCHANGED <<conns, out, links, held, events, faults>>
          /\ host' = host \/ (host.at # "broken" /\ host'.at # "broken")
      <3>1. CASE WakeupTx
        BY <3>1 DEF WakeupTx, connVars, llVars
      <3>2. CASE WakeupNext
        <4>1. host.at \in {"first", "all"} /\ host'.at \in {"idle", "first", "all"}
          BY <3>2, OrderedTypes DEF WakeupNext, Idle, HostStates, Credits
        <4>2. QED
          BY <3>2, <4>1 DEF WakeupNext, connVars, llVars
      <3>3. CASE \E h \in Handles, n \in 1 .. MaxFrags : Queue(h, n)
        BY <3>3 DEF Queue, Sending
      <3>4. CASE UNCHANGED vars
        BY <3>4 DEF vars, connVars, llVars
      <3>5. QED
        BY <1>3, <3>1, <3>2, <3>3, <3>4
    <2>2. Backed'
      BY <2>1 DEF Backed
    <2>3. Reported'
      BY <2>1 DEF Reported, Known, Closing, Connected
    <2>4. QED
      BY <2>2, <2>3
  <1>4. CASE HostStep
    BY <1>3, <1>4, ServeBacked, ConnCompleteBacked, NumCompletedBacked, DisconnBacked, BrokenBacked,
       ResetBacked DEF HostStep
  <1>5. CASE TaskStep
    BY <1>3, <1>5, SendsBacked DEF TaskStep
  <1>6. CASE LlStep
    BY <1>6, ControllerBacked DEF LlStep
  <1>7. QED
    BY <1>3, <1>4, <1>5, <1>6 DEF Next

LEMMA InitBacked == ASSUME Init PROVE Backed /\ Reported
  <1>1. Len(events) = 0 /\ links = {} /\ \A x : ~Contains(conns, x)
    BY DEF Init, Contains
  <1>2. QED
    BY <1>1 DEF Backed, Reported, Known, Connected

(* A packet that waits always has somebody to wait for: while the host     *)
(* task has no event to handle, the controller holds a fragment of a live  *)
(* link, whose Number Of Completed Packets event will wake the queues, or  *)
(* whose disconnection will.  So no order of sending, completions and      *)
(* disconnections makes host and controller wait for each other, unless a  *)
(* completion or an mbuf was lost or all credits went to broken links.     *)
THEOREM NoStallAlways == Spec => []NoStall
  <1>1. Init => Credits /\ Woken /\ Backed /\ Reported
    BY InitOrdered, InitSolvent, InitBacked DEF Credits, Init, Idle, Woken, NoLostWakeup
  <1>2. Credits /\ Woken /\ Backed /\ Reported /\ [Next]_vars
          => Credits' /\ Woken' /\ Backed' /\ Reported'
    BY CreditsStep, WokenStep, BackedStep DEF Credits
  <1>3. Credits /\ Woken /\ Backed /\ Reported => NoStall
    <2> SUFFICES ASSUME Credits, Woken, Backed, Reported, honest, ~Starved, host.at = "idle",
                        NEW h \in Handles, txq[h] # <<>>, events = <<>>
                 PROVE  \E g \in links : held[g] > 0
      BY DEF NoStall
    <2>1. avail = 0
      BY DEF Woken, NoLostWakeup, Starved
    <2>2. /\ out \in [Handles -> Nat] /\ held \in [Handles -> Nat] /\ gone \in Nat
          /\ links \subseteq Handles
      BY OrderedTypes DEF Credits
    <2>3. avail + Total(out, Owing) + gone = MaxPkts /\ gone < MaxPkts
      BY <2>2, HonestFacts, SizesAssumption DEF Starved
    <2>4. \E g \in Owing : out[g] > 0
      <3> SUFFICES ASSUME \A g \in Owing : ~(out[g] > 0) PROVE FALSE
        OBVIOUS
      <3>1. \A g \in Owing : out[g] = 0
        BY <2>2 DEF Owing
      <3>2. \A g \in Owing : 1 .. out[g] = {}
        BY <3>1
      <3>3. Buffers(out, Owing) = {}
        BY <3>2 DEF Buffers
      <3>4. Total(out, Owing) = 0
        BY <3>3, FS_EmptySet DEF Total
      <3>5. QED
        BY <2>1, <2>2, <2>3, <3>4, SizesAssumption
    <2>5. PICK g \in Handles : Connected(g) /\ out[g] > 0
      BY <2>4 DEF Owing
    <2>6. Len(events) = 0
      OBVIOUS
    <2>7. g \in links
      BY <2>5, <2>6 DEF Reported, Known, Closing
    <2>8. out[g] \in Nat /\ held[g] \in Nat
      BY <2>2
    <2>9. ASSUME held[g] = 0 PROVE FALSE
      <3> DEFINE r == [i \in 0 .. 0 |-> out[g]]
      <3>1. r \in [0 .. 0 -> Nat] /\ r[0] = out[g] /\ held[g] + 1 <= r[0]
        BY <2>5, <2>8, <2>9
      <3>2. Covers(r, events, 0, g)
        BY DEF Covers
      <3> HIDE DEF r
      <3>3. CoveredBy(events, 0, g, out[g], held[g] + 1)
        BY <3>1, <3>2 DEF CoveredBy
      <3>4. QED
        BY <2>6, <2>7, <3>3 DEF Backed, Starved
    <2>10. QED
      BY <2>7, <2>8, <2>9
  <1>4. QED
    BY <1>1, <1>2, <1>3, PTL DEF Spec
=============================================================================
