----------------------------- MODULE GattsProofs ----------------------------
(***************************************************************************)
(* For every set of peers, tasks and characteristics, every assignment of  *)
(* notify and indicate to them and every bound: at most one indication per *)
(* peer is unanswered, errors taken for confirmations apart; the store     *)
(* holds the subscriptions that bonded peers were told are stored, and     *)
(* marks the changes that they do not know of until the confirmation is    *)
(* received; and an update that is pending always has something that will  *)
(* send it, but for the two steps that abandon it and for a connection     *)
(* whose slot no confirmation can free any more.                           *)
(***************************************************************************)
EXTENDS Gatts, FiniteSetTheorems, SequenceTheorems, WellFoundedInduction, TLAPS

-----------------------------------------------------------------------------
(* The store.                                                              *)

(* The search finds the one record of a peer and a characteristic.         *)
LEMMA FindFinds ==
    ASSUME NEW s, IsTable(s), NEW p, NEW c
    PROVE  /\ Find(s, p, c) \in 0 .. Len(s)
           /\ Find(s, p, c) > 0 => /\ Find(s, p, c) \in DOMAIN s
                                   /\ s[Find(s, p, c)].p = p /\ s[Find(s, p, c)].c = c
           /\ \A i \in DOMAIN s : s[i].p = p /\ s[i].c = c => Find(s, p, c) = i
  <1> DEFINE I == {i \in 1 .. Len(s) : s[i].p = p /\ s[i].c = c}
  <1>1. Find(s, p, c) = IF I # {} THEN Min(I) ELSE 0
    BY DEF Find, SelectInSeq
  <1>2. \A i \in I : \A j \in I : i = j
    BY DEF IsTable
  <1>3. ASSUME NEW i \in I PROVE Min(I) = i
    <2>1. i <= i /\ i \in Nat
      OBVIOUS
    <2> HIDE DEF I
    <2>2. QED
      BY <1>2, <1>3, <2>1 DEF Min
  <1>4. s \in Seq(Record) /\ DOMAIN s = 1 .. Len(s) /\ Len(s) \in Nat
    BY DEF IsTable
  <1>5. QED
    BY <1>1, <1>3, <1>4

(* The positions of the other records are not changed by a write.          *)
LEMMA WriteFinds ==
    ASSUME IsTable(recs), NEW r \in Record, WriteCccd(r)
    PROVE  /\ IsTable(recs') /\ DOMAIN recs \subseteq DOMAIN recs'
           /\ \A i \in DOMAIN recs : recs'[i].p = recs[i].p /\ recs'[i].c = recs[i].c
           /\ \A i \in DOMAIN recs' : recs'[i] = IF i = Find(recs', r.p, r.c) THEN r ELSE recs[i]
           /\ Find(recs', r.p, r.c) \in DOMAIN recs'
           /\ Index(r.p, r.c) > 0 => DOMAIN recs' = DOMAIN recs
           /\ Index(r.p, r.c) = 0 => DOMAIN recs' \ DOMAIN recs = {Find(recs', r.p, r.c)}
           /\ \A p, c : Index(p, c) > 0 \/ p # r.p \/ c # r.c => Find(recs', p, c) = Index(p, c)
  <1> DEFINE n == Index(r.p, r.c)
  <1>1. n \in 0 .. Len(recs) /\ recs \in Seq(Record) /\ Len(recs) \in Nat
        /\ DOMAIN recs = 1 .. Len(recs)
    BY FindFinds DEF Index, IsTable
  <1>2. CASE n > 0
    <2>1. recs' = [recs EXCEPT ![n] = r] /\ recs[n].p = r.p /\ recs[n].c = r.c
      BY <1>2, FindFinds DEF WriteCccd, Index
    <2>2. recs' \in Seq(Record) /\ DOMAIN recs' = DOMAIN recs /\ n \in DOMAIN recs
      BY <1>1, <1>2, <2>1
    <2>3. \A i \in DOMAIN recs : recs'[i] = IF i = n THEN r ELSE recs[i]
      BY <2>1, <2>2
    <2> HIDE DEF n
    <2>4. IsTable(recs')
      BY <2>1, <2>2, <2>3 DEF IsTable
    <2>5. \A i \in DOMAIN recs : recs'[i].p = recs[i].p /\ recs'[i].c = recs[i].c
      BY <2>1, <2>3
    <2>6. ASSUME NEW p, NEW c PROVE Find(recs', p, c) = Index(p, c)
      BY <1>1, <2>2, <2>4, <2>5, FindFinds DEF Index
    <2>7. Find(recs', r.p, r.c) = n
      BY <2>6 DEF n
    <2>8. QED
      BY <1>2, <2>2, <2>3, <2>4, <2>5, <2>6, <2>7 DEF n
  <1>3. CASE n = 0
    <2>1. recs' = Append(recs, r)
      BY <1>3 DEF WriteCccd
    <2>2. recs' \in Seq(Record) /\ DOMAIN recs' = 1 .. Len(recs) + 1
      BY <1>1, <2>1
    <2>3. recs'[Len(recs) + 1] = r /\ \A i \in DOMAIN recs : recs'[i] = recs[i]
      BY <1>1, <2>1
    <2>4. \A i \in DOMAIN recs : ~(recs[i].p = r.p /\ recs[i].c = r.c)
      BY <1>1, <1>3, FindFinds DEF Index
    <2> HIDE DEF n
    <2>5. IsTable(recs')
      BY <1>1, <2>2, <2>3, <2>4 DEF IsTable
    <2>6. Find(recs', r.p, r.c) = Len(recs) + 1
      BY <1>1, <2>2, <2>3, <2>5, FindFinds
    <2>7. ASSUME NEW p, NEW c, Index(p, c) > 0 PROVE Find(recs', p, c) = Index(p, c)
      <3>1. Index(p, c) \in DOMAIN recs /\ recs[Index(p, c)].p = p /\ recs[Index(p, c)].c = c
        BY <2>7, FindFinds DEF Index
      <3>2. QED
        BY <1>1, <2>2, <2>3, <2>5, <3>1, FindFinds
    <2>8. ASSUME NEW p, NEW c, Index(p, c) = 0, p # r.p \/ c # r.c PROVE Find(recs', p, c) = 0
      <3> SUFFICES ASSUME Find(recs', p, c) # 0 PROVE FALSE
        OBVIOUS
      <3>1. /\ Find(recs', p, c) \in DOMAIN recs'
            /\ recs'[Find(recs', p, c)].p = p /\ recs'[Find(recs', p, c)].c = c
        BY <2>5, FindFinds
      <3>2. Find(recs', p, c) \in DOMAIN recs
        BY <1>1, <2>2, <2>3, <2>8, <3>1
      <3>3. recs[Find(recs', p, c)].p = p /\ recs[Find(recs', p, c)].c = c
        BY <2>3, <3>1, <3>2
      <3>4. Index(p, c) = Find(recs', p, c)
        BY <3>2, <3>3, FindFinds DEF Index
      <3>5. QED
        BY <2>8, <3>4
    <2>9. \A p, c : Index(p, c) = 0 \/ Index(p, c) > 0
      BY <1>1, FindFinds DEF Index
    <2>10. QED
      BY <1>1, <1>3, <2>2, <2>3, <2>5, <2>6, <2>7, <2>8, <2>9 DEF n
  <1>4. QED
    BY <1>1, <1>2, <1>3

(* What is stored after a record was written.                              *)
LEMMA WriteStores ==
    ASSUME IsTable(recs), NEW r \in Record, WriteCccd(r)
    PROVE  \A p, c : Stored(p, c)' = IF p = r.p /\ c = r.c THEN r ELSE Stored(p, c)
  <1> SUFFICES ASSUME NEW p, NEW c
               PROVE  Stored(p, c)' = IF p = r.p /\ c = r.c THEN r ELSE Stored(p, c)
    OBVIOUS
  <1>1. CASE p = r.p /\ c = r.c
    BY <1>1, WriteFinds, FindFinds DEF Stored, Index
  <1>2. CASE ~(p = r.p /\ c = r.c)
    BY <1>2, WriteFinds, FindFinds DEF Stored, Index
  <1>3. QED
    BY <1>1, <1>2

LEMMA RemoveAtElements ==
    ASSUME NEW S, NEW s \in Seq(S), NEW n \in 1 .. Len(s)
    PROVE  /\ RemoveAt(s, n) \in Seq(S) /\ Len(RemoveAt(s, n)) = Len(s) - 1
           /\ \A i \in 1 .. Len(s) - 1 : RemoveAt(s, n)[i] = IF i < n THEN s[i] ELSE s[i + 1]
  <1> DEFINE lo == SubSeq(s, 1, n - 1)
             hi == SubSeq(s, n + 1, Len(s))
  <1>1. Len(s) \in Nat /\ \A i \in 1 .. Len(s) : s[i] \in S
    OBVIOUS
  <1>2. /\ lo \in Seq(S) /\ Len(lo) = n - 1
        /\ \A i \in 1 .. n - 1 : lo[i] = s[i]
    BY <1>1, SubSeqProperties
  <1>3. /\ hi \in Seq(S) /\ Len(hi) = Len(s) - n
        /\ \A i \in 1 .. Len(s) - n : hi[i] = s[n + i]
    BY <1>1, SubSeqProperties
  <1> HIDE DEF lo, hi
  <1>4. /\ lo \o hi \in Seq(S) /\ Len(lo \o hi) = Len(lo) + Len(hi)
        /\ \A i \in 1 .. Len(lo) + Len(hi) :
              (lo \o hi)[i] = IF i <= Len(lo) THEN lo[i] ELSE hi[i - Len(lo)]
    BY <1>2, <1>3, ConcatProperties
  <1>5. RemoveAt(s, n) = lo \o hi
    BY DEF RemoveAt, lo, hi
  <1>6. ASSUME NEW i \in 1 .. Len(s) - 1
        PROVE  RemoveAt(s, n)[i] = IF i < n THEN s[i] ELSE s[i + 1]
    <2>1. CASE i < n
      BY <1>1, <1>2, <1>3, <1>4, <1>5, <2>1
    <2>2. CASE i >= n
      <3>1. i - Len(lo) \in 1 .. Len(s) - n /\ n + (i - Len(lo)) = i + 1
        BY <1>1, <1>2, <2>2
      <3>2. (lo \o hi)[i] = hi[i - Len(lo)]
        BY <1>1, <1>2, <1>3, <1>4, <2>2
      <3>3. hi[i - Len(lo)] = s[n + (i - Len(lo))]
        BY <1>3, <3>1
      <3>4. QED
        BY <1>5, <2>2, <3>1, <3>2, <3>3
    <2>3. QED
      BY <1>1, <2>1, <2>2
  <1>7. RemoveAt(s, n) \in Seq(S)
    BY <1>4, <1>5
  <1>8. Len(RemoveAt(s, n)) = Len(s) - 1
    <2>1. (n - 1) + (Len(s) - n) = Len(s) - 1
      BY <1>1
    <2>2. Len(lo \o hi) = (n - 1) + (Len(s) - n)
      BY <1>2, <1>3, <1>4
    <2>3. QED
      BY <1>5, <2>1, <2>2
  <1>9. QED
    BY <1>6, <1>7, <1>8

(* What is stored after a record was deleted.                              *)
LEMMA DeleteStores ==
    ASSUME IsTable(recs), NEW q, NEW d, DeleteCccd(q, d)
    PROVE  /\ IsTable(recs')
           /\ \A p, c : Stored(p, c)' = IF p = q /\ c = d THEN NoRec ELSE Stored(p, c)
  <1> DEFINE n == Index(q, d)
  <1>1. n \in 0 .. Len(recs) /\ recs \in Seq(Record) /\ Len(recs) \in Nat
        /\ DOMAIN recs = 1 .. Len(recs)
    BY FindFinds DEF Index, IsTable
  <1>2. CASE n = 0
    <2>1. recs' = recs
      BY <1>2 DEF DeleteCccd
    <2>2. QED
      BY <1>2, <2>1 DEF Stored, Index
  <1>3. CASE n > 0
    <2>1. recs' = RemoveAt(recs, n)
      BY <1>3 DEF DeleteCccd
    <2>2. recs[n].p = q /\ recs[n].c = d /\ n \in DOMAIN recs
      BY <1>3, FindFinds DEF Index
    <2> HIDE DEF n
    <2>3. recs' \in Seq(Record) /\ Len(recs') = Len(recs) - 1
      BY <1>1, <2>1, <2>2, RemoveAtElements
    <2>4. \A i \in 1 .. Len(recs) - 1 : recs'[i] = IF i < n THEN recs[i] ELSE recs[i + 1]
      BY <1>1, <2>1, <2>2, RemoveAtElements
    <2>5. DOMAIN recs' = 1 .. Len(recs) - 1
      BY <1>1, <2>3
    <2>6. ASSUME NEW i \in DOMAIN recs', NEW j \in DOMAIN recs',
                 recs'[i].p = recs'[j].p, recs'[i].c = recs'[j].c
          PROVE  i = j
      <3> DEFINE up(k) == IF k < n THEN k ELSE k + 1
      <3>1. up(i) \in DOMAIN recs /\ up(j) \in DOMAIN recs
            /\ recs'[i] = recs[up(i)] /\ recs'[j] = recs[up(j)]
        BY <1>1, <2>4, <2>5
      <3>2. up(i) = up(j)
        BY <2>6, <3>1 DEF IsTable
      <3>3. QED
        BY <1>1, <2>5, <3>2
    <2>7. IsTable(recs')
      BY <2>3, <2>6 DEF IsTable
    <2>8. ASSUME NEW p, NEW c, p # q \/ c # d PROVE Stored(p, c)' = Stored(p, c)
      <3>1. CASE Index(p, c) > 0
        <4> DEFINE k == Index(p, c)
                   m == IF k < n THEN k ELSE k - 1
        <4>1. k \in DOMAIN recs /\ recs[k].p = p /\ recs[k].c = c /\ k # n
          BY <2>2, <2>8, <3>1, FindFinds DEF Index
        <4>2. m \in DOMAIN recs' /\ recs'[m] = recs[k]
          <5> HIDE DEF k
          <5>1. QED
            BY <1>1, <1>3, <2>4, <2>5, <4>1
        <4>3. Find(recs', p, c) = m /\ m > 0
          BY <2>5, <2>7, <4>1, <4>2, FindFinds
        <4>4. QED
          BY <3>1, <4>2, <4>3 DEF Stored, Index
      <3>2. CASE Index(p, c) = 0
        <4>1. Find(recs', p, c) = 0
          <5> SUFFICES ASSUME Find(recs', p, c) # 0 PROVE FALSE
            OBVIOUS
          <5> DEFINE m == Find(recs', p, c)
                     k == IF m < n THEN m ELSE m + 1
          <5>1. m \in DOMAIN recs' /\ recs'[m].p = p /\ recs'[m].c = c
            BY <2>7, FindFinds
          <5>2. k \in DOMAIN recs /\ recs[k] = recs'[m]
            <6> HIDE DEF m
            <6>1. QED
              BY <1>1, <2>4, <2>5, <5>1
          <5>3. Index(p, c) = k
            BY <5>1, <5>2, FindFinds DEF Index
          <5>4. QED
            BY <1>1, <3>2, <5>2, <5>3
        <4>2. QED
          BY <3>2, <4>1 DEF Stored, Index
      <3>3. QED
        BY <3>1, <3>2, FindFinds DEF Index
    <2>9. Stored(q, d)' = NoRec
      <3>1. Find(recs', q, d) = 0
        <4> SUFFICES ASSUME Find(recs', q, d) # 0 PROVE FALSE
          OBVIOUS
        <4> DEFINE m == Find(recs', q, d)
                   k == IF m < n THEN m ELSE m + 1
        <4>1. m \in DOMAIN recs' /\ recs'[m].p = q /\ recs'[m].c = d
          BY <2>7, FindFinds
        <4>2. k \in DOMAIN recs /\ recs[k] = recs'[m] /\ k # n
          <5> HIDE DEF m
          <5>1. QED
            BY <1>1, <2>4, <2>5, <4>1
        <4>3. QED
          BY <2>2, <4>1, <4>2 DEF IsTable
      <3>2. QED
        BY <3>1 DEF Stored, Index
    <2>10. QED
      BY <2>7, <2>8, <2>9
  <1>4. QED
    BY <1>1, <1>2, <1>3

-----------------------------------------------------------------------------
(* Types.                                                                  *)

(* What the host task, and what another task is working on.                *)
HostWorks(h) ==
    /\ h \in HostState
    /\ h.at \in {"tx", "bond"} => h.c \in Chars
    /\ h.at \in {"ackstore", "next", "cfgstore", "bond", "read", "restore", "sent", "broken"}
         => h.p \in Peers
    /\ h.at \in {"ackstore", "cfgstore", "restore", "sent"}
         => h.rec \in Record /\ h.rec.p = h.p

AppWorks(x) == x \in AppState /\ (x.at = "write" => x.rec \in Record)

Types == TypeOK /\ HostWorks(host) /\ \A a \in Apps : AppWorks(app[a])

LEMMA MinIsIn ==
    ASSUME NEW S \in SUBSET Nat, S # {}
    PROVE  Min(S) \in S /\ \A y \in S : Min(S) <= y
  <1> DEFINE R == OpToRel(<, Nat)
  <1>1. IsWellFoundedOn(R, Nat)
    BY NatLessThanWellFounded
  <1>2. \A x, y \in Nat : y < x => <<y, x>> \in R
    BY DEF OpToRel
  <1> HIDE DEF R
  <1>3. PICK x \in S : \A y \in S : ~(<<y, x>> \in R)
    BY <1>1, WFMin
  <1>4. ASSUME NEW y \in S PROVE x <= y
    <2>1. x \in Nat /\ y \in Nat /\ ~(<<y, x>> \in R)
      BY <1>3
    <2>2. ~(y < x)
      BY <1>2, <2>1
    <2>3. QED
      BY <2>1, <2>2
  <1>5. QED
    BY <1>4 DEF Min

LEMMA RecType ==
    ASSUME NEW p \in Peers, NEW c \in Chars, NEW k \in Flags
    PROVE  /\ Rec(p, c, k) \in Record
           /\ Rec(p, c, k).p = p /\ Rec(p, c, k).c = c
           /\ Rec(p, c, k).sub = k.sub
  BY DEF Rec, Record, Flags

(* Replacing one entry of a table of peers and characteristics.            *)
LEMMA EntryType ==
    ASSUME NEW S, NEW f \in [Peers -> [Chars -> S]], NEW p \in Peers, NEW c \in Chars, NEW x \in S
    PROVE  [f EXCEPT ![p][c] = x] \in [Peers -> [Chars -> S]]
  <1> DEFINE g == [f[p] EXCEPT ![c] = x]
  <1>1. g \in [Chars -> S]
    OBVIOUS
  <1>2. [f EXCEPT ![p][c] = x] = [f EXCEPT ![p] = g]
    OBVIOUS
  <1> HIDE DEF g
  <1>3. QED
    BY <1>1, <1>2

LEMMA EntryValue ==
    ASSUME NEW S, NEW f \in [Peers -> [Chars -> S]], NEW p \in Peers, NEW c \in Chars, NEW x,
           NEW g, g = [f EXCEPT ![p][c] = x], NEW q \in Peers, NEW d \in Chars
    PROVE  g[q][d] = IF q = p /\ d = c THEN x ELSE f[q][d]
  OBVIOUS

LEMMA ModType ==
    ASSUME NEW f \in [Peers -> [Chars -> Flags]], NEW p \in Peers, NEW c \in Chars,
           NEW m \in BOOLEAN
    PROVE  [f EXCEPT ![p][c].mod = m] \in [Peers -> [Chars -> Flags]]
  <1> DEFINE k == [f[p][c] EXCEPT !.mod = m]
  <1>1. f[p][c] \in Flags
    OBVIOUS
  <1>2. k \in Flags
    BY <1>1 DEF Flags
  <1>3. [f EXCEPT ![p][c].mod = m] = [f EXCEPT ![p][c] = k]
    OBVIOUS
  <1> HIDE DEF k
  <1>4. [f EXCEPT ![p][c] = k] \in [Peers -> [Chars -> Flags]]
    BY <1>2, EntryType, Zenon
  <1>5. QED
    BY <1>3, <1>4

LEMMA FateType ==
    ASSUME TypeOK, NEW p \in Peers, NEW c \in Chars, NEW x \in Fates,
           fate' = fate \/ fate' = [fate EXCEPT ![p][c] = x]
    PROVE  fate' \in [Peers -> [Chars -> Fates]]
  <1>1. fate \in [Peers -> [Chars -> Fates]]
    BY DEF TypeOK
  <1>2. [fate EXCEPT ![p][c] = x] \in [Peers -> [Chars -> Fates]]
    BY <1>1, EntryType, Zenon
  <1>3. QED
    BY <1>1, <1>2

LEMMA MissedType ==
    ASSUME TypeOK, NEW p \in Peers, NEW c \in Chars, NEW x \in BOOLEAN,
           missed' = missed \/ missed' = [missed EXCEPT ![p][c] = x]
    PROVE  missed' \in [Peers -> [Chars -> BOOLEAN]]
  <1>1. missed \in [Peers -> [Chars -> BOOLEAN]]
    BY DEF TypeOK
  <1>2. [missed EXCEPT ![p][c] = x] \in [Peers -> [Chars -> BOOLEAN]]
    BY <1>1, EntryType, Zenon
  <1>3. QED
    BY <1>1, <1>2

(* What sending does to the queues and the slot of a peer.                 *)
LEMMA SendLinks ==
    ASSUME NEW p, NEW c, NEW op, Send(p, c, op)
    PROVE  \/ unconf' = unconf /\ ind' = ind /\ procs' = procs
           \/ /\ op = "indicate"
              /\ unconf' = [unconf EXCEPT ![p] = Append(@, c)]
              /\ ind' = [ind EXCEPT ![p] = c]
              /\ procs' = [procs EXCEPT ![p] = Append(@, c)]
  BY DEF Send, Notify, Indicate, SendFails

LEMMA SendTypes ==
    ASSUME TypeOK, NEW p \in Peers, NEW c \in Chars, NEW op, Send(p, c, op)
    PROVE  /\ unconf' \in [Peers -> Seq(Chars)] /\ ind' \in [Peers -> 0 .. NumChars]
           /\ procs' \in [Peers -> Seq(Chars)]
           /\ missed' \in [Peers -> [Chars -> BOOLEAN]] /\ used' \in [Bounded -> Nat]
           /\ fate' \in [Peers -> [Chars -> Fates]]
  <1>0. /\ unconf \in [Peers -> Seq(Chars)] /\ ind \in [Peers -> 0 .. NumChars]
        /\ procs \in [Peers -> Seq(Chars)] /\ c \in 0 .. NumChars
    BY CharsAssumption DEF TypeOK, Chars
  <1>1. Append(unconf[p], c) \in Seq(Chars) /\ Append(procs[p], c) \in Seq(Chars)
    BY <1>0
  <1>2. /\ unconf' \in [Peers -> Seq(Chars)] /\ ind' \in [Peers -> 0 .. NumChars]
        /\ procs' \in [Peers -> Seq(Chars)]
    <2>1. CASE unconf' = unconf /\ ind' = ind /\ procs' = procs
      BY <1>0, <2>1
    <2>2. CASE /\ unconf' = [unconf EXCEPT ![p] = Append(@, c)]
               /\ ind' = [ind EXCEPT ![p] = c]
               /\ procs' = [procs EXCEPT ![p] = Append(@, c)]
      BY <1>0, <1>1, <2>2
    <2>3. QED
      BY <2>1, <2>2, SendLinks
  <1>3. missed' = missed \/ missed' = [missed EXCEPT ![p][c] = FALSE]
    BY DEF Send, Notify, Indicate, SendFails
  <1>4. /\ used' \in [Bounded -> Nat]
        /\ \E x \in Fates : fate' = fate \/ fate' = [fate EXCEPT ![p][c] = x]
    BY DEF Send, Notify, Indicate, SendFails, TypeOK, Use, Bounded, Fates
  <1>5. missed' \in [Peers -> [Chars -> BOOLEAN]]
    BY <1>3, MissedType
  <1>6. QED
    BY <1>2, <1>4, <1>5, FateType

LEMMA IdleWorks == HostWorks(Idle) /\ AppWorks(AppIdle)
  BY CharsAssumption DEF HostWorks, AppWorks, Idle, AppIdle, HostState, AppState

LEMMA TypeInit == Init => Types
  <1> SUFFICES ASSUME Init PROVE Types
    OBVIOUS
  <1>1. NewCfg \in [Chars -> Flags]
    BY DEF NewCfg, Flags
  <1>2. IsTable(recs) /\ \A p \in Peers : unconf[p] \in Seq(Chars)
    BY DEF Init, IsTable
  <1>3. HostWorks(host) /\ \A a \in Apps : AppWorks(app[a])
    BY IdleWorks DEF Init
  <1>4. host \in HostState /\ app \in [Apps -> AppState]
    BY <1>3 DEF Init, HostWorks, AppWorks
  <1>5. /\ ind \in [Peers -> 0 .. NumChars] /\ unconf \in [Peers -> Seq(Chars)]
        /\ procs \in [Peers -> Seq(Chars)] /\ fate \in [Peers -> [Chars -> Fates]]
    BY CharsAssumption DEF Init, Fates
  <1>6. TypeOK
    BY <1>1, <1>2, <1>4, <1>5 DEF Init, TypeOK
  <1>7. QED
    BY <1>3, <1>6 DEF Types

(* The slot and the host task after an acknowledgement.                    *)
LEMMA AckTypes ==
    ASSUME Types, NEW p \in Peers, NEW c \in Chars, RxIndicateAck(p, c)
    PROVE  ind' \in [Peers -> 0 .. NumChars] /\ HostWorks(host') /\ host' \in HostState
  <1>1. ind' \in [Peers -> 0 .. NumChars]
    BY CharsAssumption DEF RxIndicateAck, Types, TypeOK
  <1>2. Rec(p, c, cfg[p][c]) \in Record /\ Rec(p, c, cfg[p][c]).p = p
    <2> DEFINE f == cfg[p][c]
    <2>1. f \in Flags
      BY DEF Types, TypeOK
    <2> HIDE DEF f
    <2>2. Rec(p, c, f) \in Record /\ Rec(p, c, f).p = p
      BY <2>1, RecType
    <2>3. QED
      BY <2>2 DEF f
  <1>3. \/ host' = Idle \/ host' = [Idle EXCEPT !.at = "next", !.p = p]
        \/ host' = [Idle EXCEPT !.at = "ackstore", !.p = p, !.rec = Rec(p, c, cfg[p][c])]
    BY DEF RxIndicateAck
  <1>4. HostWorks(host')
    <2>1. CASE host' = [Idle EXCEPT !.at = "ackstore", !.p = p, !.rec = Rec(p, c, cfg[p][c])]
      BY <1>2, <2>1 DEF HostWorks, HostState, Idle
    <2>2. CASE host' = [Idle EXCEPT !.at = "next", !.p = p]
      BY <2>2 DEF HostWorks, HostState, Idle
    <2>3. QED
      BY <1>3, <2>1, <2>2, IdleWorks
  <1>5. QED
    BY <1>1, <1>4 DEF HostWorks

LEMMA TypeStep == Types /\ [Next]_vars => Types'
  <1> SUFFICES ASSUME Types, [Next]_vars PROVE Types'
    OBVIOUS
  <1> USE DEF Types, linkVars, indVars, ghosts
  <1>0. 1 \in Chars /\ NumChars \in Nat /\ Chars \subseteq Nat /\ Chars \subseteq 0 .. NumChars
    BY CharsAssumption DEF Chars
  <1>a. /\ cfg \in [Peers -> [Chars -> Flags]] /\ owed \in [Peers -> [Chars -> (SUBSET Kinds) \cup {Nothing}]]
        /\ missed \in [Peers -> [Chars -> BOOLEAN]] /\ recs \in Seq(Record)
        /\ host \in HostState
    BY DEF TypeOK, IsTable
  <1>b. \A p \in Peers, c \in Chars : cfg[p][c] \in Flags
    BY <1>a
  <1>c. host.c + 1 \in Nat
    BY <1>a DEF HostState
  <1>1. CASE TxStart
    <2>1. HostWorks(host')
      BY <1>0, <1>1 DEF TxStart, HostWorks, HostState, Idle, Up
    <2>2. QED
      BY <1>1, <2>1 DEF TxStart, TypeOK, HostWorks
  <1>2. ASSUME NEW p \in Peers, TxOne(p) PROVE Types'
    <2>1. HostWorks(host') /\ host.c \in Chars
      BY <1>2 DEF TxOne, HostWorks, HostState
    <2>2. PICK m, op : /\ m \in BOOLEAN /\ cfg' = [cfg EXCEPT ![p][host.c].mod = m]
                       /\ Send(p, host.c, op)
      <3>1. \A op : (cfg[p][host.c].mod /\ op = "none") \in BOOLEAN
        OBVIOUS
      <3>2. QED
        BY <1>2, <3>1 DEF TxOne
    <2>3. [cfg EXCEPT ![p][host.c].mod = m] \in [Peers -> [Chars -> Flags]]
      BY <1>a, <2>1, <2>2, ModType, Zenon
    <2>4. QED
      BY <1>2, <2>1, <2>2, <2>3, SendTypes DEF TxOne, TypeOK, HostWorks
  <1>3. CASE TxNext
    <2>1. HostWorks(host')
      <3>1. CASE host.c < NumChars
        <4>1. host.c + 1 \in Nat /\ host.c + 1 \in Chars /\ Up \subseteq Peers /\ host.at = "tx"
          BY <1>0, <1>3, <3>1 DEF TxNext, HostWorks, Chars, Up
        <4>2. QED
          BY <1>3, <3>1, <4>1 DEF TxNext, HostWorks, HostState
      <3>2. CASE ~(host.c < NumChars)
        BY <1>3, <3>2, IdleWorks DEF TxNext
      <3>3. QED
        BY <3>1, <3>2
    <2>2. QED
      BY <1>3, <2>1 DEF TxNext, TypeOK, HostWorks
  <1>4. ASSUME NEW p \in Peers, IndicateRxRsp(p) PROVE Types'
    <2>0. hasty' \in [Peers -> Nat]
      <3>1. hasty \in [Peers -> Nat] /\ (IF hasty[p] > 0 THEN hasty[p] - 1 ELSE 0) \in Nat
        BY DEF TypeOK
      <3>2. hasty' = hasty \/ hasty' = [hasty EXCEPT ![p] = IF hasty[p] > 0 THEN hasty[p] - 1 ELSE 0]
        BY <1>4 DEF IndicateRxRsp
      <3>3. QED
        BY <3>1, <3>2
    <2>1. Tail(unconf[p]) \in Seq(Chars)
      BY <1>4 DEF IndicateRxRsp, TypeOK
    <2>2. unconf' \in [Peers -> Seq(Chars)]
      BY <1>4, <2>1 DEF IndicateRxRsp, TypeOK
    <2>3. CASE procs[p] = <<>>
      BY <1>4, <2>0, <2>1, <2>2, <2>3 DEF IndicateRxRsp, TypeOK, HostWorks
    <2>4. CASE procs[p] # <<>>
      <3> DEFINE c == Head(procs[p])
      <3>1. c \in Chars /\ Tail(procs[p]) \in Seq(Chars)
        BY <2>4 DEF TypeOK
      <3>2. RxIndicateAck(p, c) /\ procs' = [procs EXCEPT ![p] = Tail(procs[p])]
        BY <1>4, <2>4 DEF IndicateRxRsp
      <3>3. \E x \in BOOLEAN : missed' = [missed EXCEPT ![p][c] = x]
        BY <1>4, <1>a, <2>4, <3>1 DEF IndicateRxRsp
      <3>4. fate' = fate \/ fate' = [fate EXCEPT ![p][c] = "dropped"]
        BY <1>4, <2>4 DEF IndicateRxRsp
      <3> HIDE DEF c
      <3>5. fate' \in [Peers -> [Chars -> Fates]] /\ missed' \in [Peers -> [Chars -> BOOLEAN]]
        BY <3>1, <3>3, <3>4, FateType, MissedType DEF Fates
      <3>6. ind' \in [Peers -> 0 .. NumChars] /\ HostWorks(host') /\ host' \in HostState
        BY <3>1, <3>2, AckTypes
      <3>7. procs' \in [Peers -> Seq(Chars)]
        BY <3>1, <3>2 DEF TypeOK
      <3>8. QED
        BY <1>4, <2>0, <2>1, <2>2, <3>5, <3>6, <3>7 DEF IndicateRxRsp, TypeOK
    <2>5. QED
      BY <2>3, <2>4
  <1>23. ASSUME NEW p \in Peers, IndicateErr(p) PROVE Types'
    <2> DEFINE c == Head(procs[p])
    <2>1. c \in Chars /\ Tail(procs[p]) \in Seq(Chars)
      BY <1>23 DEF IndicateErr, TypeOK
    <2>2. RxIndicateAck(p, c) /\ procs' = [procs EXCEPT ![p] = Tail(procs[p])]
      BY <1>23 DEF IndicateErr
    <2>3. fate' = fate \/ fate' = [fate EXCEPT ![p][c] = "dropped"]
      BY <1>23 DEF IndicateErr
    <2>4. used' \in [Bounded -> Nat] /\ hasty' \in [Peers -> Nat]
      BY <1>23 DEF IndicateErr, Use, Bounded, TypeOK
    <2> HIDE DEF c
    <2>5. fate' \in [Peers -> [Chars -> Fates]]
      BY <2>1, <2>3, FateType DEF Fates
    <2>6. ind' \in [Peers -> 0 .. NumChars] /\ HostWorks(host') /\ host' \in HostState
      BY <2>1, <2>2, AckTypes
    <2>7. procs' \in [Peers -> Seq(Chars)]
      BY <2>1, <2>2 DEF TypeOK
    <2>8. QED
      BY <1>23, <2>4, <2>5, <2>6, <2>7 DEF IndicateErr, TypeOK
  <1>24. ASSUME NEW p \in Peers, IndicateTmo(p) PROVE Types'
    <2>1. Tail(procs[p]) \in Seq(Chars)
      BY <1>24 DEF IndicateTmo, TypeOK
    <2>2. procs' \in [Peers -> Seq(Chars)]
      BY <1>24, <2>1 DEF IndicateTmo, TypeOK
    <2>3. QED
      BY <1>24, <2>2 DEF IndicateTmo, TypeOK, HostWorks
  <1>5. CASE AckStore
    <2>1. IsTable(recs')
      BY <1>5, WriteFinds DEF AckStore, TypeOK, HostWorks
    <2>2. HostWorks(host')
      BY <1>5 DEF AckStore, HostWorks, HostState
    <2>3. QED
      BY <1>5, <2>1, <2>2 DEF AckStore, TypeOK, HostWorks
  <1>6. CASE SendNextIndicate
    <2> DEFINE M == {c \in Chars : cfg[host.p][c].mod}
    <2>1. host.p \in Peers /\ HostWorks(host')
      BY <1>6, IdleWorks DEF SendNextIndicate, HostWorks
    <2>2. CASE M = {}
      BY <1>6, <2>1, <2>2 DEF SendNextIndicate, TypeOK, HostWorks
    <2>3. CASE M # {}
      <3>1. Min(M) \in Chars
        BY <2>3, MinIsIn DEF Chars
      <3>2. cfg' = [cfg EXCEPT ![host.p][Min(M)].mod = FALSE] /\ Send(host.p, Min(M), "indicate")
        BY <1>6, <2>3 DEF SendNextIndicate
      <3> HIDE DEF M
      <3>3. [cfg EXCEPT ![host.p][Min(M)].mod = FALSE] \in [Peers -> [Chars -> Flags]]
        <4>1. FALSE \in BOOLEAN
          OBVIOUS
        <4>2. QED
          BY <1>a, <2>1, <3>1, <4>1, ModType, Zenon
      <3>4. QED
        BY <1>6, <2>1, <3>1, <3>2, <3>3, SendTypes DEF SendNextIndicate, TypeOK, HostWorks
    <2>4. QED
      BY <2>2, <2>3
  <1>7. ASSUME NEW p \in Peers, NEW c \in Chars, NEW s \in SUBSET Kinds, CltCfgWrite(p, c, s)
        PROVE  Types'
    <2> DEFINE k == [sub |-> s, mod |-> FALSE]
    <2>0. k \in Flags /\ cfg' = [cfg EXCEPT ![p][c] = k] /\ missed' = missed
          /\ owed' = [owed EXCEPT ![p][c] = Nothing]
      BY <1>7 DEF Flags, CltCfgWrite, ClaimOwed
    <2> HIDE DEF k
    <2>1. [cfg EXCEPT ![p][c] = k] \in [Peers -> [Chars -> Flags]]
      BY <1>a, <2>0, EntryType, Zenon
    <2>2. Rec(p, c, cfg'[p][c]) \in Record /\ Rec(p, c, cfg'[p][c]).p = p
      <3> DEFINE f == cfg'[p][c]
      <3>1. f \in Flags
        BY <2>0, <2>1
      <3> HIDE DEF f
      <3>2. Rec(p, c, f) \in Record /\ Rec(p, c, f).p = p
        BY <3>1, RecType
      <3>3. QED
        BY <3>2 DEF f
    <2>3. fate' \in [Peers -> [Chars -> Fates]]
      <3>1. fate' = fate \/ fate' = [fate EXCEPT ![p][c] = "dropped"]
        BY <1>7 DEF CltCfgWrite
      <3>2. QED
        BY <3>1, FateType DEF Fates
    <2>4. [owed EXCEPT ![p][c] = Nothing] \in [Peers -> [Chars -> (SUBSET Kinds) \cup {Nothing}]]
      BY <1>a, EntryType, Zenon
    <2>5. used' \in [Bounded -> Nat]
      BY <1>7 DEF CltCfgWrite, TypeOK, Use, Bounded
    <2>6. host' = host
          \/ host' = [Idle EXCEPT !.at = "cfgstore", !.p = p, !.rec = Rec(p, c, cfg'[p][c])]
      BY <1>7 DEF CltCfgWrite
    <2>7. HostWorks(host')
      <3>1. CASE host' = host
        BY <3>1
      <3>2. CASE host' = [Idle EXCEPT !.at = "cfgstore", !.p = p, !.rec = Rec(p, c, cfg'[p][c])]
        BY <2>2, <3>2 DEF HostWorks, HostState, Idle
      <3>3. QED
        BY <2>6, <3>1, <3>2
    <2>8. QED
      BY <1>7, <2>0, <2>1, <2>3, <2>4, <2>5, <2>7 DEF CltCfgWrite, TypeOK, HostWorks
  <1>8. CASE CltCfgStore
    <2>1. host.rec \in Record /\ HostWorks(host')
      BY <1>8, IdleWorks DEF CltCfgStore, HostWorks
    <2>2. IsTable(recs')
      BY <1>8, <2>1, WriteFinds, DeleteStores DEF CltCfgStore, TypeOK
    <2>3. owed' \in [Peers -> [Chars -> (SUBSET Kinds) \cup {Nothing}]]
      <3>1. host.rec.p \in Peers /\ host.rec.c \in Chars /\ host.rec.sub \in (SUBSET Kinds) \cup {Nothing}
        BY <2>1 DEF Record
      <3>2. [owed EXCEPT ![host.rec.p][host.rec.c] = host.rec.sub]
              \in [Peers -> [Chars -> (SUBSET Kinds) \cup {Nothing}]]
        BY <1>a, <3>1, EntryType, Zenon
      <3>3. QED
        BY <1>8, <3>2 DEF CltCfgStore, ClaimOwed
    <2>4. QED
      BY <1>8, <2>1, <2>2, <2>3 DEF CltCfgStore, TypeOK, HostWorks
  <1>9. ASSUME NEW p \in Peers, Bond(p) PROVE Types'
    <2>1. HostWorks(host')
      BY <1>0, <1>9 DEF Bond, HostWorks, HostState, Idle
    <2>2. QED
      BY <1>9, <2>1 DEF Bond, TypeOK, HostWorks
  <1>10. CASE BondingEstablished
    <2> DEFINE k == cfg[host.p][host.c]
    <2>1. host.p \in Peers /\ host.c \in Chars
      BY <1>10 DEF BondingEstablished, HostWorks
    <2>2. k \in Flags
      BY <1>b, <2>1
    <2>3. IsTable(recs')
      BY <1>10, <2>1, <2>2, RecType, WriteFinds DEF BondingEstablished, TypeOK
    <2>4. owed' \in [Peers -> [Chars -> (SUBSET Kinds) \cup {Nothing}]]
      <3>1. k.sub \in (SUBSET Kinds) \cup {Nothing}
        BY <2>2 DEF Flags
      <3>2. [owed EXCEPT ![host.p][host.c] = k.sub] \in [Peers -> [Chars -> (SUBSET Kinds) \cup {Nothing}]]
        BY <1>a, <2>1, <3>1, EntryType, Zenon
      <3>3. QED
        BY <1>10, <1>a, <3>2 DEF BondingEstablished, ClaimOwed
    <2>5. HostWorks(host')
      <3>1. CASE host.c < NumChars
        BY <1>0, <1>10, <2>1, <3>1 DEF BondingEstablished, HostWorks, HostState, Chars
      <3>2. CASE ~(host.c < NumChars)
        BY <1>10, <3>2, IdleWorks DEF BondingEstablished
      <3>3. QED
        BY <3>1, <3>2
    <2>6. QED
      BY <1>10, <2>3, <2>4, <2>5 DEF BondingEstablished, TypeOK, HostWorks
  <1>11. ASSUME NEW p \in Peers, Restore(p) PROVE Types'
    <2>1. HostWorks(host')
      BY <1>0, <1>11 DEF Restore, HostWorks, HostState, Idle
    <2>2. QED
      BY <1>11, <2>1 DEF Restore, TypeOK, HostWorks
  <1>12. CASE RestoreRead
    <2>1. host.p \in Peers
      BY <1>12 DEF RestoreRead, HostWorks
    <2>2. \A j \in OfPeer(host.p) : recs[j] \in Record /\ recs[j].p = host.p
      BY <1>a DEF OfPeer
    <2>3. HostWorks(host')
      <3>1. ASSUME NEW j \in OfPeer(host.p), host' = [host EXCEPT !.at = "restore", !.rec = recs[j]]
            PROVE  HostWorks(host')
        BY <2>1, <2>2, <3>1 DEF HostWorks, HostState
      <3>2. QED
        BY <1>12, <3>1, IdleWorks DEF RestoreRead
    <2>4. QED
      BY <1>12, <2>3 DEF RestoreRead, TypeOK, HostWorks
  <1>13. CASE BondingRestored
    <2>1. host.p \in Peers /\ host.rec \in Record /\ host.rec.p = host.p
      BY <1>13 DEF BondingRestored, HostWorks
    <2> DEFINE c == host.rec.c
               k == [sub |-> host.rec.sub, mod |-> host.rec.mod \/ host.rec.changed]
    <2>2. c \in Chars /\ k \in Flags
      BY <2>1 DEF Record, Flags
    <2>3. PICK op : /\ cfg' = [cfg EXCEPT ![host.p][c] = [sub |-> k.sub, mod |-> k.mod /\ op = "none"]]
                    /\ Reschedule(host.p, c, k.mod) \/ Send(host.p, c, op)
      BY <1>13 DEF BondingRestored
    <2>4. \/ host' = [host EXCEPT !.at = "sent"]
          \/ host' = [host EXCEPT !.at = "read", !.c = @ + 1, !.rec = NoRec]
      BY <1>13 DEF BondingRestored
    <2> HIDE DEF c, k
    <2>5. [sub |-> k.sub, mod |-> k.mod /\ op = "none"] \in Flags
      BY <2>2 DEF Flags
    <2>6. [cfg EXCEPT ![host.p][c] = [sub |-> k.sub, mod |-> k.mod /\ op = "none"]] \in [Peers -> [Chars -> Flags]]
      BY <1>a, <2>1, <2>2, <2>5, EntryType, Zenon
    <2>7. HostWorks(host')
      <3>1. CASE host' = [host EXCEPT !.at = "sent"]
        BY <2>1, <3>1 DEF HostWorks, HostState
      <3>2. CASE host' = [host EXCEPT !.at = "read", !.c = @ + 1, !.rec = NoRec]
        BY <1>c, <2>1, <3>2 DEF HostWorks, HostState
      <3>3. QED
        BY <2>4, <3>1, <3>2
    <2>8. ASSUME Reschedule(host.p, c, k.mod) PROVE fate' \in [Peers -> [Chars -> Fates]]
      <3>1. \E x \in Fates : fate' = fate \/ fate' = [fate EXCEPT ![host.p][c] = x]
        BY <2>8 DEF Reschedule, Fates
      <3>2. QED
        BY <2>1, <2>2, <3>1, FateType
    <2>9. /\ unconf' \in [Peers -> Seq(Chars)] /\ ind' \in [Peers -> 0 .. NumChars]
          /\ procs' \in [Peers -> Seq(Chars)] /\ fate' \in [Peers -> [Chars -> Fates]]
          /\ missed' \in [Peers -> [Chars -> BOOLEAN]] /\ used' \in [Bounded -> Nat]
      <3>1. CASE Reschedule(host.p, c, k.mod)
        BY <2>8, <3>1 DEF Reschedule, TypeOK
      <3>2. CASE Send(host.p, c, op)
        BY <2>1, <2>2, <3>2, SendTypes
      <3>3. QED
        BY <2>3, <3>1, <3>2
    <2>10. QED
      BY <1>13, <2>3, <2>6, <2>7, <2>9 DEF BondingRestored, TypeOK, HostWorks
  <1>14. CASE RestoreSent
    <2>1. host.rec \in Record /\ [host.rec EXCEPT !.changed = FALSE] \in Record
      BY <1>14 DEF RestoreSent, HostWorks, Record
    <2>2. IsTable(recs')
      BY <1>14, <2>1, WriteFinds DEF RestoreSent, TypeOK
    <2>3. HostWorks(host')
      <3>1. host.p \in Peers /\ host' = [host EXCEPT !.at = "read", !.c = @ + 1, !.rec = NoRec]
        BY <1>14 DEF RestoreSent, HostWorks
      <3>2. QED
        BY <1>a, <1>c, <3>1 DEF HostWorks, HostState
    <2>4. QED
      BY <1>14, <2>2, <2>3 DEF RestoreSent, TypeOK, HostWorks
  <1>15. ASSUME NEW p \in Peers, Connect(p) PROVE Types'
    <2>1. used' \in [Bounded -> Nat]
      BY <1>15 DEF Connect, TypeOK, Use, Bounded
    <2>2. QED
      BY <1>15, <2>1 DEF Connect, TypeOK, HostWorks
  <1>16. ASSUME NEW p \in Peers, ConnectionBroken(p) PROVE Types'
    <2>1. NewCfg \in [Chars -> Flags] /\ <<>> \in Seq(Chars)
      BY DEF NewCfg, Flags
    <2>2. HostWorks(host')
      BY <1>16 DEF ConnectionBroken, HostWorks, HostState, Idle
    <2>3. [c \in Chars |-> IF fate[p][c] = "dropped" THEN "dropped" ELSE "none"] \in [Chars -> Fates]
      BY DEF Fates
    <2>4. fate' \in [Peers -> [Chars -> Fates]]
      BY <1>16, <2>3 DEF ConnectionBroken, TypeOK
    <2>5. QED
      BY <1>16, <2>1, <2>2, <2>4 DEF ConnectionBroken, TypeOK, HostWorks
  <1>17. CASE ConnDelete
    BY <1>0, <1>17, IdleWorks DEF ConnDelete, TypeOK, HostWorks
  <1>18. ASSUME NEW a \in Apps, NEW c \in Chars, ChrUpdated(a, c) PROVE Types'
    <2>1. ASSUME NEW p \in Peers PROVE [cfg[p] EXCEPT ![c].mod = TRUE] \in [Chars -> Flags]
      <3>1. [cfg[p][c] EXCEPT !.mod = TRUE] \in Flags /\ cfg[p] \in [Chars -> Flags]
        BY <1>a, <1>b DEF Flags
      <3>2. QED
        BY <3>1
    <2>2. cfg' \in [Peers -> [Chars -> Flags]]
      BY <1>18, <1>a, <2>1 DEF ChrUpdated
    <2>3. missed' \in [Peers -> [Chars -> BOOLEAN]]
      BY <1>18, <1>a DEF ChrUpdated
    <2>4. used' \in [Bounded -> Nat] /\ fate' \in [Peers -> [Chars -> Fates]]
      BY <1>18 DEF ChrUpdated, TypeOK, Use, Bounded, Fates
    <2>5. AppWorks([at |-> "read", c |-> c, i |-> 1, rec |-> NoRec])
      BY <1>0 DEF AppWorks, AppState
    <2>6. app' \in [Apps -> AppState] /\ \A b \in Apps : AppWorks(app'[b])
      BY <1>18, <2>5 DEF ChrUpdated, TypeOK, AppWorks
    <2>7. QED
      BY <1>18, <2>2, <2>3, <2>4, <2>6 DEF ChrUpdated, TypeOK
  <1>19. ASSUME NEW a \in Apps, ChrRead(a) PROVE Types'
    <2>1. \A j \in OfChar(app[a].c) : recs[j] \in Record
      BY <1>a DEF OfChar
    <2>2. \A j \in OfChar(app[a].c) : [recs[j] EXCEPT !.changed = TRUE] \in Record
      BY <2>1 DEF Record
    <2> DEFINE nxt(j) == IF recs[j].changed THEN [app[a] EXCEPT !.i = app[a].i + 1]
                         ELSE [app[a] EXCEPT !.at = "write", !.rec = [recs[j] EXCEPT !.changed = TRUE]]
    <2>3. \/ app' = [app EXCEPT ![a] = AppIdle]
          \/ \E j \in OfChar(app[a].c) : app' = [app EXCEPT ![a] = nxt(j)]
      BY <1>19, Zenon DEF ChrRead
    <2>4. ASSUME NEW j \in OfChar(app[a].c) PROVE AppWorks(nxt(j))
      <3>0. AppWorks(app[a]) /\ app[a].at = "read"
        BY <1>19 DEF ChrRead
      <3>1. AppWorks(app[a]) /\ app[a].at = "read" /\ app[a].i + 1 \in Nat
        BY <3>0 DEF AppWorks, AppState
      <3>2. AppWorks([app[a] EXCEPT !.i = app[a].i + 1])
        BY <3>1 DEF AppWorks, AppState
      <3>3. AppWorks([app[a] EXCEPT !.at = "write", !.rec = [recs[j] EXCEPT !.changed = TRUE]])
        BY <2>2, <3>1 DEF AppWorks, AppState
      <3>4. QED
        BY <3>2, <3>3
    <2> HIDE DEF nxt
    <2>5. app' \in [Apps -> AppState] /\ \A b \in Apps : AppWorks(app'[b])
      BY <2>3, <2>4, IdleWorks DEF TypeOK, AppWorks
    <2>6. QED
      BY <1>19, <2>5 DEF ChrRead, TypeOK
  <1>20. ASSUME NEW a \in Apps, ChrWrite(a) PROVE Types'
    <2>1. AppWorks(app[a]) /\ app[a].rec \in Record
      BY <1>20 DEF ChrWrite, AppWorks
    <2>2. IsTable(recs')
      BY <1>20, <2>1, WriteFinds DEF ChrWrite, TypeOK
    <2> DEFINE x == [app[a] EXCEPT !.at = "read", !.i = app[a].i + 1, !.rec = NoRec]
    <2>3. AppWorks(x) /\ app' = [app EXCEPT ![a] = x]
      <3>1. app[a] \in AppState /\ app[a].i + 1 \in Nat
        BY <2>1 DEF AppWorks, AppState
      <3>2. AppWorks(x)
        BY <3>1 DEF AppWorks, AppState
      <3>3. app' = [app EXCEPT ![a] = x]
        BY <1>20, Zenon DEF ChrWrite
      <3>4. QED
        BY <3>2, <3>3
    <2> HIDE DEF x
    <2>4. app' \in [Apps -> AppState] /\ \A b \in Apps : AppWorks(app'[b])
      BY <2>3 DEF TypeOK, AppWorks
    <2>5. QED
      BY <1>20, <2>2, <2>4 DEF ChrWrite, TypeOK
  <1>21. CASE UNCHANGED vars
    BY <1>21 DEF vars, TypeOK
  <1>22. QED
    BY <1>1, <1>2, <1>3, <1>4, <1>5, <1>6, <1>7, <1>8, <1>9, <1>10, <1>11, <1>12, <1>13,
       <1>14, <1>15, <1>16, <1>17, <1>18, <1>19, <1>20, <1>21, <1>23, <1>24 DEF Next, HostStep, AppStep

(* The state of the GATT server keeps its types: in particular the store   *)
(* holds one record per peer and characteristic whatever the order in      *)
(* which the host task and the application tasks read and write them.      *)
THEOREM TypeCorrect == Spec => []TypeOK
  <1>1. Types => TypeOK
    BY DEF Types
  <1>2. QED
    BY <1>1, TypeInit, TypeStep, PTL DEF Spec

-----------------------------------------------------------------------------
(* One indication at a time.                                               *)

(* A peer has to confirm the indication that holds the slot and those that *)
(* an error was taken to confirm; the procedure in progress, if any, is    *)
(* that of the slot.                                                       *)
Turn(u, pr, i, h) ==
    /\ Len(u) <= h + (IF i = 0 THEN 0 ELSE 1)
    /\ pr = <<>> \/ (i # 0 /\ pr = <<i>>)

Turns == \A p \in Peers : Turn(unconf[p], procs[p], ind[p], hasty[p])

(* Between a confirmation and the indication it releases no other is sent; *)
(* a connection that breaks up has lost its indications.                   *)
SlotFree ==
    /\ host.at \in {"ackstore", "next"} => ind[host.p] = 0
    /\ host.at = "broken" => unconf[host.p] = <<>> /\ procs[host.p] = <<>>

Indicating == Types /\ SlotFree /\ Turns

LEMMA TurnSent ==
    ASSUME NEW u \in Seq(Chars), NEW pr, NEW h \in Nat, NEW c \in Chars, Turn(u, pr, 0, h)
    PROVE  Turn(Append(u, c), Append(pr, c), c, h)
  <1>1. Len(Append(u, c)) = Len(u) + 1 /\ Len(u) \in Nat
    OBVIOUS
  <1>2. pr = <<>> /\ Len(u) <= h /\ c # 0
    BY DEF Turn, Chars
  <1>3. Append(<<>>, c) = <<c>>
    OBVIOUS
  <1>4. QED
    BY <1>1, <1>2, <1>3 DEF Turn

(* The procedure ends, with or without one confirmation less to come.      *)
LEMMA TurnEnds ==
    ASSUME NEW u \in Seq(Chars), NEW pr, NEW i \in Nat, NEW h \in Nat, Turn(u, pr, i, h),
           pr # <<>>, NEW j \in {0, i}
    PROVE  /\ Turn(u, Tail(pr), i, h)
           /\ Turn(u, Tail(pr), j, h + 1)
           /\ u # <<>> => Turn(Tail(u), Tail(pr), j, h)
  <1>1. Tail(<<i>>) = <<>> /\ Len(u) \in Nat /\ Len(u) <= h + 1
    BY DEF Turn
  <1>2. u # <<>> => Len(Tail(u)) = Len(u) - 1
    BY HeadTailProperties
  <1>3. Tail(pr) = <<>>
    BY <1>1 DEF Turn
  <1>4. Turn(u, Tail(pr), i, h)
    BY <1>3 DEF Turn
  <1>5. Turn(u, Tail(pr), j, h + 1)
    BY <1>1, <1>3 DEF Turn
  <1>6. ASSUME u # <<>> PROVE Turn(Tail(u), Tail(pr), j, h)
    <2>1. Len(Tail(u)) <= h
      BY <1>1, <1>2, <1>6
    <2>2. Len(Tail(u)) \in Nat
      BY <1>6, HeadTailProperties, LenProperties
    <2>3. QED
      BY <1>3, <2>1, <2>2 DEF Turn
  <1>7. QED
    BY <1>4, <1>5, <1>6

(* A confirmation that nobody waits for.                                   *)
LEMMA TurnIgnored ==
    ASSUME NEW u \in Seq(Chars), NEW i \in Nat, NEW h \in Nat, Turn(u, <<>>, i, h), u # <<>>
    PROVE  Turn(Tail(u), <<>>, i, IF h > 0 THEN h - 1 ELSE 0)
  <1>1. Len(Tail(u)) = Len(u) - 1 /\ Len(u) \in Nat
    BY HeadTailProperties, LenProperties
  <1> DEFINE n == Len(u)
             m == Len(Tail(u))
  <1>2. n \in Nat /\ m = n - 1 /\ n <= h + (IF i = 0 THEN 0 ELSE 1)
    BY <1>1 DEF Turn
  <1> HIDE DEF n, m
  <1>3. m <= (IF h > 0 THEN h - 1 ELSE 0) + (IF i = 0 THEN 0 ELSE 1)
    BY <1>2
  <1>4. QED
    BY <1>3 DEF Turn, m

LEMMA TurnsOne == Turns /\ TypeOK => OneIndication
  <1> SUFFICES ASSUME Turns, TypeOK, NEW p \in Peers
               PROVE  /\ Len(unconf[p]) <= 1 + hasty[p]
                      /\ procs[p] # <<>> => procs[p] = <<ind[p]>>
    BY DEF OneIndication
  <1>1. Len(unconf[p]) \in Nat /\ hasty[p] \in Nat /\ Turn(unconf[p], procs[p], ind[p], hasty[p])
    BY LenProperties DEF Turns, TypeOK
  <1>2. QED
    BY <1>1 DEF Turn

(* What one peer goes through leaves the others alone.                     *)
LEMMA TurnsStay ==
    ASSUME Turns, NEW p,
           \A q \in Peers \ {p} : /\ unconf'[q] = unconf[q] /\ procs'[q] = procs[q]
                                  /\ ind'[q] = ind[q] /\ hasty'[q] = hasty[q],
           p \in Peers => Turn(unconf'[p], procs'[p], ind'[p], hasty'[p])
    PROVE  Turns'
  <1> SUFFICES ASSUME NEW q \in Peers PROVE Turn(unconf'[q], procs'[q], ind'[q], hasty'[q])
    BY DEF Turns
  <1>1. CASE q = p
    BY <1>1
  <1>2. CASE q # p
    BY <1>2 DEF Turns
  <1>3. QED
    BY <1>1, <1>2

LEMMA LinkTypes ==
    ASSUME TypeOK, NEW p \in Peers
    PROVE  /\ unconf[p] \in Seq(Chars) /\ procs[p] \in Seq(Chars)
           /\ ind[p] \in Nat /\ hasty[p] \in Nat
           /\ \A x : [unconf EXCEPT ![p] = x][p] = x /\ [procs EXCEPT ![p] = x][p] = x
                    /\ [ind EXCEPT ![p] = x][p] = x /\ [hasty EXCEPT ![p] = x][p] = x
           /\ \A x, q \in Peers : q # p =>
                /\ [unconf EXCEPT ![p] = x][q] = unconf[q]
                /\ [procs EXCEPT ![p] = x][q] = procs[q]
                /\ [ind EXCEPT ![p] = x][q] = ind[q]
                /\ [hasty EXCEPT ![p] = x][q] = hasty[q]
  BY CharsAssumption DEF TypeOK

(* An indication is sent to a peer that has none outstanding.              *)
LEMMA SendOne ==
    ASSUME TypeOK, Turns, NEW p \in Peers, NEW c \in Chars, NEW op, Send(p, c, op),
           op = "indicate" => ind[p] = 0, hasty' = hasty
    PROVE  Turns'
  <1>1. CASE unconf' = unconf /\ ind' = ind /\ procs' = procs
    BY <1>1 DEF Turns
  <1>2. CASE /\ unconf' = [unconf EXCEPT ![p] = Append(@, c)]
             /\ ind' = [ind EXCEPT ![p] = c] /\ ind[p] = 0
             /\ procs' = [procs EXCEPT ![p] = Append(@, c)]
    <2>1. Turn(unconf[p], procs[p], 0, hasty[p])
      BY <1>2 DEF Turns
    <2>2. unconf[p] \in Seq(Chars) /\ hasty[p] \in Nat
      BY LinkTypes
    <2>3. Turn(Append(unconf[p], c), Append(procs[p], c), c, hasty[p])
      BY <2>1, <2>2, TurnSent
    <2>4. Turn(unconf'[p], procs'[p], ind'[p], hasty'[p])
      BY <1>2, <2>3 DEF TypeOK
    <2>5. \A q \in Peers \ {p} : /\ unconf'[q] = unconf[q] /\ procs'[q] = procs[q]
                                  /\ ind'[q] = ind[q] /\ hasty'[q] = hasty[q]
      BY <1>2 DEF TypeOK
    <2>6. QED
      BY <2>4, <2>5, TurnsStay
  <1>3. QED
    BY <1>1, <1>2, SendLinks

LEMMA Idles ==
    /\ Idle.at = "idle"
    /\ \A p : [Idle EXCEPT !.at = "next", !.p = p].at = "next"
             /\ [Idle EXCEPT !.at = "next", !.p = p].p = p
    /\ \A p, r : [Idle EXCEPT !.at = "ackstore", !.p = p, !.rec = r].at = "ackstore"
                /\ [Idle EXCEPT !.at = "ackstore", !.p = p, !.rec = r].p = p
  BY DEF Idle

(* An acknowledgement frees the slot, and then only does the host go on.   *)
LEMMA AckFrees ==
    ASSUME TypeOK, NEW p \in Peers, NEW c \in Chars, RxIndicateAck(p, c)
    PROVE  /\ ind'[p] \in {0, ind[p]} /\ \A q \in Peers \ {p} : ind'[q] = ind[q]
           /\ host'.at = "idle" \/ (host'.at \in {"ackstore", "next"} /\ host'.p = p /\ ind'[p] = 0)
           /\ host'.at = "idle" => ind' = ind /\ ("indicate" \notin Allowed[c] \/ ind[p] # c)
  <1> DEFINE expected == "indicate" \in Allowed[c] /\ ind[p] = c
  <1>1. ind' = IF expected THEN [ind EXCEPT ![p] = 0] ELSE ind
    BY DEF RxIndicateAck
  <1>2. PICK r : \/ ~expected /\ host' = Idle
                 \/ expected /\ host' = [Idle EXCEPT !.at = "ackstore", !.p = p, !.rec = r]
                 \/ expected /\ host' = [Idle EXCEPT !.at = "next", !.p = p]
    BY DEF RxIndicateAck
  <1>3. ind \in [Peers -> 0 .. NumChars]
    BY DEF TypeOK
  <1>4. CASE ~expected /\ host' = Idle
    BY <1>1, <1>4, Idles
  <1>5. CASE expected /\ host' = [Idle EXCEPT !.at = "ackstore", !.p = p, !.rec = r]
    <2> HIDE DEF expected
    <2>1. QED
      BY <1>1, <1>3, <1>5, Idles
  <1>6. CASE expected /\ host' = [Idle EXCEPT !.at = "next", !.p = p]
    <2> HIDE DEF expected
    <2>1. QED
      BY <1>1, <1>3, <1>6, Idles
  <1>7. QED
    BY <1>2, <1>4, <1>5, <1>6

LEMMA IndicatingInit == Init => Indicating
  <1> SUFFICES ASSUME Init PROVE Indicating
    OBVIOUS
  <1>1. \A p \in Peers : unconf[p] = <<>> /\ procs[p] = <<>> /\ ind[p] = 0 /\ hasty[p] = 0
    BY DEF Init
  <1>2. Turn(<<>>, <<>>, 0, 0)
    BY DEF Turn
  <1>3. QED
    BY <1>1, <1>2, TypeInit DEF Indicating, SlotFree, Turns, Init, Idle

(* The answers to an indication, and its timeout.                          *)
LEMMA IndicatingAnswer ==
    ASSUME Indicating, NEW p \in Peers,
           IndicateRxRsp(p) \/ IndicateErr(p) \/ IndicateTmo(p)
    PROVE  SlotFree' /\ Turns'
  <1> DEFINE Others == \A q \in Peers \ {p} :
                          /\ unconf'[q] = unconf[q] /\ procs'[q] = procs[q]
                          /\ ind'[q] = ind[q] /\ hasty'[q] = hasty[q]
             c == Head(procs[p])
  <1>0. /\ TypeOK /\ Turns /\ Turn(unconf[p], procs[p], ind[p], hasty[p])
        /\ unconf[p] \in Seq(Chars) /\ ind[p] \in Nat /\ hasty[p] \in Nat
    BY LinkTypes DEF Indicating, Types, Turns
  <1>1. procs[p] # <<>> => c \in Chars
    BY <1>0 DEF TypeOK
  <1>2. CASE IndicateRxRsp(p) /\ procs[p] = <<>>
    <2>1. /\ unconf[p] # <<>> /\ unconf' = [unconf EXCEPT ![p] = Tail(@)]
          /\ hasty' = [hasty EXCEPT ![p] = IF @ > 0 THEN @ - 1 ELSE 0]
          /\ ind' = ind /\ procs' = procs /\ host' = host /\ host.at = "idle"
      BY <1>2 DEF IndicateRxRsp
    <2>2. Turn(Tail(unconf[p]), <<>>, ind[p], IF hasty[p] > 0 THEN hasty[p] - 1 ELSE 0)
      BY <1>0, <1>2, <2>1, TurnIgnored
    <2>3. Turn(unconf'[p], procs'[p], ind'[p], hasty'[p])
      BY <1>0, <1>2, <2>1, <2>2 DEF TypeOK
    <2>4. Others
      BY <1>0, <2>1 DEF TypeOK
    <2>5. QED
      BY <1>0, <2>1, <2>3, <2>4, TurnsStay DEF SlotFree
  <1>3. CASE IndicateRxRsp(p) /\ procs[p] # <<>>
    <2>1. /\ unconf[p] # <<>> /\ unconf' = [unconf EXCEPT ![p] = Tail(@)]
          /\ procs' = [procs EXCEPT ![p] = Tail(@)] /\ hasty' = hasty
          /\ RxIndicateAck(p, c)
      BY <1>3 DEF IndicateRxRsp
    <2> HIDE DEF c
    <2>2. /\ ind'[p] \in {0, ind[p]} /\ \A q \in Peers \ {p} : ind'[q] = ind[q]
          /\ host'.at = "idle" \/ (host'.at \in {"ackstore", "next"} /\ host'.p = p /\ ind'[p] = 0)
      BY <1>0, <1>1, <1>3, <2>1, AckFrees
    <2>3. Turn(Tail(unconf[p]), Tail(procs[p]), ind'[p], hasty[p])
      BY <1>0, <1>3, <2>1, <2>2, TurnEnds
    <2>4. Turn(unconf'[p], procs'[p], ind'[p], hasty'[p])
      BY <1>0, <2>1, <2>3 DEF TypeOK
    <2>5. Others
      BY <1>0, <2>1, <2>2 DEF TypeOK
    <2>6. QED
      BY <1>0, <2>2, <2>4, <2>5, TurnsStay DEF SlotFree
  <1>4. CASE IndicateErr(p)
    <2>1. /\ procs[p] # <<>> /\ procs' = [procs EXCEPT ![p] = Tail(@)]
          /\ hasty' = [hasty EXCEPT ![p] = @ + 1] /\ unconf' = unconf
          /\ RxIndicateAck(p, c)
      BY <1>4 DEF IndicateErr
    <2> HIDE DEF c
    <2>2. /\ ind'[p] \in {0, ind[p]} /\ \A q \in Peers \ {p} : ind'[q] = ind[q]
          /\ host'.at = "idle" \/ (host'.at \in {"ackstore", "next"} /\ host'.p = p /\ ind'[p] = 0)
      BY <1>0, <1>1, <2>1, AckFrees
    <2>3. Turn(unconf[p], Tail(procs[p]), ind'[p], hasty[p] + 1)
      BY <1>0, <2>1, <2>2, TurnEnds
    <2>4. Turn(unconf'[p], procs'[p], ind'[p], hasty'[p])
      BY <1>0, <2>1, <2>3 DEF TypeOK
    <2>5. Others
      BY <1>0, <2>1, <2>2 DEF TypeOK
    <2>6. QED
      BY <1>0, <2>2, <2>4, <2>5, TurnsStay DEF SlotFree
  <1>5. CASE IndicateTmo(p)
    <2>1. /\ procs[p] # <<>> /\ procs' = [procs EXCEPT ![p] = Tail(@)]
          /\ hasty' = hasty /\ unconf' = unconf /\ ind' = ind /\ host' = host /\ host.at = "idle"
      BY <1>5 DEF IndicateTmo
    <2> HIDE DEF c
    <2>2. Turn(unconf[p], Tail(procs[p]), ind[p], hasty[p])
      BY <1>0, <2>1, TurnEnds
    <2>3. Turn(unconf'[p], procs'[p], ind'[p], hasty'[p])
      BY <1>0, <2>1, <2>2 DEF TypeOK
    <2>4. Others
      BY <1>0, <2>1 DEF TypeOK
    <2>5. QED
      BY <1>0, <2>1, <2>3, <2>4, TurnsStay DEF SlotFree
  <1>6. QED
    BY <1>2, <1>3, <1>4, <1>5

LEMMA IndicatingStep == Indicating /\ [Next]_vars => Indicating'
  <1> SUFFICES ASSUME Indicating, [Next]_vars PROVE SlotFree' /\ Turns'
    BY TypeStep DEF Indicating
  <1> USE DEF linkVars, indVars, ghosts
  <1>0. TypeOK /\ HostWorks(host) /\ SlotFree /\ Turns
    BY DEF Indicating, Types
  <1>1. ASSUME UNCHANGED <<unconf, ind, procs, hasty>>, host'.at \notin {"ackstore", "next", "broken"}
        PROVE  SlotFree' /\ Turns'
    BY <1>0, <1>1 DEF SlotFree, Turns
  <1>2. CASE TxStart \/ TxNext
    <2>1. host'.at \in {"tx", "idle"}
      <3>1. [host EXCEPT !.c = @ + 1, !.todo = Up].at = host.at
        BY <1>0 DEF TypeOK, HostState
      <3>2. CASE TxStart
        BY <3>2 DEF TxStart, Idle
      <3>3. CASE TxNext
        BY <3>1, <3>3, Idles DEF TxNext
      <3>4. QED
        BY <1>2, <3>2, <3>3
    <2>2. QED
      BY <1>1, <1>2, <2>1 DEF TxStart, TxNext
  <1>3. ASSUME NEW p \in Peers, TxOne(p) PROVE SlotFree' /\ Turns'
    <2>1. host.c \in Chars /\ host'.at = "tx"
      BY <1>0, <1>3 DEF TxOne, HostWorks, HostState
    <2>2. hasty' = hasty /\ \E op : Send(p, host.c, op) /\ (op = "indicate" => ind[p] = 0)
      BY <1>3 DEF TxOne, Update
    <2>3. Turns'
      BY <1>0, <2>1, <2>2, SendOne
    <2>4. QED
      BY <2>1, <2>3 DEF SlotFree
  <1>4. ASSUME NEW p \in Peers, IndicateRxRsp(p) \/ IndicateErr(p) \/ IndicateTmo(p)
        PROVE  SlotFree' /\ Turns'
    BY <1>4, IndicatingAnswer
  <1>5. CASE AckStore
    BY <1>0, <1>5 DEF AckStore, TypeOK, HostState, SlotFree, Turns
  <1>6. CASE SendNextIndicate
    <2> DEFINE M == {c \in Chars : cfg[host.p][c].mod}
    <2>1. host.p \in Peers /\ host'.at = "idle" /\ ind[host.p] = 0
      BY <1>0, <1>6 DEF SendNextIndicate, HostWorks, Idle, SlotFree
    <2>2. CASE M = {}
      BY <1>1, <1>6, <2>1, <2>2 DEF SendNextIndicate
    <2>3. CASE M # {}
      <3>1. Min(M) \in Chars
        <4>1. M \subseteq Chars /\ M \in SUBSET Nat
          BY CharsAssumption DEF Chars
        <4> HIDE DEF M
        <4>2. QED
          BY <2>3, <4>1, MinIsIn
      <3>2. Send(host.p, Min(M), "indicate") /\ hasty' = hasty
        BY <1>6, <2>3 DEF SendNextIndicate
      <3> HIDE DEF M
      <3>3. Turns'
        BY <1>0, <2>1, <3>1, <3>2, SendOne
      <3>4. QED
        BY <2>1, <3>3 DEF SlotFree
    <2>4. QED
      BY <2>2, <2>3
  <1>7. ASSUME NEW p \in Peers, NEW c \in Chars, NEW s \in SUBSET Kinds, CltCfgWrite(p, c, s)
        PROVE  SlotFree' /\ Turns'
    BY <1>1, <1>7 DEF CltCfgWrite, Idle
  <1>8. CASE CltCfgStore
    BY <1>1, <1>8 DEF CltCfgStore, Idle
  <1>9. ASSUME NEW p \in Peers, Bond(p) \/ Restore(p) PROVE SlotFree' /\ Turns'
    BY <1>1, <1>9 DEF Bond, Restore, Idle
  <1>10. CASE BondingEstablished
    <2>1. host'.at \in {"bond", "idle"}
      BY <1>0, <1>10 DEF BondingEstablished, Idle, TypeOK, HostState
    <2>2. QED
      BY <1>1, <1>10, <2>1 DEF BondingEstablished
  <1>11. CASE RestoreRead
    <2>1. host'.at \in {"restore", "idle"}
      <3>1. \A j : [host EXCEPT !.at = "restore", !.rec = recs[j]].at = "restore"
        BY <1>0 DEF TypeOK, HostState
      <3>2. Idle.at = "idle"
        BY DEF Idle
      <3>3. QED
        BY <1>11, <3>1, <3>2 DEF RestoreRead
    <2>2. QED
      BY <1>1, <1>11, <2>1 DEF RestoreRead
  <1>12. CASE BondingRestored
    <2>1. host.p \in Peers /\ host.rec.c \in Chars
      BY <1>0, <1>12 DEF BondingRestored, HostWorks, Record
    <2>2. host'.at \in {"sent", "read"}
      BY <1>0, <1>12 DEF BondingRestored, TypeOK, HostState
    <2>3. /\ hasty' = hasty
          /\ \/ \E mod : Reschedule(host.p, host.rec.c, mod)
             \/ \E op : Send(host.p, host.rec.c, op) /\ (op = "indicate" => ind[host.p] = 0)
      <3> DEFINE k == [sub |-> host.rec.sub, mod |-> host.rec.mod \/ host.rec.changed]
                 op == IF host.rec.changed THEN Update(k, ind[host.p] # 0) ELSE "none"
      <3>1. op = "indicate" => ind[host.p] = 0
        BY DEF Update
      <3>2. /\ hasty' = hasty
            /\ Reschedule(host.p, host.rec.c, k.mod) \/ Send(host.p, host.rec.c, op)
        BY <1>12 DEF BondingRestored
      <3> HIDE DEF k, op
      <3>3. QED
        BY <3>1, <3>2
    <2>4. Turns'
      <3>1. CASE \E mod : Reschedule(host.p, host.rec.c, mod)
        BY <1>0, <2>3, <3>1 DEF Reschedule, Turns
      <3>2. CASE \E op : Send(host.p, host.rec.c, op) /\ (op = "indicate" => ind[host.p] = 0)
        BY <1>0, <2>1, <2>3, <3>2, SendOne
      <3>3. QED
        BY <2>3, <3>1, <3>2
    <2>5. QED
      BY <2>2, <2>4 DEF SlotFree
  <1>13. CASE RestoreSent
    <2>1. host'.at = "read"
      BY <1>0, <1>13 DEF RestoreSent, TypeOK, HostState
    <2>2. QED
      BY <1>1, <1>13, <2>1 DEF RestoreSent
  <1>14. ASSUME NEW p \in Peers, Connect(p) PROVE SlotFree' /\ Turns'
    BY <1>1, <1>14 DEF Connect
  <1>15. ASSUME NEW p \in Peers, ConnectionBroken(p) PROVE SlotFree' /\ Turns'
    <2>1. /\ host'.at = "broken" /\ host'.p = p /\ ind' = ind
          /\ unconf' = [unconf EXCEPT ![p] = <<>>] /\ procs' = [procs EXCEPT ![p] = <<>>]
          /\ hasty' = [hasty EXCEPT ![p] = 0]
      BY <1>15 DEF ConnectionBroken, Idle
    <2>2. /\ unconf'[p] = <<>> /\ procs'[p] = <<>> /\ hasty'[p] = 0
          /\ \A q \in Peers \ {p} : /\ unconf'[q] = unconf[q] /\ procs'[q] = procs[q]
                                     /\ ind'[q] = ind[q] /\ hasty'[q] = hasty[q]
      BY <1>0, <2>1 DEF TypeOK
    <2>3. Turn(<<>>, <<>>, ind'[p], 0)
      BY DEF Turn
    <2>4. Turns'
      BY <1>0, <2>2, <2>3, TurnsStay
    <2>5. QED
      BY <2>1, <2>2, <2>4 DEF SlotFree
  <1>16. CASE ConnDelete
    <2>1. /\ host'.at = "idle" /\ unconf[host.p] = <<>> /\ procs[host.p] = <<>> /\ host.p \in Peers
          /\ unconf' = unconf /\ procs' = procs /\ hasty' = hasty
      BY <1>0, <1>16 DEF ConnDelete, Idle, SlotFree, HostWorks
    <2>2. ind'[host.p] = 0 /\ \A q \in Peers \ {host.p} : ind'[q] = ind[q]
      BY <1>0, <1>16, <2>1 DEF ConnDelete, TypeOK
    <2>3. Turn(<<>>, <<>>, 0, hasty[host.p])
      <3>1. hasty[host.p] \in Nat /\ Len(<<>>) = 0
        BY <1>0, <2>1, LinkTypes
      <3>2. QED
        BY <3>1 DEF Turn
    <2>4. Turns'
      BY <1>0, <2>1, <2>2, <2>3, TurnsStay
    <2>5. QED
      BY <2>1, <2>4 DEF SlotFree
  <1>17. ASSUME UNCHANGED <<unconf, ind, procs, hasty, host>> PROVE SlotFree' /\ Turns'
    BY <1>0, <1>17 DEF SlotFree, Turns
  <1>18. ASSUME NEW a \in Apps, AppStep(a) \/ \E c \in Chars : ChrUpdated(a, c)
         PROVE  SlotFree' /\ Turns'
    BY <1>17, <1>18 DEF AppStep, ChrRead, ChrWrite, ChrUpdated
  <1>19. CASE UNCHANGED vars
    BY <1>17, <1>19 DEF vars
  <1>20. QED
    BY <1>2, <1>3, <1>4, <1>5, <1>6, <1>7, <1>8, <1>9, <1>10, <1>11, <1>12, <1>13, <1>14,
       <1>15, <1>16, <1>18, <1>19 DEF Next, HostStep

(* ble_gatts_schedule_update: "Only one outstanding indication per peer is *)
(* allowed", for every number of peers, characteristics and tasks, every   *)
(* set of permissions and every bound: a peer never has a second one to    *)
(* confirm but for each error the host took for a confirmation, and the    *)
(* procedure in progress is the one of indicate_val_handle.                *)
THEOREM OneIndicationAlways == Spec => []OneIndication
  <1>1. Indicating => OneIndication
    BY TurnsOne DEF Indicating, Types
  <1>2. QED
    BY <1>1, IndicatingInit, IndicatingStep, PTL DEF Spec

-----------------------------------------------------------------------------
(* Subscriptions of bonded peers.                                          *)

Restoring == host.at \in {"read", "restore", "sent"}

(* A peer without a connection has no CCCD entries set, and what is owed   *)
(* to one that has not encrypted yet is not in them either.                *)
LinksKept ==
    /\ \A p \in Peers :
         /\ conn[p] = "down" => ~bonded[p]
         /\ p \notin bonds => ~bonded[p] /\ \A c \in Chars : owed[p][c] = Nothing
         /\ \A c \in Chars : conn[p] # "up" \/ (~bonded[p] /\ owed[p][c] # Nothing)
                               => cfg[p][c].sub = {}
    /\ host.at \in {"ackstore", "cfgstore", "bond", "read", "restore", "sent"}
         => conn[host.p] = "up" /\ bonded[host.p]
    /\ host.at = "broken" => conn[host.p] = "broken"
    /\ host.at \in {"ackstore", "cfgstore"}
         => host.rec.sub = cfg[host.p][host.rec.c].sub

(* The entries of a bonded peer say what is owed to it, unless they are    *)
(* being restored.                                                         *)
EntriesHold ==
    \A p \in Peers, c \in Chars :
        conn[p] = "up" /\ bonded[p] /\ ~(Restoring /\ host.p = p) /\ owed[p][c] # Nothing
            => cfg[p][c].sub = owed[p][c]

(* The record that is being restored is still where it was read, and the   *)
(* subscriptions that are not restored yet are in records to come.         *)
AtCurrent(j) == j \in OfPeer(host.p) /\ Skipped(OfPeer(host.p), j) = host.c - 1

ToCome(j) ==
    /\ j \in OfPeer(host.p)
    /\ Skipped(OfPeer(host.p), j) >= IF host.at = "sent" THEN host.c ELSE host.c - 1

RestoreOrder ==
    Restoring =>
        /\ host.c >= 1
        /\ host.at # "read" =>
             \E j \in DOMAIN recs : /\ AtCurrent(j) /\ recs[j].c = host.rec.c
                                    /\ recs[j].sub = host.rec.sub
        /\ \A c \in Chars : owed[host.p][c] # Nothing =>
             \/ cfg[host.p][c].sub = owed[host.p][c]
             \/ \E j \in DOMAIN recs : ToCome(j) /\ recs[j].c = c

Subscribing ==
    /\ Types /\ LinksKept
    /\ ~disturbed => EntriesHold /\ RestoreOrder /\ SubscriptionKept

(* Searching with idx = n, n + 1, ... visits the records in their order    *)
(* and leaves none out.                                                    *)
LEMMA SkippedOrder ==
    ASSUME NEW M \in SUBSET Nat, NEW j \in Nat
    PROVE  /\ Skipped(M, j) \in Nat /\ IsFiniteSet({k \in M : k < j})
           /\ \A i \in M : i < j => Skipped(M, i) < Skipped(M, j)
  <1>0. \A k \in M : k \in Nat
    OBVIOUS
  <1>1. ASSUME NEW x \in Nat PROVE IsFiniteSet({k \in M : k < x})
    <2>1. ASSUME NEW k \in {k \in M : k < x} PROVE k \in 0 .. x
      <3>1. k \in Nat /\ k < x
        BY <1>0
      <3>2. QED
        BY <3>1
    <2>2. IsFiniteSet(0 .. x)
      BY FS_Interval
    <2>3. QED
      BY <2>1, <2>2, FS_Subset
  <1>2. \A x \in Nat : Skipped(M, x) \in Nat
    BY <1>1, FS_CardinalityType DEF Skipped
  <1>3. ASSUME NEW i \in M, i < j PROVE Skipped(M, i) < Skipped(M, j)
    <2> DEFINE A == {k \in M : k < i}
               B == {k \in M : k < j}
    <2>1. A \subseteq B /\ i \in B /\ i \notin A
      <3>1. i \in Nat /\ ~(i < i)
        BY <1>0
      <3>2. ASSUME NEW k \in A PROVE k \in B
        <4>1. k \in M /\ k \in Nat /\ k < i
          BY <1>0
        <4>2. k < j
          BY <1>3, <3>1, <4>1
        <4>3. QED
          BY <4>1, <4>2
      <3>3. QED
        BY <1>3, <3>1, <3>2
    <2>2. IsFiniteSet(B)
      BY <1>1
    <2> HIDE DEF A, B
    <2>3. Cardinality(A) <= Cardinality(B) /\ Cardinality(A) # Cardinality(B)
      BY <2>1, <2>2, FS_Subset
    <2>4. Cardinality(A) = Skipped(M, i) /\ Cardinality(B) = Skipped(M, j)
      BY DEF A, B, Skipped
    <2>5. i \in Nat
      OBVIOUS
    <2>6. QED
      BY <1>2, <2>3, <2>4, <2>5
  <1>4. QED
    BY <1>1, <1>2, <1>3

LEMMA SkippedReaches ==
    ASSUME NEW M \in SUBSET Nat, NEW n \in Nat, NEW j \in M, Skipped(M, j) >= n
    PROVE  \E k \in M : Skipped(M, k) = n
  <1> DEFINE S == {k \in M : Skipped(M, k) >= n}
             x == Min(S)
  <1>1. x \in S /\ \A y \in S : x <= y
    BY MinIsIn
  <1>2. x \in M /\ x \in Nat /\ Skipped(M, x) >= n /\ Skipped(M, x) \in Nat
    BY <1>1, SkippedOrder
  <1>3. \A k \in M : Skipped(M, k) >= n => x <= k
    BY <1>1
  <1> HIDE DEF S, x
  <1>4. CASE Skipped(M, x) > n
    <2> DEFINE L == {k \in M : k < x}
               D == {d \in Nat : x - d \in L}
               y == x - Min(D)
    <2>1. IsFiniteSet(L) /\ Cardinality(L) = Skipped(M, x)
      BY <1>2, SkippedOrder DEF Skipped
    <2>2. PICK l \in L : TRUE
      <3> HIDE DEF L
      <3>1. Cardinality(L) # 0
        BY <1>2, <1>4, <2>1
      <3>2. QED
        BY <2>1, <3>1, FS_EmptySet
    <2>3. ASSUME NEW k \in L PROVE x - k \in D
      BY <1>2
    <2>4. Min(D) \in D /\ \A d \in D : Min(D) <= d
      BY <2>2, <2>3, MinIsIn
    <2>5. y \in L /\ \A k \in L : k <= y
      <3>1. Min(D) \in Nat /\ y \in L
        BY <2>4
      <3>2. ASSUME NEW k \in L PROVE k <= y
        <4>1. Min(D) <= x - k /\ k \in Nat
          BY <2>3, <2>4
        <4>2. QED
          BY <1>2, <3>1, <4>1
      <3>3. QED
        BY <3>1, <3>2
    <2> HIDE DEF y
    <2>6. y \in M /\ y \in Nat /\ y < x
      BY <2>5
    <2> DEFINE K == {k \in M : k < y}
    <2>7. L = K \cup {y} /\ y \notin K
      <3>1. \A k \in M : k \in Nat
        OBVIOUS
      <3>2. \A k \in M : k < x => k <= y
        BY <2>5
      <3>3. \A k \in M : k < x <=> k < y \/ k = y
        BY <1>2, <2>6, <3>1, <3>2
      <3>4. ~(y < y)
        BY <2>6
      <3>5. QED
        BY <2>6, <3>3, <3>4
    <2>8. IsFiniteSet(K) /\ Cardinality(K) = Skipped(M, y) /\ Skipped(M, y) \in Nat
      BY <2>6, SkippedOrder DEF Skipped
    <2> HIDE DEF K, L
    <2>9. Skipped(M, x) = Skipped(M, y) + 1
      BY <2>1, <2>7, <2>8, FS_AddElement
    <2>10. QED
      BY <1>2, <1>3, <1>4, <2>6, <2>8, <2>9
  <1>5. QED
    BY <1>2, <1>4

LEMMA OfPeerIn == ASSUME IsTable(recs), NEW p PROVE OfPeer(p) \in SUBSET Nat
  BY DEF IsTable, OfPeer

-----------------------------------------------------------------------------
(* Steps that leave the subscriptions alone.                               *)

SameRecs ==
    /\ DOMAIN recs' = DOMAIN recs
    /\ \A i \in DOMAIN recs : /\ recs'[i].p = recs[i].p /\ recs'[i].c = recs[i].c
                              /\ recs'[i].sub = recs[i].sub

SameSubs == \A p \in Peers, c \in Chars : cfg'[p][c].sub = cfg[p][c].sub

LEMMA StoredFacts ==
    ASSUME IsTable(recs), NEW p, NEW c
    PROVE  /\ Stored(p, c) = NoRec <=> \A i \in DOMAIN recs : ~(recs[i].p = p /\ recs[i].c = c)
           /\ \A i \in DOMAIN recs : recs[i].p = p /\ recs[i].c = c => Stored(p, c) = recs[i]
           /\ Index(p, c) > 0 <=> Stored(p, c) # NoRec
           /\ Stored(p, c) # NoRec =>
                Stored(p, c) \in Record /\ Stored(p, c).p = p /\ Stored(p, c).c = c
  <1>1. recs \in Seq(Record) /\ DOMAIN recs = 1 .. Len(recs) /\ Len(recs) \in Nat
    BY DEF IsTable
  <1>2. \A i \in DOMAIN recs : recs[i] \in Record /\ recs[i] # NoRec
    BY <1>1, NoRecAssumption
  <1>3. CASE Index(p, c) > 0
    BY <1>1, <1>2, <1>3, FindFinds DEF Stored, Index
  <1>4. CASE Index(p, c) = 0
    BY <1>1, <1>2, <1>4, FindFinds DEF Stored, Index
  <1>5. QED
    BY <1>1, <1>3, <1>4, FindFinds DEF Index

LEMMA SameRecsStored ==
    ASSUME IsTable(recs), IsTable(recs'), SameRecs, NEW p, NEW c
    PROVE  /\ Stored(p, c)' = NoRec <=> Stored(p, c) = NoRec
           /\ Stored(p, c) # NoRec => Stored(p, c)'.sub = Stored(p, c).sub
  <1>1. Find(recs', p, c) = Index(p, c)
    <2>1. /\ DOMAIN recs = 1 .. Len(recs) /\ DOMAIN recs' = 1 .. Len(recs')
          /\ Len(recs) \in Nat /\ Len(recs') \in Nat
      BY DEF IsTable
    <2>2. QED
      BY <2>1, FindFinds DEF Index, SameRecs
  <1>2. \A i \in DOMAIN recs : recs[i] # NoRec
    BY NoRecAssumption DEF IsTable
  <1>3. \A i \in DOMAIN recs' : recs'[i] # NoRec
    BY NoRecAssumption DEF IsTable
  <1>4. CASE Index(p, c) > 0
    <2>1. Index(p, c) \in DOMAIN recs
      BY <1>4, FindFinds DEF Index
    <2>2. Stored(p, c)' = recs'[Index(p, c)] /\ Stored(p, c) = recs[Index(p, c)]
      BY <1>1, <1>4 DEF Stored, Index
    <2>3. QED
      BY <1>2, <1>3, <2>1, <2>2 DEF SameRecs
  <1>5. CASE ~(Index(p, c) > 0)
    BY <1>1, <1>5 DEF Stored, Index
  <1>6. QED
    BY <1>4, <1>5

LEMMA Untouched ==
    ASSUME Subscribing, Types', UNCHANGED <<conn, bonded, bonds, owed>>, SameSubs,
           disturbed => disturbed', ~disturbed' => SameRecs,
           \/ host' = host
           \/ ~Restoring /\ host'.at \in {"idle", "tx", "next"}
    PROVE  Subscribing'
  <1>0. /\ IsTable(recs) /\ IsTable(recs') /\ LinksKept /\ HostWorks(host)
    BY DEF Subscribing, Types, TypeOK
  <1>1. LinksKept'
    <2>1. ASSUME NEW p \in Peers, NEW c \in Chars, conn[p] # "up" \/ (~bonded[p] /\ owed[p][c] # Nothing)
          PROVE  cfg'[p][c].sub = {}
      BY <1>0, <2>1 DEF LinksKept, SameSubs
    <2>2. CASE host' = host
      <3>1. host.at \in {"ackstore", "cfgstore"} => host.p \in Peers /\ host.rec.c \in Chars
        BY <1>0 DEF HostWorks, Record
      <3>2. QED
        BY <1>0, <2>1, <2>2, <3>1 DEF LinksKept, SameSubs
    <2>3. CASE host'.at \in {"idle", "tx", "next"}
      BY <1>0, <2>1, <2>3 DEF LinksKept
    <2>4. QED
      BY <2>2, <2>3
  <1> SUFFICES ASSUME ~disturbed' PROVE EntriesHold' /\ RestoreOrder' /\ SubscriptionKept'
    BY <1>1 DEF Subscribing
  <1>2. SameRecs /\ EntriesHold /\ RestoreOrder /\ SubscriptionKept /\ ~disturbed
    BY DEF Subscribing
  <1>3. EntriesHold'
    BY <1>2 DEF EntriesHold, Restoring, SameSubs
  <1>4. RestoreOrder'
    <2>1. CASE host' = host
      <3>1. ASSUME NEW p PROVE OfPeer(p)' = OfPeer(p)
        BY <1>2 DEF OfPeer, SameRecs
      <3>2. ASSUME NEW j PROVE /\ AtCurrent(j) => AtCurrent(j)'
                               /\ ToCome(j) => ToCome(j)'
        BY <2>1, <3>1 DEF AtCurrent, ToCome, Skipped
      <3>3. Restoring => host.p \in Peers
        BY <1>0 DEF Restoring, HostWorks
      <3>4. SUFFICES ASSUME Restoring
                     PROVE  RestoreOrder'
        BY <2>1 DEF RestoreOrder, Restoring
      <3>5. host'.at # "read" =>
               \E j \in DOMAIN recs' : /\ AtCurrent(j)' /\ recs'[j].c = host'.rec.c
                                       /\ recs'[j].sub = host'.rec.sub
        BY <1>2, <2>1, <3>2, <3>4 DEF RestoreOrder, SameRecs
      <3>6. ASSUME NEW c \in Chars, owed'[host'.p][c] # Nothing
            PROVE  \/ cfg'[host'.p][c].sub = owed'[host'.p][c]
                   \/ \E j \in DOMAIN recs' : ToCome(j)' /\ recs'[j].c = c
        BY <1>2, <2>1, <3>2, <3>3, <3>4, <3>6 DEF RestoreOrder, SameRecs, SameSubs
      <3>7. QED
        BY <1>2, <2>1, <3>4, <3>5, <3>6 DEF RestoreOrder
    <2>2. CASE host'.at \notin {"read", "restore", "sent"}
      BY <2>2 DEF RestoreOrder, Restoring
    <2>3. QED
      BY <2>1, <2>2
  <1>5. SubscriptionKept'
    BY <1>0, <1>2, SameRecsStored DEF SubscriptionKept
  <1>6. QED
    BY <1>3, <1>4, <1>5

(* What is stored for another task's, or an earlier, record of the same    *)
(* subscription stays in its place.                                        *)
LEMMA WriteSame ==
    ASSUME IsTable(recs), NEW r \in Record, WriteCccd(r),
           Stored(r.p, r.c) # NoRec, Stored(r.p, r.c).sub = r.sub
    PROVE  SameRecs
  <1>1. Index(r.p, r.c) > 0
    BY StoredFacts
  <1>2. /\ DOMAIN recs' = DOMAIN recs
        /\ \A i \in DOMAIN recs : recs'[i].p = recs[i].p /\ recs'[i].c = recs[i].c
        /\ \A i \in DOMAIN recs' : recs'[i] = IF i = Find(recs', r.p, r.c) THEN r ELSE recs[i]
        /\ Find(recs', r.p, r.c) = Index(r.p, r.c)
    BY <1>1, WriteFinds
  <1>3. Stored(r.p, r.c) = recs[Index(r.p, r.c)]
    BY <1>1 DEF Stored
  <1>4. QED
    BY <1>2, <1>3 DEF SameRecs

LEMMA SubscribingInit == Init => Subscribing
  <1> SUFFICES ASSUME Init PROVE LinksKept /\ EntriesHold /\ RestoreOrder /\ SubscriptionKept
    BY TypeInit DEF Subscribing
  <1>1. LinksKept
    BY DEF Init, LinksKept, Idle, NewCfg
  <1>2. EntriesHold
    BY DEF Init, EntriesHold
  <1>3. RestoreOrder
    BY DEF Init, RestoreOrder, Restoring, Idle
  <1>4. SubscriptionKept
    BY DEF Init, SubscriptionKept
  <1>5. QED
    BY <1>1, <1>2, <1>3, <1>4

(* The steps of the host task on what it was told to do.                   *)
LEMMA SubscribingStep == Subscribing /\ [Next]_vars => Subscribing'
  <1> SUFFICES ASSUME Subscribing, [Next]_vars PROVE Subscribing'
    OBVIOUS
  <1> USE DEF linkVars, indVars, ghosts
  <1>0. Types /\ Types' /\ LinksKept /\ HostWorks(host) /\ TypeOK /\ TypeOK'
    BY TypeStep DEF Subscribing, Types
  <1>a. /\ cfg \in [Peers -> [Chars -> Flags]] /\ host \in HostState /\ IsTable(recs) /\ IsTable(recs')
        /\ owed \in [Peers -> [Chars -> (SUBSET Kinds) \cup {Nothing}]]
        /\ conn \in [Peers -> {"down", "up", "broken"}] /\ bonded \in [Peers -> BOOLEAN]
    BY <1>0 DEF TypeOK
  <1>b. ASSUME NEW p \in Peers, NEW c \in Chars, NEW m \in BOOLEAN,
               cfg' = [cfg EXCEPT ![p][c].mod = m]
        PROVE  SameSubs
    <2>1. \A q \in Peers, d \in Chars : cfg[q] \in [Chars -> Flags] /\ cfg[q][d] \in Flags
      BY <1>a
    <2>2. cfg' = [cfg EXCEPT ![p] = [cfg[p] EXCEPT ![c] = [cfg[p][c] EXCEPT !.mod = m]]]
      BY <1>b
    <2>3. [cfg[p][c] EXCEPT !.mod = m].sub = cfg[p][c].sub
      BY <2>1 DEF Flags
    <2>4. QED
      BY <1>a, <2>1, <2>2, <2>3 DEF SameSubs
  <1>c. ASSUME UNCHANGED <<conn, bonded, bonds, owed, recs, disturbed>>, SameSubs,
               ~Restoring, host'.at \in {"idle", "tx", "next"}
        PROVE  Subscribing'
    BY <1>0, <1>c, Untouched DEF SameRecs
  <1>d. UNCHANGED cfg => SameSubs
    BY DEF SameSubs
  <1>e. Idle.at = "idle"
    BY DEF Idle
  <1>f. ASSUME UNCHANGED <<conn, bonded, bonds, cfg, owed, recs, disturbed>>, LinksKept',
               host.at = "idle", ~Restoring'
        PROVE  Subscribing'
    <2>1. ASSUME ~disturbed' PROVE EntriesHold' /\ RestoreOrder' /\ SubscriptionKept'
      <3>1. EntriesHold /\ SubscriptionKept
        BY <1>f, <2>1 DEF Subscribing
      <3>2. SubscriptionKept'
        BY <1>f, <3>1 DEF SubscriptionKept, Stored, Index
      <3>3. QED
        BY <1>f, <3>1, <3>2 DEF EntriesHold, RestoreOrder, Restoring
    <2>2. QED
      BY <1>0, <1>f, <2>1 DEF Subscribing
  <1>g. ASSUME LinksKept', ~disturbed' => EntriesHold' /\ RestoreOrder' /\ SubscriptionKept'
        PROVE  Subscribing'
    BY <1>0, <1>g DEF Subscribing
  <1>1. CASE TxStart \/ TxNext
    <2>1. host'.at \in {"tx", "idle"} /\ ~Restoring
      <3>1. [host EXCEPT !.c = @ + 1, !.todo = Up].at = host.at
        BY <1>a DEF HostState
      <3>2. CASE TxStart
        BY <3>2 DEF TxStart, Idle, Restoring
      <3>3. CASE TxNext
        BY <1>e, <3>1, <3>3 DEF TxNext, Restoring
      <3>4. QED
        BY <1>1, <3>2, <3>3
    <2>2. QED
      BY <1>1, <1>c, <1>d, <2>1 DEF TxStart, TxNext
  <1>2. ASSUME NEW p \in Peers, TxOne(p) PROVE Subscribing'
    <2>1. host.c \in Chars /\ host'.at = "tx" /\ ~Restoring
      BY <1>0, <1>a, <1>2 DEF TxOne, HostWorks, HostState, Restoring
    <2>2. PICK m : m \in BOOLEAN /\ cfg' = [cfg EXCEPT ![p][host.c].mod = m]
      <3>1. \A op : (cfg[p][host.c].mod /\ op = "none") \in BOOLEAN
        OBVIOUS
      <3>2. QED
        BY <1>2, <3>1 DEF TxOne
    <2>3. SameSubs
      BY <1>b, <2>1, <2>2
    <2>4. QED
      BY <1>2, <1>c, <2>1, <2>3 DEF TxOne
  <1>h. ASSUME NEW p \in Peers, NEW c \in Chars, RxIndicateAck(p, c),
               host.at = "idle", conn[p] = "up",
               UNCHANGED <<conn, bonded, bonds, cfg, recs, owed, disturbed>>
        PROVE  Subscribing'
    <2> DEFINE r == Rec(p, c, cfg[p][c])
    <2>1. \/ host' = Idle \/ host' = [Idle EXCEPT !.at = "next", !.p = p]
          \/ bonded[p] /\ host' = [Idle EXCEPT !.at = "ackstore", !.p = p, !.rec = r]
      BY <1>h DEF RxIndicateAck
    <2>2. CASE host' = Idle \/ host' = [Idle EXCEPT !.at = "next", !.p = p]
      <3>1. host'.at \in {"idle", "next"}
        BY <2>2, Idles
      <3>2. QED
        BY <1>c, <1>d, <1>h, <3>1 DEF Restoring
    <2>3. CASE bonded[p] /\ host' = [Idle EXCEPT !.at = "ackstore", !.p = p, !.rec = r]
      <3>1. host'.at = "ackstore" /\ host'.p = p /\ host'.rec = r
        BY <2>3 DEF Idle
      <3>2. r.c = c /\ r.sub = cfg[p][c].sub
        BY DEF Rec
      <3> HIDE DEF r
      <3>3. LinksKept'
        BY <1>0, <1>h, <2>3, <3>1, <3>2 DEF LinksKept
      <3>4. QED
        BY <1>f, <1>h, <3>1, <3>3 DEF Restoring
    <2>4. QED
      BY <2>1, <2>2, <2>3
  <1>3. ASSUME NEW p \in Peers, IndicateRxRsp(p) \/ IndicateErr(p) \/ IndicateTmo(p)
        PROVE  Subscribing'
    <2>1. /\ host.at = "idle" /\ conn[p] = "up"
          /\ UNCHANGED <<conn, bonded, bonds, cfg, recs, owed, disturbed>>
      BY <1>3 DEF IndicateRxRsp, IndicateErr, IndicateTmo
    <2>2. \/ host' = host
          \/ procs[p] # <<>> /\ RxIndicateAck(p, Head(procs[p]))
      BY <1>3 DEF IndicateRxRsp, IndicateErr, IndicateTmo
    <2>3. CASE host' = host
      BY <1>c, <1>d, <2>1, <2>3 DEF Restoring
    <2>4. CASE procs[p] # <<>> /\ RxIndicateAck(p, Head(procs[p]))
      <3> DEFINE c == Head(procs[p])
      <3>1. c \in Chars /\ RxIndicateAck(p, c)
        BY <1>0, <2>4 DEF TypeOK
      <3> HIDE DEF c
      <3>2. QED
        BY <1>h, <2>1, <3>1
    <2>5. QED
      BY <2>2, <2>3, <2>4
  <1>4. CASE AckStore
    <2> DEFINE r == host.rec
    <2>1. /\ r \in Record /\ r.p = host.p /\ WriteCccd(r) /\ host.at = "ackstore" /\ host'.at = "next"
          /\ disturbed => disturbed'
          /\ UNCHANGED <<linkVars, owed>>
      BY <1>0, <1>a, <1>4 DEF AckStore, HostWorks, HostState
    <2>2. /\ r.p \in Peers /\ r.c \in Chars /\ r # NoRec /\ conn[r.p] = "up" /\ bonded[r.p]
          /\ r.sub = cfg[r.p][r.c].sub
      BY <1>0, <2>1, NoRecAssumption DEF Record, LinksKept
    <2> HIDE DEF r
    <2>3. LinksKept'
      BY <1>0, <2>1 DEF LinksKept
    <2>4. ASSUME ~disturbed' PROVE EntriesHold' /\ RestoreOrder' /\ SubscriptionKept'
      <3>1. EntriesHold /\ SubscriptionKept /\ ~disturbed
        BY <2>1, <2>4 DEF Subscribing
      <3>2. EntriesHold' /\ RestoreOrder'
        BY <2>1, <3>1 DEF EntriesHold, RestoreOrder, Restoring
      <3>3. owed[r.p][r.c] # Nothing => r.sub = owed[r.p][r.c]
        BY <2>1, <2>2, <3>1 DEF EntriesHold, Restoring
      <3>4. SubscriptionKept'
        BY <1>a, <2>1, <2>2, <3>1, <3>3, WriteStores DEF SubscriptionKept
      <3>5. QED
        BY <3>2, <3>4
    <2>5. QED
      BY <1>g, <2>3, <2>4
  <1>5. CASE SendNextIndicate
    <2> DEFINE M == {c \in Chars : cfg[host.p][c].mod}
    <2>1. host.p \in Peers /\ host'.at = "idle" /\ ~Restoring
      BY <1>0, <1>5 DEF SendNextIndicate, HostWorks, Idle, Restoring
    <2>2. SameSubs
      <3>1. CASE M = {}
        BY <1>5, <1>d, <3>1 DEF SendNextIndicate
      <3>2. CASE M # {}
        <4>1. M \subseteq Chars /\ M \in SUBSET Nat
          BY CharsAssumption DEF Chars
        <4>2. cfg' = [cfg EXCEPT ![host.p][Min(M)].mod = FALSE]
          BY <1>5, <3>2 DEF SendNextIndicate
        <4> HIDE DEF M
        <4>3. Min(M) \in Chars
          BY <3>2, <4>1, MinIsIn
        <4>4. QED
          BY <1>b, <2>1, <4>2, <4>3
      <3>3. QED
        BY <3>1, <3>2
    <2>3. QED
      BY <1>5, <1>c, <2>1, <2>2 DEF SendNextIndicate
  <1>6. ASSUME NEW p \in Peers, NEW c \in Chars, NEW s \in SUBSET Kinds, CltCfgWrite(p, c, s)
        PROVE  Subscribing'
    <2> DEFINE k == [sub |-> s, mod |-> FALSE]
    <2>1. /\ host.at = "idle" /\ conn[p] = "up"
          /\ cfg' = [cfg EXCEPT ![p][c] = k] /\ owed' = [owed EXCEPT ![p][c] = Nothing]
          /\ UNCHANGED <<conn, bonded, bonds, recs, disturbed>>
      BY <1>6 DEF CltCfgWrite, ClaimOwed
    <2>2. \A q \in Peers, d \in Chars : /\ cfg'[q][d] = IF q = p /\ d = c THEN k ELSE cfg[q][d]
                                        /\ owed'[q][d] = IF q = p /\ d = c THEN Nothing ELSE owed[q][d]
      BY <1>a, <2>1, EntryValue
    <2>3. \/ host' = host
          \/ bonded[p] /\ host'.at = "cfgstore" /\ host'.p = p /\ host'.rec.c = c /\ host'.rec.sub = s
      <3>1. cfg'[p][c] = k
        BY <2>2
      <3>2. \/ host' = host
            \/ bonded[p] /\ host' = [Idle EXCEPT !.at = "cfgstore", !.p = p, !.rec = Rec(p, c, cfg'[p][c])]
        BY <1>6 DEF CltCfgWrite
      <3>3. Rec(p, c, k).c = c /\ Rec(p, c, k).sub = s
        BY DEF Rec
      <3> HIDE DEF k
      <3>4. \A r : /\ [Idle EXCEPT !.at = "cfgstore", !.p = p, !.rec = r].at = "cfgstore"
                  /\ [Idle EXCEPT !.at = "cfgstore", !.p = p, !.rec = r].p = p
                  /\ [Idle EXCEPT !.at = "cfgstore", !.p = p, !.rec = r].rec = r
        BY DEF Idle
      <3>5. QED
        BY <3>1, <3>2, <3>3, <3>4
    <2>4. LinksKept'
      BY <1>0, <2>1, <2>2, <2>3 DEF LinksKept
    <2>5. ASSUME ~disturbed' PROVE EntriesHold' /\ RestoreOrder' /\ SubscriptionKept'
      <3>1. EntriesHold /\ SubscriptionKept /\ ~disturbed
        BY <2>1, <2>5 DEF Subscribing
      <3>2. EntriesHold' /\ RestoreOrder'
        BY <2>1, <2>2, <2>3, <3>1 DEF EntriesHold, RestoreOrder, Restoring
      <3>3. SubscriptionKept'
        BY <2>1, <2>2, <3>1 DEF SubscriptionKept, Stored, Index
      <3>4. QED
        BY <3>2, <3>3
    <2>6. QED
      BY <1>g, <2>4, <2>5
  <1>7. CASE CltCfgStore
    <2> DEFINE r == host.rec
    <2>1. /\ r \in Record /\ r.p = host.p /\ host.at = "cfgstore" /\ host' = Idle
          /\ IF r.sub = {} THEN DeleteCccd(r.p, r.c) ELSE WriteCccd(r)
          /\ owed' = [owed EXCEPT ![r.p][r.c] = r.sub]
          /\ disturbed => disturbed'
          /\ UNCHANGED linkVars
      BY <1>0, <1>7 DEF CltCfgStore, HostWorks, ClaimOwed
    <2>2. /\ r.p \in Peers /\ r.c \in Chars /\ r # NoRec /\ conn[r.p] = "up" /\ bonded[r.p]
          /\ r.sub = cfg[r.p][r.c].sub
      BY <1>0, <2>1, NoRecAssumption DEF Record, LinksKept
    <2> HIDE DEF r
    <2>3. \A q \in Peers, d \in Chars :
             owed'[q][d] = IF q = r.p /\ d = r.c THEN r.sub ELSE owed[q][d]
      BY <1>a, <2>1, <2>2, EntryValue
    <2>4. LinksKept'
      BY <1>0, <1>e, <2>1, <2>2, <2>3 DEF LinksKept
    <2>5. ASSUME ~disturbed' PROVE EntriesHold' /\ RestoreOrder' /\ SubscriptionKept'
      <3>1. EntriesHold /\ SubscriptionKept /\ ~disturbed
        BY <2>1, <2>5 DEF Subscribing
      <3>2. EntriesHold' /\ RestoreOrder'
        BY <1>e, <2>1, <2>2, <2>3, <3>1 DEF EntriesHold, RestoreOrder, Restoring
      <3>3. CASE r.sub = {}
        BY <1>a, <2>1, <2>3, <3>1, <3>2, <3>3, DeleteStores DEF SubscriptionKept
      <3>4. CASE r.sub # {}
        BY <1>a, <2>1, <2>2, <2>3, <3>1, <3>2, <3>4, WriteStores DEF SubscriptionKept
      <3>5. QED
        BY <3>3, <3>4
    <2>6. QED
      BY <1>g, <2>4, <2>5
  <1>8. ASSUME NEW p \in Peers, Bond(p) PROVE Subscribing'
    <2>1. /\ host.at = "idle" /\ conn[p] = "up" /\ p \notin bonds
          /\ bonded' = [bonded EXCEPT ![p] = TRUE] /\ bonds' = bonds \cup {p}
          /\ host'.at = "bond" /\ host'.p = p
          /\ UNCHANGED <<conn, cfg, owed, recs, disturbed>>
      BY <1>8 DEF Bond, Idle
    <2>2. \A q \in Peers : bonded'[q] = IF q = p THEN TRUE ELSE bonded[q]
      BY <1>a, <2>1
    <2>3. \A c \in Chars : owed[p][c] = Nothing
      BY <1>0, <2>1 DEF LinksKept
    <2>4. LinksKept'
      BY <1>0, <2>1, <2>2, <2>3 DEF LinksKept
    <2>5. ASSUME ~disturbed' PROVE EntriesHold' /\ RestoreOrder' /\ SubscriptionKept'
      <3>1. EntriesHold /\ SubscriptionKept /\ ~disturbed
        BY <2>1, <2>5 DEF Subscribing
      <3>2. EntriesHold' /\ RestoreOrder'
        BY <2>1, <2>2, <2>3, <3>1 DEF EntriesHold, RestoreOrder, Restoring
      <3>3. SubscriptionKept'
        BY <2>1, <3>1 DEF SubscriptionKept, Stored, Index
      <3>4. QED
        BY <3>2, <3>3
    <2>6. QED
      BY <1>g, <2>4, <2>5
  <1>9. CASE BondingEstablished
    <2> DEFINE k == cfg[host.p][host.c]
               r == Rec(host.p, host.c, k)
    <2>1. host.p \in Peers /\ host.c \in Chars /\ host.at = "bond" /\ k \in Flags
      BY <1>0, <1>9, <1>a DEF BondingEstablished, HostWorks
    <2>2. \/ WriteCccd(r) /\ owed' = [owed EXCEPT ![host.p][host.c] = k.sub]
          \/ UNCHANGED <<recs, owed>>
      BY <1>9 DEF BondingEstablished, ClaimOwed
    <2>3. UNCHANGED <<linkVars, disturbed>> /\ host'.at \in {"bond", "idle"} /\ (host'.at = "bond" => host'.p = host.p)
      <3>1. [host EXCEPT !.c = @ + 1].at = host.at /\ [host EXCEPT !.c = @ + 1].p = host.p
        BY <1>a DEF HostState
      <3>2. QED
        BY <1>9, <1>e, <2>1, <3>1 DEF BondingEstablished
    <2>4. conn[host.p] = "up" /\ bonded[host.p] /\ host.p \in bonds
      BY <1>0, <2>1 DEF LinksKept
    <2>5. /\ r \in Record /\ r # NoRec /\ r.p = host.p /\ r.c = host.c /\ r.sub = k.sub
      <3> DEFINE f == k
      <3> HIDE DEF f
      <3>1. f \in Flags
        BY <2>1 DEF f
      <3>2. /\ Rec(host.p, host.c, f) \in Record
            /\ Rec(host.p, host.c, f).p = host.p /\ Rec(host.p, host.c, f).c = host.c
            /\ Rec(host.p, host.c, f).sub = f.sub
        BY <2>1, <3>1, RecType
      <3>3. QED
        BY <3>2, NoRecAssumption DEF f
    <2> HIDE DEF r
    <2>6. CASE UNCHANGED <<recs, owed>>
      <3>1. LinksKept'
        BY <1>0, <2>3, <2>4, <2>6 DEF LinksKept
      <3>2. ASSUME ~disturbed' PROVE EntriesHold' /\ RestoreOrder' /\ SubscriptionKept'
        <4>1. EntriesHold /\ SubscriptionKept /\ ~disturbed
          BY <2>3, <3>2 DEF Subscribing
        <4>2. SubscriptionKept'
          BY <2>6, <2>3, <4>1 DEF SubscriptionKept, Stored, Index
        <4>3. QED
          BY <2>1, <2>3, <2>6, <4>1, <4>2 DEF EntriesHold, RestoreOrder, Restoring
      <3>3. QED
        BY <1>g, <3>1, <3>2
    <2>7. CASE WriteCccd(r) /\ owed' = [owed EXCEPT ![host.p][host.c] = k.sub]
      <3>1. \A q \in Peers, d \in Chars :
               owed'[q][d] = IF q = host.p /\ d = host.c THEN k.sub ELSE owed[q][d]
        BY <1>a, <2>1, <2>7, EntryValue
      <3>2. LinksKept'
        BY <1>0, <2>3, <2>4, <3>1 DEF LinksKept
      <3>3. ASSUME ~disturbed' PROVE EntriesHold' /\ RestoreOrder' /\ SubscriptionKept'
        <4>1. EntriesHold /\ SubscriptionKept /\ ~disturbed
          BY <2>3, <3>3 DEF Subscribing
        <4>2. EntriesHold' /\ RestoreOrder'
          BY <2>1, <2>3, <3>1, <4>1 DEF EntriesHold, RestoreOrder, Restoring
        <4> HIDE DEF k
        <4>3. SubscriptionKept'
          BY <1>a, <2>5, <2>7, <3>1, <4>1, WriteStores DEF SubscriptionKept
        <4>4. QED
          BY <4>2, <4>3
      <3>4. QED
        BY <1>g, <3>2, <3>3
    <2>8. QED
      BY <2>2, <2>6, <2>7
  <1>10. ASSUME NEW p \in Peers, Restore(p) PROVE Subscribing'
    <2>1. /\ host.at = "idle" /\ conn[p] = "up" /\ ~bonded[p] /\ p \in bonds
          /\ bonded' = [bonded EXCEPT ![p] = TRUE]
          /\ host'.at = "read" /\ host'.p = p /\ host'.c = 1
          /\ UNCHANGED <<conn, bonds, cfg, owed, recs, disturbed>>
      BY <1>10 DEF Restore, Idle
    <2>2. \A q \in Peers : bonded'[q] = IF q = p THEN TRUE ELSE bonded[q]
      BY <1>a, <2>1
    <2>3. LinksKept'
      BY <1>0, <2>1, <2>2 DEF LinksKept
    <2>4. ASSUME ~disturbed' PROVE EntriesHold' /\ RestoreOrder' /\ SubscriptionKept'
      <3>1. EntriesHold /\ SubscriptionKept /\ ~disturbed
        BY <2>1, <2>4 DEF Subscribing
      <3>2. EntriesHold'
        BY <2>1, <2>2, <3>1 DEF EntriesHold, Restoring
      <3>3. ASSUME NEW c \in Chars, owed[p][c] # Nothing, cfg[p][c].sub # owed[p][c]
            PROVE  \E j \in DOMAIN recs : ToCome(j)' /\ recs[j].c = c
        <4>0. cfg[p][c].sub = {}
          BY <1>0, <2>1, <3>3 DEF LinksKept
        <4>1. Stored(p, c) # NoRec
          BY <3>1, <3>3, <4>0 DEF SubscriptionKept
        <4>2. PICK j \in DOMAIN recs : recs[j].p = p /\ recs[j].c = c
          BY <1>a, <4>1, StoredFacts
        <4>3. j \in OfPeer(p) /\ OfPeer(p)' = OfPeer(p) /\ j \in Nat
          BY <1>a, <2>1, <4>2, OfPeerIn DEF OfPeer
        <4>4. Skipped(OfPeer(p), j) \in Nat
          BY <1>a, <4>3, OfPeerIn, SkippedOrder
        <4>5. ToCome(j)'
          BY <2>1, <4>3, <4>4 DEF ToCome, Skipped
        <4>6. QED
          BY <4>2, <4>5
      <3>4. RestoreOrder'
        BY <2>1, <3>3 DEF RestoreOrder
      <3>5. SubscriptionKept'
        BY <2>1, <3>1 DEF SubscriptionKept, Stored, Index
      <3>6. QED
        BY <3>2, <3>4, <3>5
    <2>5. QED
      BY <1>g, <2>3, <2>4
  <1>11. CASE RestoreRead
    <2>1. /\ host.at = "read" /\ host.p \in Peers
          /\ UNCHANGED <<linkVars, recs, owed, disturbed>>
      BY <1>0, <1>11 DEF RestoreRead, HostWorks
    <2>2. ASSUME NEW j \in OfPeer(host.p), Skipped(OfPeer(host.p), j) = host.c - 1,
                 host' = [host EXCEPT !.at = "restore", !.rec = recs[j]]
          PROVE  Subscribing'
      <3>1. /\ host'.at = "restore" /\ host'.p = host.p /\ host'.c = host.c /\ host'.rec = recs[j]
        BY <1>a, <2>2 DEF HostState
      <3>2. LinksKept'
        BY <1>0, <2>1, <3>1 DEF LinksKept
      <3>3. ASSUME ~disturbed' PROVE EntriesHold' /\ RestoreOrder' /\ SubscriptionKept'
        <4>1. EntriesHold /\ SubscriptionKept /\ RestoreOrder /\ ~disturbed
          BY <2>1, <3>3 DEF Subscribing
        <4>2. EntriesHold'
          BY <2>1, <3>1, <4>1 DEF EntriesHold, Restoring
        <4>3. OfPeer(host.p)' = OfPeer(host.p)
          BY <2>1, <3>1 DEF OfPeer
        <4>4. AtCurrent(j)' /\ j \in DOMAIN recs
          BY <2>2, <3>1, <4>3 DEF AtCurrent, Skipped, OfPeer
        <4>5. ASSUME NEW i PROVE ToCome(i) => ToCome(i)'
          BY <2>1, <3>1, <4>3 DEF ToCome, Skipped
        <4>6. RestoreOrder'
          BY <2>1, <3>1, <4>1, <4>4, <4>5 DEF RestoreOrder, Restoring
        <4>7. SubscriptionKept'
          BY <2>1, <4>1 DEF SubscriptionKept, Stored, Index
        <4>8. QED
          BY <4>2, <4>6, <4>7
      <3>4. QED
        BY <1>g, <3>2, <3>3
    <2>3. ASSUME \A j \in OfPeer(host.p) : Skipped(OfPeer(host.p), j) # host.c - 1, host' = Idle
          PROVE  Subscribing'
      <3>1. LinksKept'
        BY <1>0, <1>e, <2>1, <2>3 DEF LinksKept
      <3>2. ASSUME ~disturbed' PROVE EntriesHold' /\ RestoreOrder' /\ SubscriptionKept'
        <4>1. EntriesHold /\ SubscriptionKept /\ RestoreOrder /\ ~disturbed
          BY <2>1, <3>2 DEF Subscribing
        <4>2. ASSUME NEW j PROVE ~ToCome(j)
          <5> SUFFICES ASSUME ToCome(j) PROVE FALSE
            OBVIOUS
          <5>1. host.c \in Nat /\ host.c >= 1
            BY <1>a, <2>1, <4>1 DEF RestoreOrder, Restoring, HostState
          <5>2. host.c - 1 \in Nat /\ Skipped(OfPeer(host.p), j) >= host.c - 1 /\ j \in OfPeer(host.p)
            BY <2>1, <5>1 DEF ToCome
          <5>3. OfPeer(host.p) \in SUBSET Nat
            BY <1>a, OfPeerIn
          <5>4. \E k \in OfPeer(host.p) : Skipped(OfPeer(host.p), k) = host.c - 1
            BY <5>2, <5>3, SkippedReaches
          <5>5. QED
            BY <2>3, <5>4
        <4>3. EntriesHold'
          BY <1>e, <2>1, <2>3, <4>1, <4>2 DEF EntriesHold, RestoreOrder, Restoring
        <4>4. SubscriptionKept' /\ RestoreOrder'
          BY <1>e, <2>1, <2>3, <4>1 DEF SubscriptionKept, Stored, Index, RestoreOrder, Restoring
        <4>5. QED
          BY <4>3, <4>4
      <3>3. QED
        BY <1>g, <3>1, <3>2
    <2>4. QED
      BY <1>11, <2>2, <2>3 DEF RestoreRead
  <1>12. CASE BondingRestored
    <2> DEFINE p == host.p
               c == host.rec.c
    <2>1. /\ p \in Peers /\ host.rec \in Record /\ host.rec.p = p /\ c \in Chars /\ host.at = "restore"
          /\ UNCHANGED <<conn, bonded, bonds, recs, owed>> /\ (disturbed => disturbed')
          /\ conn[p] = "up" /\ bonded[p]
      BY <1>0, <1>12 DEF BondingRestored, HostWorks, Record, LinksKept
    <2>2. PICK m : cfg' = [cfg EXCEPT ![p][c] = [sub |-> host.rec.sub, mod |-> m]]
      BY <1>12 DEF BondingRestored
    <2>3. \A q \in Peers, d \in Chars :
             cfg'[q][d] = IF q = p /\ d = c THEN [sub |-> host.rec.sub, mod |-> m] ELSE cfg[q][d]
      BY <1>a, <2>1, <2>2, EntryValue
    <2>4. /\ host'.at \in {"sent", "read"} /\ host'.p = p
          /\ host'.at = "sent" => host'.c = host.c /\ host'.rec = host.rec
          /\ host'.at = "read" => host'.c = host.c + 1
      <3>1. \/ host' = [host EXCEPT !.at = "sent"]
            \/ host' = [host EXCEPT !.at = "read", !.c = @ + 1, !.rec = NoRec]
        BY <1>12 DEF BondingRestored
      <3>2. QED
        BY <1>a, <3>1 DEF HostState
    <2> HIDE DEF p, c
    <2>5. LinksKept'
      BY <1>0, <2>1, <2>3, <2>4 DEF LinksKept
    <2>6. ASSUME ~disturbed' PROVE EntriesHold' /\ RestoreOrder' /\ SubscriptionKept'
      <3>1. EntriesHold /\ SubscriptionKept /\ RestoreOrder /\ ~disturbed
        BY <2>1, <2>6 DEF Subscribing
      <3>2. EntriesHold'
        BY <2>1, <2>3, <2>4, <3>1 DEF EntriesHold, Restoring, p
      <3>3. SubscriptionKept'
        BY <2>1, <3>1 DEF SubscriptionKept, Stored, Index
      <3>4. host.c \in Nat /\ host.c >= 1
        BY <1>a, <2>1, <3>1 DEF RestoreOrder, Restoring, HostState
      <3>5. PICK k \in DOMAIN recs : /\ AtCurrent(k) /\ recs[k].c = c /\ recs[k].sub = host.rec.sub
        BY <2>1, <3>1 DEF RestoreOrder, Restoring, c
      <3>6. OfPeer(host.p)' = OfPeer(p) /\ OfPeer(p) \in SUBSET Nat
        <4>1. OfPeer(p) \in SUBSET Nat
          BY <1>a, OfPeerIn
        <4>2. QED
          BY <2>1, <2>4, <4>1 DEF OfPeer
      <3>7. owed[p][c] # Nothing => host.rec.sub = owed[p][c]
        <4>1. recs[k].p = p
          BY <3>5 DEF AtCurrent, OfPeer, p
        <4>2. Stored(p, c) = recs[k] /\ Stored(p, c) # NoRec
          BY <1>a, <3>5, <4>1, StoredFacts
        <4>3. QED
          BY <2>1, <3>1, <3>5, <4>2 DEF SubscriptionKept
      <3>8. ASSUME NEW j \in DOMAIN recs, ToCome(j), recs[j].c # c PROVE ToCome(j)'
        <4>1. /\ j \in OfPeer(p) /\ k \in OfPeer(p) /\ j # k
              /\ Skipped(OfPeer(p), k) = host.c - 1 /\ Skipped(OfPeer(p), j) >= host.c - 1
          BY <2>1, <3>5, <3>8 DEF ToCome, AtCurrent, p
        <4>2. /\ j \in Nat /\ k \in Nat /\ Skipped(OfPeer(p), j) \in Nat
              /\ j < k => Skipped(OfPeer(p), j) < Skipped(OfPeer(p), k)
              /\ k < j => Skipped(OfPeer(p), k) < Skipped(OfPeer(p), j)
          BY <3>6, <4>1, SkippedOrder
        <4>3. Skipped(OfPeer(p), j) >= host.c
          BY <3>4, <4>1, <4>2
        <4>4. /\ j \in OfPeer(host.p)'
              /\ Skipped(OfPeer(host.p), j)' = Skipped(OfPeer(p), j)
          BY <3>6, <4>1 DEF Skipped
        <4>5. CASE host'.at = "sent"
          BY <2>4, <4>3, <4>4, <4>5 DEF ToCome
        <4>6. CASE host'.at = "read"
          BY <2>4, <3>4, <4>3, <4>4, <4>6 DEF ToCome
        <4>7. QED
          BY <2>4, <4>5, <4>6
      <3>9. AtCurrent(k)' \/ host'.at = "read"
        BY <2>4, <3>5, <3>6 DEF AtCurrent, Skipped, p
      <3>10. RestoreOrder'
        <4>1. host'.c >= 1
          BY <2>4, <3>4
        <4>2. host'.at # "read" =>
                 \E j \in DOMAIN recs' : /\ AtCurrent(j)' /\ recs'[j].c = host'.rec.c
                                         /\ recs'[j].sub = host'.rec.sub
          BY <2>1, <2>4, <3>5, <3>9 DEF c
        <4>3. ASSUME NEW d \in Chars, owed'[host'.p][d] # Nothing
              PROVE  \/ cfg'[host'.p][d].sub = owed'[host'.p][d]
                     \/ \E j \in DOMAIN recs' : ToCome(j)' /\ recs'[j].c = d
          <5>1. CASE d = c
            BY <2>1, <2>3, <2>4, <3>7, <4>3, <5>1
          <5>2. CASE d # c
            <6>1. cfg'[p][d] = cfg[p][d]
              BY <2>1, <2>3, <5>2
            <6>2. \/ cfg[p][d].sub = owed[p][d]
                  \/ \E j \in DOMAIN recs : ToCome(j) /\ recs[j].c = d
              BY <2>1, <2>4, <3>1, <4>3 DEF RestoreOrder, Restoring, p
            <6>3. QED
              BY <2>1, <2>4, <3>8, <5>2, <6>1, <6>2
          <5>3. QED
            BY <5>1, <5>2
        <4>4. QED
          BY <4>1, <4>2, <4>3 DEF RestoreOrder
      <3>11. QED
        BY <3>2, <3>3, <3>10
    <2>7. QED
      BY <1>g, <2>5, <2>6
  <1>13. CASE RestoreSent
    <2> DEFINE r == [host.rec EXCEPT !.changed = FALSE]
    <2>1. /\ host.at = "sent" /\ host.p \in Peers /\ WriteCccd(r)
          /\ disturbed' = (disturbed \/ Overtaken(host.rec) \/ Stored(host.p, host.rec.c) # host.rec)
          /\ UNCHANGED <<linkVars, owed>>
      BY <1>0, <1>13 DEF RestoreSent, HostWorks
    <2>2. /\ r \in Record /\ r.p = host.p /\ r.c = host.rec.c /\ r.sub = host.rec.sub
          /\ host.rec # NoRec
      BY <1>0, <2>1, NoRecAssumption DEF HostWorks, Record
    <2>3. host'.at = "read" /\ host'.p = host.p /\ host'.c = host.c + 1
      BY <1>a, <1>13 DEF RestoreSent, HostState
    <2> HIDE DEF r
    <2>4. LinksKept'
      BY <1>0, <2>1, <2>3 DEF LinksKept
    <2>5. ASSUME ~disturbed' PROVE EntriesHold' /\ RestoreOrder' /\ SubscriptionKept'
      <3>1. EntriesHold /\ SubscriptionKept /\ RestoreOrder /\ ~disturbed
        BY <2>1, <2>5 DEF Subscribing
      <3>2. SameRecs
        BY <1>a, <2>1, <2>2, <2>5, WriteSame
      <3>3. EntriesHold'
        BY <2>1, <2>3, <3>1 DEF EntriesHold, Restoring
      <3>4. SubscriptionKept'
        BY <1>a, <2>1, <3>1, <3>2, SameRecsStored DEF SubscriptionKept
      <3>5. OfPeer(host.p)' = OfPeer(host.p)
        BY <2>3, <3>2 DEF OfPeer, SameRecs
      <3>6. host.c \in Nat /\ host.c >= 1
        BY <1>a, <2>1, <3>1 DEF RestoreOrder, Restoring, HostState
      <3>7. ASSUME NEW j PROVE ToCome(j) => ToCome(j)'
        BY <2>1, <2>3, <3>5, <3>6 DEF ToCome, Skipped
      <3>8. RestoreOrder'
        BY <2>1, <2>3, <3>1, <3>2, <3>6, <3>7 DEF RestoreOrder, Restoring, SameRecs
      <3>9. QED
        BY <3>3, <3>4, <3>8
    <2>6. QED
      BY <1>g, <2>4, <2>5
  <1>14. ASSUME NEW p \in Peers, Connect(p) PROVE Subscribing'
    <2>1. /\ host.at = "idle" /\ conn[p] = "down" /\ conn' = [conn EXCEPT ![p] = "up"]
          /\ UNCHANGED <<bonded, bonds, cfg, owed, recs, host, disturbed>>
      BY <1>14 DEF Connect
    <2>2. \A q \in Peers : conn'[q] = IF q = p THEN "up" ELSE conn[q]
      BY <1>a, <2>1
    <2>3. ~bonded[p]
      BY <1>0, <2>1 DEF LinksKept
    <2>4. LinksKept'
      BY <1>0, <2>1, <2>2 DEF LinksKept
    <2>5. ASSUME ~disturbed' PROVE EntriesHold' /\ RestoreOrder' /\ SubscriptionKept'
      <3>1. EntriesHold /\ SubscriptionKept /\ ~disturbed
        BY <2>1, <2>5 DEF Subscribing
      <3>2. EntriesHold' /\ RestoreOrder'
        BY <2>1, <2>2, <2>3, <3>1 DEF EntriesHold, RestoreOrder, Restoring
      <3>3. SubscriptionKept'
        BY <2>1, <3>1 DEF SubscriptionKept, Stored, Index
      <3>4. QED
        BY <3>2, <3>3
    <2>6. QED
      BY <1>g, <2>4, <2>5
  <1>15. ASSUME NEW p \in Peers, ConnectionBroken(p) PROVE Subscribing'
    <2>1. /\ host.at = "idle" /\ conn[p] = "up" /\ conn' = [conn EXCEPT ![p] = "broken"]
          /\ cfg' = [cfg EXCEPT ![p] = NewCfg] /\ host'.at = "broken" /\ host'.p = p
          /\ UNCHANGED <<bonded, bonds, owed, recs, disturbed>>
      BY <1>15 DEF ConnectionBroken, Idle
    <2>2. /\ \A q \in Peers : conn'[q] = IF q = p THEN "broken" ELSE conn[q]
          /\ \A q \in Peers, d \in Chars : IF q = p THEN cfg'[q][d].sub = {} ELSE cfg'[q][d] = cfg[q][d]
      BY <1>a, <2>1 DEF NewCfg
    <2>3. LinksKept'
      BY <1>0, <2>1, <2>2 DEF LinksKept
    <2>4. ASSUME ~disturbed' PROVE EntriesHold' /\ RestoreOrder' /\ SubscriptionKept'
      <3>1. EntriesHold /\ SubscriptionKept /\ ~disturbed
        BY <2>1, <2>4 DEF Subscribing
      <3>2. EntriesHold' /\ RestoreOrder'
        BY <2>1, <2>2, <3>1 DEF EntriesHold, RestoreOrder, Restoring
      <3>3. SubscriptionKept'
        BY <2>1, <3>1 DEF SubscriptionKept, Stored, Index
      <3>4. QED
        BY <3>2, <3>3
    <2>5. QED
      BY <1>g, <2>3, <2>4
  <1>16. CASE ConnDelete
    <2> DEFINE p == host.p
    <2>1. /\ host.at = "broken" /\ p \in Peers /\ conn' = [conn EXCEPT ![p] = "down"]
          /\ bonded' = [bonded EXCEPT ![p] = FALSE] /\ host' = Idle
          /\ UNCHANGED <<bonds, cfg, owed, recs, disturbed>>
      BY <1>0, <1>16 DEF ConnDelete, HostWorks
    <2>2. conn[p] = "broken"
      BY <1>0, <2>1 DEF LinksKept
    <2> HIDE DEF p
    <2>3. /\ \A q \in Peers : conn'[q] = IF q = p THEN "down" ELSE conn[q]
          /\ \A q \in Peers : bonded'[q] = IF q = p THEN FALSE ELSE bonded[q]
      BY <1>a, <2>1
    <2>4. LinksKept'
      <3>1. \A c \in Chars : cfg[p][c].sub = {}
        BY <1>0, <2>1, <2>2 DEF LinksKept
      <3>2. ASSUME NEW q \in Peers
            PROVE  /\ conn'[q] = "down" => ~bonded'[q]
                   /\ q \notin bonds' => ~bonded'[q] /\ \A c \in Chars : owed'[q][c] = Nothing
                   /\ \A c \in Chars : conn'[q] # "up" \/ (~bonded'[q] /\ owed'[q][c] # Nothing)
                                          => cfg'[q][c].sub = {}
        <4>1. CASE q = p
          <5>1. ~bonded'[q] /\ cfg' = cfg /\ owed' = owed /\ bonds' = bonds
            BY <2>1, <2>3, <4>1
          <5>2. q \notin bonds => \A c \in Chars : owed[q][c] = Nothing
            BY <1>0 DEF LinksKept
          <5>3. QED
            BY <3>1, <4>1, <5>1, <5>2
        <4>2. CASE q # p
          <5>1. UNCHANGED <<conn[q], bonded[q], bonds, cfg, owed>>
            BY <2>1, <2>3, <4>2
          <5>2. QED
            BY <1>0, <5>1 DEF LinksKept
        <4>3. QED
          BY <4>1, <4>2
      <3>3. QED
        BY <1>e, <2>1, <3>2 DEF LinksKept
    <2>5. ASSUME ~disturbed' PROVE EntriesHold' /\ RestoreOrder' /\ SubscriptionKept'
      <3>1. EntriesHold /\ SubscriptionKept /\ ~disturbed
        BY <2>1, <2>5 DEF Subscribing
      <3>2. EntriesHold' /\ RestoreOrder'
        BY <1>e, <2>1, <2>3, <3>1 DEF EntriesHold, RestoreOrder, Restoring
      <3>3. SubscriptionKept'
        BY <2>1, <3>1 DEF SubscriptionKept, Stored, Index
      <3>4. QED
        BY <3>2, <3>3
    <2>6. QED
      BY <1>g, <2>4, <2>5
  <1>17. ASSUME NEW a \in Apps, NEW c \in Chars, ChrUpdated(a, c) PROVE Subscribing'
    <2>1. ASSUME NEW p \in Peers, NEW d \in Chars PROVE cfg'[p][d].sub = cfg[p][d].sub
      <3>1. cfg[p] \in [Chars -> Flags] /\ cfg[p][c] \in Flags
        BY <1>a
      <3>2. [cfg[p][c] EXCEPT !.mod = TRUE].sub = cfg[p][c].sub
        BY <3>1 DEF Flags
      <3>3. cfg'[p] = cfg[p] \/ cfg'[p] = [cfg[p] EXCEPT ![c] = [cfg[p][c] EXCEPT !.mod = TRUE]]
        BY <1>17 DEF ChrUpdated
      <3>4. QED
        BY <3>1, <3>2, <3>3
    <2>2. QED
      BY <1>0, <1>17, <2>1, Untouched DEF ChrUpdated, SameSubs, SameRecs
  <1>18. ASSUME NEW a \in Apps, ChrRead(a) PROVE Subscribing'
    BY <1>0, <1>18, Untouched DEF ChrRead, SameSubs, SameRecs
  <1>19. ASSUME NEW a \in Apps, ChrWrite(a) PROVE Subscribing'
    <2> DEFINE r == app[a].rec
    <2>1. /\ r \in Record /\ WriteCccd(r)
          /\ disturbed' = (disturbed \/ Stored(r.p, r.c) = NoRec \/ Stored(r.p, r.c).sub # r.sub)
          /\ UNCHANGED <<linkVars, host, owed>>
      BY <1>0, <1>19 DEF ChrWrite, Types, AppWorks
    <2> HIDE DEF r
    <2>2. ~disturbed' => SameRecs
      BY <1>a, <2>1, WriteSame
    <2>3. QED
      BY <1>0, <1>d, <2>1, <2>2, Untouched
  <1>20. CASE UNCHANGED vars
    BY <1>0, <1>20, Untouched DEF vars, SameSubs, SameRecs
  <1>21. QED
    BY <1>1, <1>2, <1>3, <1>4, <1>5, <1>6, <1>7, <1>8, <1>9, <1>10, <1>11, <1>12, <1>13, <1>14,
       <1>15, <1>16, <1>17, <1>18, <1>19, <1>20 DEF Next, HostStep, AppStep

(* The subscription of a bonded peer, once its write was answered, is what *)
(* the store holds, whatever the number of peers, characteristics and      *)
(* tasks and however long the history, unless ble_gatts_chr_updated wrote  *)
(* an older record back.                                                   *)
THEOREM SubscriptionKeptAlways == Spec => []SubscriptionKept
  <1>1. Subscribing => SubscriptionKept
    BY DEF Subscribing, SubscriptionKept
  <1>2. QED
    BY <1>1, SubscribingInit, SubscribingStep, PTL DEF Spec

-----------------------------------------------------------------------------
(* Changes that a peer was not told.                                       *)

(* The host task leaves a connection alone once it breaks up.              *)
LinksUp ==
    /\ \A p \in Peers : /\ conn[p] = "down" => ind[p] = 0
                        /\ conn[p] = "broken" => host.at = "broken" /\ host.p = p
    /\ host.at = "tx" => host.todo \subseteq Up
    /\ host.at = "next" => conn[host.p] = "up"

(* A change that the peer has yet to get and that was not dropped.         *)
Wants(p, c) == missed[p][c] /\ fate[p][c] # "dropped"

(* The indication that is outstanding carries the last value, and so does  *)
(* the record that the host task is about to store, unless the value       *)
(* changed again and the connection is marked.                             *)
IndicationLatest ==
    \A p \in Peers, c \in Chars :
        conn[p] = "up" /\ ind[p] = c /\ Wants(p, c) /\ ~cfg[p][c].mod => fate[p][c] = "sent"

RecordLatest ==
    /\ host.at \in {"ackstore", "cfgstore"} =>
         ~host.rec.mod /\ (Wants(host.p, host.rec.c) => cfg[host.p][host.rec.c].mod)
    /\ host.at = "sent" /\ missed[host.p][host.rec.c] => cfg[host.p][host.rec.c].mod

(* The record that is being restored is the stored one, but for a mark.    *)
RecordRead ==
    host.at = "restore" =>
        /\ Stored(host.p, host.rec.c) # NoRec
        /\ Stored(host.p, host.rec.c) = host.rec \/ Stored(host.p, host.rec.c).changed

(* Only bonded peers have records and miss changes, and a bonding that is  *)
(* being established finds no records of those it is to write.             *)
OfBonds ==
    \A p \in Peers, c \in Chars : Stored(p, c) # NoRec \/ missed[p][c] =>
        p \in bonds /\ (host.at = "bond" /\ p = host.p => c < host.c)

(* The position of a record among those of its characteristic.             *)
Rank(p, c) == Skipped(OfChar(c), Index(p, c))

(* A change that a peer has yet to get is marked in its record, or a task  *)
(* that scans the records of the characteristic has yet to come to it; so  *)
(* is one that was dropped and that the MODIFIED flag of the connection or *)
(* of the record may bring back.                                           *)
Reaches(a, p, c) ==
    app[a].at # "idle" /\ app[a].c = c /\ Rank(p, c) >= app[a].i - 1

Noted(p, c) ==
    Stored(p, c) # NoRec /\ (Stored(p, c).changed \/ \E a \in Apps : Reaches(a, p, c))

Stands(p, c) == missed[p][c] /\ (fate[p][c] # "dropped" \/ cfg[p][c].mod)

Awaits(p, c) == Stands(p, c) \/ (missed[p][c] /\ Stored(p, c) # NoRec /\ Stored(p, c).mod)

Marked == \A p \in Peers, c \in Chars : Awaits(p, c) => Noted(p, c)

(* The record that a task is about to mark is still where it was read.     *)
Holds(x) ==
    /\ x.at # "idle" => x.i >= 1
    /\ x.at = "write" => /\ x.rec.changed /\ x.rec.c = x.c
                         /\ Stored(x.rec.p, x.c) # NoRec
                         /\ Rank(x.rec.p, x.c) = x.i - 1

Reading == \A a \in Apps : Holds(app[a])

Latest == IndicationLatest /\ RecordLatest /\ RecordRead

Marking ==
    /\ Subscribing /\ LinksUp
    /\ ~disturbed => Latest /\ OfBonds /\ Marked /\ Reading

LEMMA OfCharIn == ASSUME IsTable(recs), NEW c PROVE OfChar(c) \in SUBSET Nat
  BY DEF IsTable, OfChar

(* The records that were there are still there, in the same order.         *)
Kept ==
    \A p, c : Stored(p, c) # NoRec => Stored(p, c)' # NoRec /\ Rank(p, c)' = Rank(p, c)

LEMMA WriteKept ==
    ASSUME IsTable(recs), NEW r \in Record, WriteCccd(r)
    PROVE  Kept
  <1> SUFFICES ASSUME NEW p, NEW c, Stored(p, c) # NoRec
               PROVE  Stored(p, c)' # NoRec /\ Rank(p, c)' = Rank(p, c)
    BY DEF Kept
  <1>1. Stored(p, c)' # NoRec
    BY WriteStores, NoRecAssumption
  <1>2. Index(p, c) > 0 /\ Index(p, c) \in DOMAIN recs
    BY StoredFacts, FindFinds DEF Index
  <1>3. Index(p, c)' = Index(p, c)
    BY <1>2, WriteFinds DEF Index
  <1> DEFINE n == Index(p, c)
  <1>4. /\ DOMAIN recs \subseteq DOMAIN recs'
        /\ \A i \in DOMAIN recs : recs'[i].c = recs[i].c
        /\ IsTable(recs')
    BY WriteFinds
  <1>5. {k \in OfChar(c)' : k < n} = {k \in OfChar(c) : k < n}
    <2>1. /\ DOMAIN recs = 1 .. Len(recs) /\ DOMAIN recs' = 1 .. Len(recs')
          /\ Len(recs) \in Nat /\ Len(recs') \in Nat
      BY <1>4 DEF IsTable
    <2> HIDE DEF n
    <2>2. n \in 1 .. Len(recs)
      BY <1>2, <2>1 DEF n
    <2>3. \A k : k \in DOMAIN recs' /\ k < n => k \in DOMAIN recs
      BY <2>1, <2>2
    <2>4. QED
      BY <1>4, <2>3 DEF OfChar
  <1>6. QED
    BY <1>1, <1>3, <1>5 DEF Rank, Skipped

LEMMA SameKept == ASSUME UNCHANGED recs PROVE Kept
  BY DEF Kept, Stored, Index, Rank, Skipped, OfChar

(* A step of the host task that overwrites no mark.                        *)
LEMMA MarksStay ==
    ASSUME Marked, Reading, Kept, UNCHANGED app,
           \A p \in Peers, c \in Chars : Awaits(p, c)' => Awaits(p, c) \/ Noted(p, c),
           \A p \in Peers, c \in Chars :
               Awaits(p, c)' /\ Stored(p, c) # NoRec /\ Stored(p, c).changed => Stored(p, c)'.changed
    PROVE  Marked' /\ Reading'
  <1>1. ASSUME NEW p \in Peers, NEW c \in Chars, Awaits(p, c)'
        PROVE  Noted(p, c)'
    <2>1. /\ Stored(p, c) # NoRec
          /\ Stored(p, c).changed \/ \E a \in Apps : Reaches(a, p, c)
      BY <1>1 DEF Marked, Noted
    <2>2. Stored(p, c)' # NoRec /\ Rank(p, c)' = Rank(p, c)
      BY <2>1 DEF Kept
    <2>3. ASSUME NEW a \in Apps, Reaches(a, p, c) PROVE Reaches(a, p, c)'
      BY <2>2, <2>3 DEF Reaches
    <2>4. QED
      BY <1>1, <2>1, <2>2, <2>3 DEF Noted
  <1>2. ASSUME NEW a \in Apps PROVE Holds(app[a])'
    <2>1. Holds(app[a])
      BY DEF Reading
    <2> DEFINE x == app[a]
    <2>2. x' = x
      OBVIOUS
    <2> HIDE DEF x
    <2>3. Holds(x)
      BY <2>1 DEF x
    <2>4. Holds(x)'
      BY <2>2, <2>3 DEF Holds, Kept
    <2>5. QED
      BY <2>4 DEF x
  <1>3. QED
    BY <1>1, <1>2 DEF Marked, Reading

(* Steps that leave the store alone.                                       *)
LEMMA Aside ==
    ASSUME Marking, Subscribing', LinksUp', UNCHANGED <<recs, app>>, disturbed => disturbed',
           \A p \in Peers, c \in Chars : missed'[p][c] => missed[p][c],
           ~disturbed' =>
               \A p \in Peers, c \in Chars : Stands(p, c)' => Awaits(p, c) \/ Noted(p, c),
           bonds \subseteq bonds', host' = host \/ host'.at # "bond",
           ~disturbed' => Latest'
    PROVE  Marking'
  <1> SUFFICES ASSUME ~disturbed' PROVE OfBonds' /\ Marked' /\ Reading'
    BY DEF Marking
  <1>1. OfBonds /\ Marked /\ Reading
    BY DEF Marking
  <1>2. \A p, c : Stored(p, c)' = Stored(p, c)
    BY DEF Stored, Index
  <1>3. \A p \in Peers, c \in Chars : Awaits(p, c)' => Awaits(p, c) \/ Noted(p, c)
    BY <1>2 DEF Awaits
  <1>4. Marked' /\ Reading'
    BY <1>1, <1>2, <1>3, SameKept, MarksStay
  <1>5. OfBonds'
    BY <1>1, <1>2 DEF OfBonds
  <1>6. QED
    BY <1>4, <1>5

(* What is sent is no longer missed, or sent in an indication, or dropped. *)
LEMMA SendTells ==
    ASSUME TypeOK, NEW p \in Peers, NEW c \in Chars, NEW op, Send(p, c, op)
    PROVE  /\ \A q \in Peers, d \in Chars :
                /\ missed'[q][d] => missed[q][d]
                /\ fate'[q][d] = fate[q][d] \/ (q = p /\ d = c /\ op # "none")
           /\ op # "none" => ~missed'[p][c] \/ fate'[p][c] \in {"sent", "dropped"}
           /\ op = "notify" /\ used' = used => ~missed'[p][c]
           /\ \A q \in Peers : ind'[q] = ind[q] \/ (q = p /\ ind'[q] = c /\ fate'[p][c] = "sent")
  <1>0. missed \in [Peers -> [Chars -> BOOLEAN]] /\ ind \in [Peers -> 0 .. NumChars]
        /\ used \in [Bounded -> Nat] /\ fate \in [Peers -> [Chars -> Fates]]
    BY DEF TypeOK
  <1>f. ASSUME NEW x, fate' = [fate EXCEPT ![p][c] = x]
        PROVE  \A q \in Peers, d \in Chars : fate'[q][d] = IF q = p /\ d = c THEN x ELSE fate[q][d]
    BY <1>0, <1>f, EntryValue
  <1>1. CASE op = "none" /\ UNCHANGED <<unconf, ind, procs, missed, fate, used>>
    BY <1>1
  <1>2. CASE op # "none" /\ SendFails(p, c)
    <2>1. used' # used
      <3>1. used["fail"] \in Nat /\ "fail" \in DOMAIN used
        BY <1>0 DEF Bounded
      <3>2. used'["fail"] = used["fail"] + 1
        BY <1>2, <3>1 DEF SendFails, Use
      <3>3. QED
        BY <3>1, <3>2
    <2>2. \A q \in Peers, d \in Chars :
             fate'[q][d] = IF q = p /\ d = c THEN "dropped" ELSE fate[q][d]
      BY <1>2, <1>f DEF SendFails
    <2>3. QED
      BY <1>2, <2>1, <2>2 DEF SendFails
  <1>3. CASE op = "notify" /\ Notify(p, c)
    <2>1. \A q \in Peers, d \in Chars :
             fate'[q][d] = IF q = p /\ d = c THEN "sent" ELSE fate[q][d]
      BY <1>3, <1>f DEF Notify
    <2>2. missed' = [missed EXCEPT ![p][c] = FALSE] /\ ind' = ind
      BY <1>3 DEF Notify
    <2>3. \A q \in Peers, d \in Chars :
             missed'[q][d] = IF q = p /\ d = c THEN FALSE ELSE missed[q][d]
      BY <1>0, <2>2, EntryValue
    <2>4. QED
      BY <1>3, <2>1, <2>2, <2>3
  <1>4. CASE op = "indicate" /\ Indicate(p, c)
    <2>1. \A q \in Peers, d \in Chars :
             fate'[q][d] = IF q = p /\ d = c THEN "sent" ELSE fate[q][d]
      BY <1>4, <1>f DEF Indicate
    <2>2. \A q \in Peers : ind'[q] = IF q = p THEN c ELSE ind[q]
      BY <1>0, <1>4 DEF Indicate
    <2>3. QED
      BY <1>4, <2>1, <2>2 DEF Indicate
  <1>5. QED
    BY <1>1, <1>2, <1>3, <1>4 DEF Send

LEMMA SendLatest ==
    ASSUME TypeOK, NEW p \in Peers, NEW c \in Chars, NEW op, Send(p, c, op), IndicationLatest,
           UNCHANGED conn,
           \A q \in Peers, d \in Chars :
               (q = p /\ d = c /\ op # "none") \/ (~cfg'[q][d].mod => ~cfg[q][d].mod)
    PROVE  IndicationLatest'
  <1> SUFFICES ASSUME NEW q \in Peers, NEW d \in Chars, conn[q] = "up", ind'[q] = d,
                      missed'[q][d], fate'[q][d] # "dropped", ~cfg'[q][d].mod
               PROVE  fate'[q][d] = "sent"
    BY DEF IndicationLatest, Wants
  <1>1. CASE q = p /\ d = c /\ op # "none"
    BY <1>1, SendTells
  <1>2. CASE ~(q = p /\ d = c /\ op # "none")
    <2>1. missed[q][d] /\ fate'[q][d] = fate[q][d]
      BY <1>2, SendTells
    <2>2. ind[q] = d \/ fate'[q][d] = "sent"
      BY SendTells
    <2>3. ~cfg[q][d].mod
      BY <1>2
    <2>4. QED
      BY <2>1, <2>2, <2>3 DEF IndicationLatest, Wants
  <1>3. QED
    BY <1>1, <1>2

LEMMA MarkingInit == Init => Marking
  <1> SUFFICES ASSUME Init
               PROVE  LinksUp /\ Latest /\ OfBonds /\ Marked /\ Reading
    BY SubscribingInit DEF Marking
  <1>1. LinksUp /\ RecordLatest /\ RecordRead
    BY DEF Init, LinksUp, RecordLatest, RecordRead, Idle
  <1>2. \A p \in Peers, c \in Chars : missed[p][c] = FALSE
    BY DEF Init
  <1>3. IndicationLatest /\ Marked
    BY <1>2 DEF IndicationLatest, Marked, Wants, Awaits, Stands
  <1>4. OfBonds
    <2>1. IsTable(recs) /\ DOMAIN recs = {}
      BY TypeInit DEF Init, Types, TypeOK
    <2>2. \A p, c : Stored(p, c) = NoRec
      BY <2>1, StoredFacts
    <2>3. QED
      BY <1>2, <2>2 DEF OfBonds
  <1>5. Reading
    <2>1. \A a \in Apps : app[a].at = "idle"
      BY DEF Init, AppIdle
    <2>2. QED
      BY <2>1 DEF Reading, Holds
  <1>6. QED
    BY <1>1, <1>3, <1>4, <1>5 DEF Latest

(* The steps of the host task.                                             *)
LEMMA MarkingTx ==
    ASSUME Marking, Subscribing',
           \/ TxStart \/ TxNext \/ SendNextIndicate
           \/ \E p \in Peers : TxOne(p)
    PROVE  Marking'
  <1> USE DEF linkVars, indVars, ghosts
  <1>0. TypeOK /\ LinksUp /\ LinksKept /\ HostWorks(host)
    BY DEF Marking, Subscribing, Types
  <1>a. /\ cfg \in [Peers -> [Chars -> Flags]] /\ host \in HostState
        /\ conn \in [Peers -> {"down", "up", "broken"}] /\ ind \in [Peers -> 0 .. NumChars]
        /\ missed \in [Peers -> [Chars -> BOOLEAN]]
    BY <1>0 DEF TypeOK
  <1>e. Idle.at = "idle"
    BY DEF Idle
  <1>l. host'.at \in {"idle", "tx"} => RecordLatest' /\ RecordRead'
    BY DEF RecordLatest, RecordRead
  <1>1. CASE TxStart \/ TxNext
    <2>1. /\ UNCHANGED <<linkVars, recs, app, ghosts>>
          /\ host'.at = "idle" \/ (host'.at = "tx" /\ host'.todo = Up)
          /\ host.at \in {"idle", "tx"}
      <3>1. CASE TxStart
        BY <3>1 DEF TxStart, Idle
      <3>2. CASE TxNext
        <4>1. /\ [host EXCEPT !.c = @ + 1, !.todo = Up].at = host.at
              /\ [host EXCEPT !.c = @ + 1, !.todo = Up].todo = Up
          BY <1>a DEF HostState
        <4>2. QED
          BY <1>e, <3>2, <4>1 DEF TxNext
      <3>3. QED
        BY <1>1, <3>1, <3>2
    <2>2. LinksUp'
      BY <1>0, <2>1 DEF LinksUp, Up
    <2>3. ~disturbed' => Latest'
      BY <1>l, <2>1 DEF Marking, Latest, IndicationLatest, Wants
    <2>4. \A p \in Peers, c \in Chars : Stands(p, c)' => Stands(p, c)
      BY <2>1 DEF Stands
    <2>5. QED
      BY <2>1, <2>2, <2>3, <2>4, Aside DEF Awaits
  <1>2. ASSUME NEW p \in Peers, TxOne(p) PROVE Marking'
    <2> DEFINE c == host.c
               op == Update(cfg[p][c], ind[p] # 0)
               m == cfg[p][c].mod /\ op = "none"
    <2>1. /\ host.at = "tx" /\ p \in host.todo /\ c \in Chars /\ Send(p, c, op)
          /\ cfg' = [cfg EXCEPT ![p][c].mod = m]
          /\ UNCHANGED <<conn, bonded, bonds, recs, app, disturbed>>
      BY <1>0, <1>2 DEF TxOne, HostWorks
    <2>2. host'.at = "tx" /\ host'.todo \subseteq host.todo
      BY <1>a, <1>2 DEF TxOne, HostState
    <2>3. cfg[p][c] \in Flags
      BY <1>a, <2>1
    <2>m. op # "none" => cfg[p][c].mod
      BY DEF Update
    <2>4. /\ \A q \in Peers, d \in Chars : (q = p /\ d = c) \/ cfg'[q][d] = cfg[q][d]
          /\ cfg'[p][c].mod = m
      <3> DEFINE k == [cfg[p][c] EXCEPT !.mod = m]
      <3>1. k.mod = m
        BY <2>3 DEF Flags
      <3>2. cfg' = [cfg EXCEPT ![p][c] = k]
        BY <2>1
      <3> HIDE DEF k, m
      <3>3. \A q \in Peers, d \in Chars : cfg'[q][d] = IF q = p /\ d = c THEN k ELSE cfg[q][d]
        BY <1>a, <2>1, <3>2, EntryValue
      <3>4. QED
        BY <2>1, <3>1, <3>3
    <2> HIDE DEF c, op
    <2>5. /\ \A q \in Peers, d \in Chars :
               /\ missed'[q][d] => missed[q][d]
               /\ fate'[q][d] = fate[q][d] \/ (q = p /\ d = c /\ op # "none")
          /\ \A q \in Peers : ind'[q] = ind[q] \/ q = p
      BY <1>0, <2>1, SendTells
    <2>6. conn[p] = "up"
      BY <1>0, <2>1 DEF LinksUp, Up
    <2>7. LinksUp'
      BY <1>0, <2>1, <2>2, <2>5, <2>6 DEF LinksUp, Up
    <2>8. ASSUME ~disturbed' PROVE Latest'
      <3>1. IndicationLatest
        BY <2>1, <2>8 DEF Marking, Latest
      <3>2. \A q \in Peers, d \in Chars :
               (q = p /\ d = c /\ op # "none") \/ (~cfg'[q][d].mod => ~cfg[q][d].mod)
        BY <2>4
      <3>3. IndicationLatest'
        BY <1>0, <2>1, <3>1, <3>2, SendLatest
      <3>4. QED
        BY <1>l, <2>2, <3>3 DEF Latest
    <2>9. ASSUME NEW q \in Peers, NEW d \in Chars, Stands(q, d)' PROVE Stands(q, d)
      <3>1. CASE q = p /\ d = c
        BY <2>m, <2>4, <2>5, <2>9, <3>1 DEF Stands
      <3>2. CASE ~(q = p /\ d = c)
        BY <2>4, <2>5, <2>9, <3>2 DEF Stands
      <3>3. QED
        BY <3>1, <3>2
    <2>10. QED
      BY <2>1, <2>2, <2>5, <2>7, <2>8, <2>9, Aside DEF Awaits
  <1>3. CASE SendNextIndicate
    <2> DEFINE p == host.p
               M == {d \in Chars : cfg[p][d].mod}
               c == Min(M)
    <2>1. /\ host.at = "next" /\ p \in Peers /\ conn[p] = "up"
          /\ host' = Idle
          /\ UNCHANGED <<conn, bonded, bonds, recs, app, disturbed>>
          /\ IF M = {} THEN UNCHANGED <<cfg, unconf, ind, procs, missed, fate, used>>
             ELSE cfg' = [cfg EXCEPT ![p][c].mod = FALSE] /\ Send(p, c, "indicate")
      BY <1>0, <1>3 DEF SendNextIndicate, HostWorks, LinksUp
    <2>2. CASE M = {}
      <3>1. LinksUp'
        BY <1>0, <1>e, <2>1, <2>2 DEF LinksUp
      <3>2. ~disturbed' => Latest'
        BY <1>e, <1>l, <2>1, <2>2 DEF Marking, Latest, IndicationLatest, Wants
      <3>3. \A q \in Peers, d \in Chars : Stands(q, d)' => Stands(q, d)
        BY <2>1, <2>2 DEF Stands
      <3>4. QED
        BY <1>e, <2>1, <2>2, <3>1, <3>2, <3>3, Aside DEF Awaits
    <2>3. CASE M # {}
      <3>1. M \subseteq Chars /\ M \in SUBSET Nat
        BY CharsAssumption DEF Chars
      <3>2. cfg' = [cfg EXCEPT ![p][c].mod = FALSE] /\ Send(p, c, "indicate")
        BY <2>1, <2>3
      <3>3. c \in M /\ c \in Chars
        <4> HIDE DEF M
        <4>1. QED
          BY <2>3, <3>1, MinIsIn
      <3>m. cfg[p][c].mod
        BY <3>3
      <3> HIDE DEF c, p
      <3>4. \A q \in Peers, d \in Chars : (q = p /\ d = c) \/ cfg'[q][d] = cfg[q][d]
        <4> DEFINE k == [cfg[p][c] EXCEPT !.mod = FALSE]
        <4>1. cfg' = [cfg EXCEPT ![p][c] = k]
          BY <3>2
        <4> HIDE DEF k
        <4>2. \A q \in Peers, d \in Chars : cfg'[q][d] = IF q = p /\ d = c THEN k ELSE cfg[q][d]
          BY <1>a, <2>1, <3>3, <4>1, EntryValue
        <4>3. QED
          BY <4>2
      <3>5. /\ \A q \in Peers, d \in Chars :
                 /\ missed'[q][d] => missed[q][d]
                 /\ fate'[q][d] = fate[q][d] \/ (q = p /\ d = c)
            /\ \A q \in Peers : ind'[q] = ind[q] \/ q = p
        BY <1>0, <2>1, <3>2, <3>3, SendTells
      <3>6. LinksUp'
        BY <1>0, <1>e, <2>1, <3>5 DEF LinksUp
      <3>7. ASSUME ~disturbed' PROVE Latest'
        <4>1. IndicationLatest
          BY <2>1, <3>7 DEF Marking, Latest
        <4>2. IndicationLatest'
          BY <1>0, <2>1, <3>2, <3>3, <3>4, <4>1, SendLatest
        <4>3. QED
          BY <1>e, <1>l, <2>1, <4>2 DEF Latest
      <3>8. ASSUME NEW q \in Peers, NEW d \in Chars, Stands(q, d)' PROVE Stands(q, d)
        <4>1. CASE q = p /\ d = c
          BY <3>m, <3>5, <3>8, <4>1 DEF Stands
        <4>2. CASE ~(q = p /\ d = c)
          BY <3>4, <3>5, <3>8, <4>2 DEF Stands
        <4>3. QED
          BY <4>1, <4>2
      <3>9. QED
        BY <1>e, <2>1, <3>5, <3>6, <3>7, <3>8, Aside DEF Awaits
    <2>4. QED
      BY <2>2, <2>3
  <1>4. QED
    BY <1>1, <1>2, <1>3

(* Steps that bring no change back.                                        *)
LEMMA StandsStill ==
    ASSUME \A p \in Peers, c \in Chars : /\ missed'[p][c] => missed[p][c]
                                         /\ fate[p][c] = "dropped" => fate'[p][c] = "dropped"
                                         /\ cfg'[p][c].mod => cfg[p][c].mod
    PROVE  \A p \in Peers, c \in Chars : Stands(p, c)' => Awaits(p, c) \/ Noted(p, c)
  BY DEF Stands, Awaits

LEMMA MarkingLinks ==
    ASSUME Marking, Subscribing', ConnDelete \/ RestoreRead
               \/ \E p \in Peers : Restore(p) \/ Connect(p) \/ ConnectionBroken(p)
    PROVE  Marking'
  <1> USE DEF linkVars, indVars, ghosts
  <1>0. TypeOK /\ LinksUp /\ LinksKept /\ HostWorks(host) /\ IsTable(recs)
    BY DEF Marking, Subscribing, Types, TypeOK
  <1>a. /\ cfg \in [Peers -> [Chars -> Flags]] /\ host \in HostState
        /\ conn \in [Peers -> {"down", "up", "broken"}] /\ ind \in [Peers -> 0 .. NumChars]
        /\ fate \in [Peers -> [Chars -> Fates]]
    BY <1>0 DEF TypeOK
  <1>e. Idle.at = "idle"
    BY DEF Idle
  <1>l. host'.at \in {"idle", "read", "broken"} => RecordLatest' /\ RecordRead'
    BY DEF RecordLatest, RecordRead
  <1>s. ASSUME UNCHANGED <<cfg, fate, missed>>
        PROVE  \A p \in Peers, c \in Chars : Stands(p, c)' => Awaits(p, c) \/ Noted(p, c)
    BY <1>s, StandsStill
  <1>1. CASE RestoreRead
    <2>1. /\ host.at = "read" /\ host'.at \in {"restore", "idle"}
          /\ UNCHANGED <<linkVars, recs, app, ghosts>>
      BY <1>a, <1>e, <1>1 DEF RestoreRead, HostState
    <2>2. LinksUp'
      BY <1>0, <2>1 DEF LinksUp
    <2>3. RecordRead'
      <3> SUFFICES ASSUME host'.at = "restore" PROVE RecordRead'
        BY DEF RecordRead
      <3>1. host' # Idle
        BY <1>e
      <3>2. PICK j \in OfPeer(host.p) : host' = [host EXCEPT !.at = "restore", !.rec = recs[j]]
        BY <1>1, <3>1 DEF RestoreRead
      <3>3. host'.p = host.p /\ host'.rec = recs[j]
        BY <1>a, <3>2 DEF HostState
      <3>4. j \in DOMAIN recs /\ recs[j].p = host.p /\ recs[j] # NoRec
        BY <1>0, NoRecAssumption DEF OfPeer, IsTable
      <3>5. Stored(host.p, recs[j].c) = recs[j]
        BY <1>0, <3>4, StoredFacts
      <3>6. Stored(host.p, host.rec.c)' = recs[j]
        BY <2>1, <3>3, <3>5 DEF Stored, Index
      <3>7. QED
        BY <3>3, <3>4, <3>6 DEF RecordRead
    <2>4. ~disturbed' => Latest'
      BY <2>1, <2>3 DEF Marking, Latest, IndicationLatest, RecordLatest, Wants
    <2>5. QED
      BY <1>s, <2>1, <2>2, <2>4, Aside
  <1>2. ASSUME NEW p \in Peers, Restore(p) PROVE Marking'
    <2>1. /\ host.at = "idle" /\ host'.at = "read"
          /\ UNCHANGED <<conn, bonds, cfg, ind, unconf, recs, app, ghosts>>
      BY <1>2 DEF Restore, Idle
    <2>2. LinksUp'
      BY <1>0, <2>1 DEF LinksUp
    <2>3. ~disturbed' => Latest'
      BY <1>l, <2>1 DEF Marking, Latest, IndicationLatest, Wants
    <2>4. QED
      BY <1>s, <2>1, <2>2, <2>3, Aside
  <1>3. ASSUME NEW p \in Peers, Connect(p) PROVE Marking'
    <2>1. /\ host.at = "idle" /\ conn[p] = "down" /\ conn' = [conn EXCEPT ![p] = "up"]
          /\ UNCHANGED <<bonded, bonds, cfg, ind, recs, host, app, ghosts>>
      BY <1>3 DEF Connect
    <2>2. \A q \in Peers : conn'[q] = IF q = p THEN "up" ELSE conn[q]
      BY <1>a, <2>1
    <2>3. LinksUp'
      BY <1>0, <2>1, <2>2 DEF LinksUp
    <2>4. \A c \in Chars : ind[p] # c
      BY <1>0, <2>1, CharsAssumption DEF LinksUp, Chars
    <2>5. ~disturbed' => Latest'
      BY <1>l, <2>1, <2>2, <2>4 DEF Marking, Latest, IndicationLatest, Wants
    <2>6. QED
      BY <1>s, <2>1, <2>3, <2>5, Aside
  <1>4. ASSUME NEW p \in Peers, ConnectionBroken(p) PROVE Marking'
    <2>1. /\ host.at = "idle" /\ conn[p] = "up" /\ conn' = [conn EXCEPT ![p] = "broken"]
          /\ cfg' = [cfg EXCEPT ![p] = NewCfg] /\ host'.at = "broken" /\ host'.p = p
          /\ UNCHANGED <<bonded, bonds, ind, recs, app, missed, disturbed>>
          /\ fate' = [fate EXCEPT ![p] =
                        [c \in Chars |-> IF @[c] = "dropped" THEN "dropped" ELSE "none"]]
      BY <1>4 DEF ConnectionBroken, Idle
    <2>2. \A q \in Peers : /\ conn'[q] = IF q = p THEN "broken" ELSE conn[q]
                           /\ q # p => cfg'[q] = cfg[q] /\ fate'[q] = fate[q]
      BY <1>a, <2>1
    <2>3. \A c \in Chars : ~cfg'[p][c].mod /\ (fate[p][c] = "dropped" => fate'[p][c] = "dropped")
      BY <1>a, <2>1 DEF NewCfg
    <2>4. LinksUp'
      BY <1>0, <2>1, <2>2 DEF LinksUp
    <2>5. ASSUME ~disturbed' PROVE Latest'
      <3>1. IndicationLatest
        BY <2>1, <2>5 DEF Marking, Latest
      <3>2. IndicationLatest'
        <4> SUFFICES ASSUME NEW q \in Peers, NEW c \in Chars, conn'[q] = "up", ind[q] = c,
                            missed[q][c], fate'[q][c] # "dropped", ~cfg'[q][c].mod
                     PROVE  fate'[q][c] = "sent"
          BY <2>1 DEF IndicationLatest, Wants
        <4>1. conn[q] = "up" /\ cfg'[q] = cfg[q] /\ fate'[q] = fate[q]
          BY <2>2
        <4>2. QED
          BY <3>1, <4>1 DEF IndicationLatest, Wants
      <3>3. QED
        BY <1>l, <2>1, <3>2 DEF Latest
    <2>6. \A q \in Peers, c \in Chars : /\ missed'[q][c] => missed[q][c]
                                        /\ fate[q][c] = "dropped" => fate'[q][c] = "dropped"
                                        /\ cfg'[q][c].mod => cfg[q][c].mod
      BY <2>1, <2>2, <2>3
    <2>7. QED
      BY <2>1, <2>4, <2>5, <2>6, StandsStill, Aside
  <1>5. CASE ConnDelete
    <2> DEFINE p == host.p
    <2>1. /\ host.at = "broken" /\ p \in Peers /\ conn' = [conn EXCEPT ![p] = "down"]
          /\ ind' = [ind EXCEPT ![p] = 0] /\ host' = Idle
          /\ UNCHANGED <<bonds, cfg, recs, app, ghosts>>
      BY <1>0, <1>5 DEF ConnDelete, HostWorks
    <2>2. \A q \in Peers : /\ conn'[q] = IF q = p THEN "down" ELSE conn[q]
                           /\ ind'[q] = IF q = p THEN 0 ELSE ind[q]
      BY <1>a, <2>1
    <2>3. LinksUp'
      BY <1>0, <1>e, <2>1, <2>2 DEF LinksUp
    <2>4. ~disturbed' => Latest'
      BY <1>e, <1>l, <2>1, <2>2 DEF Marking, Latest, IndicationLatest, Wants
    <2>5. QED
      BY <1>e, <1>s, <2>1, <2>3, <2>4, Aside
  <1>6. QED
    BY <1>1, <1>2, <1>3, <1>4, <1>5

(* The end of an indicate procedure: what is stored after it was confirmed *)
(* is wanted no more.                                                      *)
LEMMA AckComposes ==
    ASSUME TypeOK, NEW p \in Peers, NEW c \in Chars, RxIndicateAck(p, c)
    PROVE  \/ host'.at = "idle"
           \/ host'.at = "next" /\ host'.p = p
           \/ /\ host'.at = "ackstore" /\ host'.p = p /\ host'.rec.c = c /\ ~host'.rec.mod
              /\ ~cfg[p][c].mod /\ ind[p] = c
  <1> DEFINE k == cfg[p][c]
             r == Rec(p, c, k)
  <1>1. \/ host' = Idle
        \/ host' = [Idle EXCEPT !.at = "next", !.p = p]
        \/ ~k.mod /\ ind[p] = c /\ host' = [Idle EXCEPT !.at = "ackstore", !.p = p, !.rec = r]
    BY DEF RxIndicateAck
  <1>2. r.c = c /\ r.mod = k.mod
    BY DEF Rec
  <1> HIDE DEF r
  <1>3. CASE ~k.mod /\ ind[p] = c /\ host' = [Idle EXCEPT !.at = "ackstore", !.p = p, !.rec = r]
    <2>1. host'.at = "ackstore" /\ host'.p = p /\ host'.rec = r
      BY <1>3 DEF Idle
    <2>2. QED
      BY <1>2, <1>3, <2>1
  <1>4. CASE host' = Idle \/ host' = [Idle EXCEPT !.at = "next", !.p = p]
    BY <1>4, Idles
  <1>5. QED
    BY <1>1, <1>3, <1>4

LEMMA MarkingAnswer ==
    ASSUME Marking, Subscribing', NEW p \in Peers,
           IndicateRxRsp(p) \/ IndicateErr(p) \/ IndicateTmo(p)
    PROVE  Marking'
  <1> USE DEF linkVars, indVars, ghosts
  <1>0. TypeOK /\ LinksUp /\ HostWorks(host)
    BY DEF Marking, Subscribing, Types
  <1>a. /\ ind \in [Peers -> 0 .. NumChars] /\ fate \in [Peers -> [Chars -> Fates]]
        /\ missed \in [Peers -> [Chars -> BOOLEAN]] /\ procs[p] \in Seq(Chars)
    BY <1>0 DEF TypeOK
  <1>1. /\ host.at = "idle" /\ conn[p] = "up"
        /\ UNCHANGED <<conn, bonds, cfg, recs, app, disturbed>>
    BY DEF IndicateRxRsp, IndicateErr, IndicateTmo
  <1>2. CASE UNCHANGED <<ind, host, missed, fate>>
    <2>1. LinksUp'
      BY <1>0, <1>1, <1>2 DEF LinksUp, Up
    <2>2. ~disturbed' => Latest'
      BY <1>1, <1>2 DEF Marking, Latest, IndicationLatest, RecordLatest, RecordRead, Wants
    <2>3. \A q \in Peers, d \in Chars : Stands(q, d)' => Awaits(q, d) \/ Noted(q, d)
      BY <1>1, <1>2, StandsStill
    <2>4. QED
      BY <1>1, <1>2, <2>1, <2>2, <2>3, Aside
  <1>3. ASSUME NEW c \in Chars, RxIndicateAck(p, c),
               \A q \in Peers, d \in Chars :
                  /\ missed'[q][d] => missed[q][d]
                  /\ fate'[q][d] = fate[q][d] \/ fate'[q][d] = "dropped",
               fate[p][c] = "sent" => ~missed'[p][c] \/ fate'[p][c] = "dropped"
        PROVE  Marking'
    <2>1. /\ \A q \in Peers : ind'[q] = ind[q] \/ ind'[q] = 0
          /\ host'.at = "idle" \/ (host'.at \in {"ackstore", "next"} /\ host'.p = p)
      BY <1>0, <1>3, AckFrees
    <2>2. \/ host'.at \in {"idle", "next"}
          \/ /\ host'.at = "ackstore" /\ host'.p = p /\ host'.rec.c = c /\ ~host'.rec.mod
             /\ ~cfg[p][c].mod /\ ind[p] = c
      BY <1>0, <1>3, AckComposes
    <2>3. LinksUp'
      BY <1>0, <1>1, <2>1 DEF LinksUp
    <2>4. ASSUME ~disturbed' PROVE Latest'
      <3>1. IndicationLatest
        BY <1>1, <2>4 DEF Marking, Latest
      <3>2. \A d \in Chars : d # 0
        BY CharsAssumption DEF Chars
      <3>3. IndicationLatest'
        <4> SUFFICES ASSUME NEW q \in Peers, NEW d \in Chars, conn[q] = "up", ind'[q] = d,
                            missed'[q][d], fate'[q][d] # "dropped", ~cfg[q][d].mod
                     PROVE  fate'[q][d] = "sent"
          BY <1>1 DEF IndicationLatest, Wants
        <4>1. ind[q] = d /\ missed[q][d] /\ fate'[q][d] = fate[q][d]
          BY <1>3, <2>1, <3>2
        <4>2. QED
          BY <3>1, <4>1 DEF IndicationLatest, Wants
      <3>4. RecordLatest'
        <4>1. CASE host'.at \in {"idle", "next"}
          BY <4>1 DEF RecordLatest
        <4>2. CASE /\ host'.at = "ackstore" /\ host'.p = p /\ host'.rec.c = c /\ ~host'.rec.mod
                   /\ ~cfg[p][c].mod /\ ind[p] = c
          <5>1. ~Wants(p, c)'
            BY <1>1, <1>3, <3>1, <4>2 DEF IndicationLatest, Wants
          <5>2. QED
            BY <4>2, <5>1 DEF RecordLatest, Wants
        <4>3. QED
          BY <2>2, <4>1, <4>2
      <3>5. RecordRead'
        BY <2>1 DEF RecordRead
      <3>6. QED
        BY <3>3, <3>4, <3>5 DEF Latest
    <2>5. \A q \in Peers, d \in Chars : Stands(q, d)' => Awaits(q, d) \/ Noted(q, d)
      BY <1>1, <1>3, StandsStill
    <2>6. QED
      BY <1>1, <1>3, <2>1, <2>3, <2>4, <2>5, Aside
  <1>4. ASSUME procs[p] # <<>> PROVE Head(procs[p]) \in Chars
    BY <1>a, <1>4
  <1>5. CASE IndicateRxRsp(p)
    <2> DEFINE c == Head(procs[p])
               latest == fate[p][c] = "sent"
    <2>1. CASE procs[p] = <<>>
      BY <1>2, <1>5, <2>1 DEF IndicateRxRsp
    <2>2. CASE procs[p] # <<>>
      <3>1. /\ RxIndicateAck(p, c)
            /\ missed' = [missed EXCEPT ![p][c] = @ /\ ~(latest /\ hasty[p] = 0)]
            /\ fate' = IF latest /\ hasty[p] > 0 THEN [fate EXCEPT ![p][c] = "dropped"] ELSE fate
            /\ c \in Chars /\ hasty[p] \in Nat
        BY <1>0, <1>4, <1>5, <2>2, LinkTypes DEF IndicateRxRsp
      <3> DEFINE b == missed[p][c] /\ ~(latest /\ hasty[p] = 0)
      <3>b. (b => missed[p][c]) /\ (latest /\ b => hasty[p] > 0) /\ missed' = [missed EXCEPT ![p][c] = b]
        BY <3>1
      <3> HIDE DEF b, c, latest
      <3>2. \A q \in Peers, d \in Chars : missed'[q][d] = IF q = p /\ d = c THEN b ELSE missed[q][d]
        BY <1>a, <3>1, <3>b, EntryValue
      <3>3. \A q \in Peers, d \in Chars :
               fate'[q][d] = IF q = p /\ d = c /\ latest /\ hasty[p] > 0 THEN "dropped"
                             ELSE fate[q][d]
        BY <1>a, <3>1
      <3>4. fate[p][c] = "sent" => ~missed'[p][c] \/ fate'[p][c] = "dropped"
        BY <3>1, <3>b, <3>2, <3>3 DEF latest
      <3>5. \A q \in Peers, d \in Chars :
               /\ missed'[q][d] => missed[q][d]
               /\ fate'[q][d] = fate[q][d] \/ fate'[q][d] = "dropped"
        BY <3>1, <3>b, <3>2, <3>3
      <3>6. QED
        BY <1>3, <3>1, <3>4, <3>5
    <2>3. QED
      BY <2>1, <2>2
  <1>6. CASE IndicateErr(p)
    <2> DEFINE c == Head(procs[p])
    <2>1. /\ RxIndicateAck(p, c) /\ missed' = missed /\ c \in Chars
          /\ fate' = IF fate[p][c] = "sent" THEN [fate EXCEPT ![p][c] = "dropped"] ELSE fate
      BY <1>4, <1>6 DEF IndicateErr
    <2> HIDE DEF c
    <2>2. \A q \in Peers, d \in Chars :
             fate'[q][d] = IF q = p /\ d = c /\ fate[p][c] = "sent" THEN "dropped" ELSE fate[q][d]
      BY <1>a, <2>1
    <2>3. QED
      BY <1>3, <2>1, <2>2
  <1>7. CASE IndicateTmo(p)
    BY <1>2, <1>7 DEF IndicateTmo
  <1>8. QED
    BY <1>5, <1>6, <1>7

LEMMA MarkingCfg ==
    ASSUME Marking, Subscribing', NEW p \in Peers, NEW c \in Chars, NEW s, CltCfgWrite(p, c, s)
    PROVE  Marking'
  <1> USE DEF linkVars, indVars, ghosts
  <1>0. /\ TypeOK /\ LinksUp /\ LinksKept /\ cfg \in [Peers -> [Chars -> Flags]]
        /\ fate \in [Peers -> [Chars -> Fates]]
    BY DEF Marking, Subscribing, Types, TypeOK
  <1> DEFINE k == [sub |-> s, mod |-> FALSE]
             drops == cfg[p][c].mod \/ (bonded[p] /\ missed[p][c])
  <1>1. /\ host.at = "idle" /\ conn[p] = "up" /\ cfg' = [cfg EXCEPT ![p][c] = k]
        /\ fate' = IF drops THEN [fate EXCEPT ![p][c] = "dropped"] ELSE fate
        /\ UNCHANGED <<conn, bonds, ind, recs, app, missed, disturbed>>
    BY DEF CltCfgWrite
  <1>2. ~k.mod
    OBVIOUS
  <1>3. \/ host' = host
        \/ /\ host'.at = "cfgstore" /\ host'.p = p /\ host'.rec.c = c /\ ~host'.rec.mod /\ bonded[p]
    <2> DEFINE r == Rec(p, c, cfg'[p][c])
    <2>1. host' = host \/ (bonded[p] /\ host' = [Idle EXCEPT !.at = "cfgstore", !.p = p, !.rec = r])
      BY DEF CltCfgWrite
    <2>2. cfg'[p][c] = k
      BY <1>0, <1>1, EntryValue
    <2>3. r.c = c /\ r.mod = cfg'[p][c].mod
      BY DEF Rec
    <2> HIDE DEF r
    <2>4. /\ [Idle EXCEPT !.at = "cfgstore", !.p = p, !.rec = r].at = "cfgstore"
          /\ [Idle EXCEPT !.at = "cfgstore", !.p = p, !.rec = r].p = p
          /\ [Idle EXCEPT !.at = "cfgstore", !.p = p, !.rec = r].rec = r
      BY DEF Idle
    <2>5. QED
      BY <1>2, <2>1, <2>2, <2>3, <2>4
  <1> HIDE DEF k, drops
  <1>4. \A q \in Peers, d \in Chars :
           /\ cfg'[q][d] = IF q = p /\ d = c THEN k ELSE cfg[q][d]
           /\ fate'[q][d] = IF q = p /\ d = c /\ drops THEN "dropped" ELSE fate[q][d]
    <2>1. \A q \in Peers, d \in Chars : cfg'[q][d] = IF q = p /\ d = c THEN k ELSE cfg[q][d]
      BY <1>0, <1>1, EntryValue
    <2>2. \A q \in Peers, d \in Chars :
             fate'[q][d] = IF q = p /\ d = c /\ drops THEN "dropped" ELSE fate[q][d]
      BY <1>0, <1>1
    <2>3. QED
      BY <2>1, <2>2
  <1>5. LinksUp'
    BY <1>0, <1>1, <1>3 DEF LinksUp
  <1>6. ASSUME ~disturbed' PROVE Latest'
    <2>1. IndicationLatest
      BY <1>1, <1>6 DEF Marking, Latest
    <2>2. IndicationLatest'
      <3> SUFFICES ASSUME NEW q \in Peers, NEW d \in Chars, conn[q] = "up", ind[q] = d,
                          missed[q][d], fate'[q][d] # "dropped", ~cfg'[q][d].mod
                   PROVE  fate'[q][d] = "sent"
        BY <1>1 DEF IndicationLatest, Wants
      <3>1. ~cfg[q][d].mod /\ fate'[q][d] = fate[q][d]
        BY <1>4 DEF drops
      <3>2. QED
        BY <2>1, <3>1 DEF IndicationLatest, Wants
    <2>3. RecordLatest' /\ RecordRead'
      <3>1. CASE host' = host
        BY <1>1, <3>1 DEF RecordLatest, RecordRead
      <3>2. CASE host'.at = "cfgstore" /\ host'.p = p /\ host'.rec.c = c /\ ~host'.rec.mod /\ bonded[p]
        <4>1. ~(missed'[p][c] /\ fate'[p][c] # "dropped")
          BY <1>1, <1>4, <3>2 DEF drops
        <4>2. QED
          BY <3>2, <4>1 DEF RecordLatest, RecordRead, Wants
      <3>3. QED
        BY <1>3, <3>1, <3>2
    <2>4. QED
      BY <2>2, <2>3 DEF Latest
  <1>7. \A q \in Peers, d \in Chars : Stands(q, d)' => Awaits(q, d) \/ Noted(q, d)
    BY <1>1, <1>2, <1>4, StandsStill
  <1>8. QED
    BY <1>1, <1>3, <1>5, <1>6, <1>7, Aside

LEMMA MarkingRestored ==
    ASSUME Marking, Subscribing', BondingRestored
    PROVE  Marking'
  <1> USE DEF linkVars, indVars, ghosts
  <1>0. /\ TypeOK /\ LinksUp /\ LinksKept /\ HostWorks(host) /\ host \in HostState
        /\ cfg \in [Peers -> [Chars -> Flags]] /\ fate \in [Peers -> [Chars -> Fates]]
    BY DEF Marking, Subscribing, Types, TypeOK
  <1> DEFINE p == host.p
             c == host.rec.c
             k == [sub |-> host.rec.sub, mod |-> host.rec.mod \/ host.rec.changed]
             op == IF host.rec.changed THEN Update(k, ind[p] # 0) ELSE "none"
             e == [sub |-> k.sub, mod |-> k.mod /\ op = "none"]
  <1>1. /\ p \in Peers /\ c \in Chars /\ host.rec \in Record /\ host.rec.p = p
        /\ host.at = "restore" /\ conn[p] = "up"
        /\ UNCHANGED <<conn, bonds, recs, app>>
        /\ (op = "none" /\ Reschedule(p, c, k.mod)) \/ (op # "none" /\ Send(p, c, op))
        /\ cfg' = [cfg EXCEPT ![p][c] = e]
        /\ disturbed' = (disturbed \/ Overtaken(host.rec))
        /\ host' = IF op = "notify" /\ used' = used
                   THEN [host EXCEPT !.at = "sent"]
                   ELSE [host EXCEPT !.at = "read", !.c = @ + 1, !.rec = NoRec]
    BY <1>0 DEF BondingRestored, HostWorks, Record, LinksKept
  <1>2. \/ /\ host'.at = "sent" /\ host'.p = p /\ host'.rec = host.rec
           /\ op = "notify" /\ used' = used
        \/ host'.at = "read"
    BY <1>0, <1>1 DEF HostState
  <1>m. /\ k.mod = (host.rec.mod \/ host.rec.changed)
        /\ e.mod = (k.mod /\ op = "none")
        /\ op # "none" => host.rec.changed
    OBVIOUS
  <1> HIDE DEF e, op, k
  <1>3. \A q \in Peers, d \in Chars : cfg'[q][d] = IF q = p /\ d = c THEN e ELSE cfg[q][d]
    BY <1>0, <1>1, EntryValue
  <1>4. CASE op = "none" /\ Reschedule(p, c, k.mod)
    <2>1. /\ missed' = missed /\ ind' = ind
          /\ \/ k.mod /\ fate' = [fate EXCEPT ![p][c] = "pending"]
             \/ ~k.mod /\ cfg[p][c].mod /\ fate' = [fate EXCEPT ![p][c] = "dropped"]
             \/ ~k.mod /\ ~cfg[p][c].mod /\ fate' = fate
      BY <1>4 DEF Reschedule
    <2>2. \A q \in Peers, d \in Chars : fate'[q][d] = fate[q][d] \/ (q = p /\ d = c)
      BY <1>0, <2>1
    <2>3. ~k.mod => (fate'[p][c] = fate[p][c] \/ fate'[p][c] = "dropped") /\ ~cfg'[p][c].mod
      <3>1. ~cfg'[p][c].mod <=> ~k.mod
        <4>1. cfg'[p][c] = e
          BY <1>1, <1>3
        <4>2. e.mod <=> k.mod
          BY <1>4, <1>m
        <4>3. QED
          BY <4>1, <4>2
      <3>2. [fate EXCEPT ![p][c] = "dropped"][p][c] = "dropped"
        BY <1>0, <1>1
      <3>3. ASSUME ~k.mod PROVE fate' = fate \/ fate' = [fate EXCEPT ![p][c] = "dropped"]
        BY <2>1, <3>3
      <3>4. QED
        BY <3>1, <3>2, <3>3
    <2>4. k.mod => cfg'[p][c].mod
      BY <1>1, <1>3, <1>4, <1>m
    <2>5. LinksUp'
      BY <1>0, <1>1, <1>2, <2>1 DEF LinksUp
    <2>6. host'.at = "read"
      BY <1>2, <1>4
    <2>7. ASSUME ~disturbed' PROVE Latest'
      <3>1. IndicationLatest /\ ~cfg[p][c].mod
        BY <1>1, <2>7 DEF Marking, Latest, Overtaken
      <3>2. IndicationLatest'
        <4> SUFFICES ASSUME NEW q \in Peers, NEW d \in Chars, conn[q] = "up", ind[q] = d,
                            missed[q][d], fate'[q][d] # "dropped", ~cfg'[q][d].mod
                     PROVE  fate'[q][d] = "sent"
          BY <1>1, <2>1 DEF IndicationLatest, Wants
        <4>1. fate'[q][d] = fate[q][d] /\ ~cfg[q][d].mod
          BY <1>3, <2>2, <2>3, <2>4, <3>1
        <4>2. QED
          BY <3>1, <4>1 DEF IndicationLatest, Wants
      <3>3. QED
        BY <2>6, <3>2 DEF Latest, RecordLatest, RecordRead
    <2>8. ASSUME ~disturbed', NEW q \in Peers, NEW d \in Chars, Stands(q, d)'
          PROVE  Awaits(q, d) \/ Noted(q, d)
      <3>1. CASE ~(q = p /\ d = c)
        BY <1>3, <2>1, <2>2, <2>8, <3>1 DEF Stands, Awaits
      <3>2. CASE q = p /\ d = c /\ ~k.mod
        BY <2>1, <2>3, <2>8, <3>2 DEF Stands, Awaits
      <3>3. CASE q = p /\ d = c /\ k.mod
        <4>1. /\ Stored(p, c) # NoRec
              /\ Stored(p, c) = host.rec \/ Stored(p, c).changed
          BY <1>1, <2>8 DEF Marking, Latest, RecordRead
        <4>2. CASE Stored(p, c).changed
          BY <3>3, <4>1, <4>2 DEF Noted
        <4>3. CASE Stored(p, c) = host.rec
          <5>1. missed[p][c] /\ (Stored(p, c).mod \/ Stored(p, c).changed)
            BY <1>m, <2>1, <2>8, <3>3, <4>3 DEF Stands
          <5>2. QED
            BY <3>3, <4>1, <5>1 DEF Noted, Awaits
        <4>4. QED
          BY <4>1, <4>2, <4>3
      <3>4. QED
        BY <3>1, <3>2, <3>3
    <2>9. disturbed => disturbed'
      BY <1>1
    <2>10. QED
      BY <1>1, <2>1, <2>5, <2>6, <2>7, <2>8, <2>9, Aside
  <1>5. CASE op # "none" /\ Send(p, c, op)
    <2>1. /\ \A q \in Peers, d \in Chars :
               /\ missed'[q][d] => missed[q][d]
               /\ fate'[q][d] = fate[q][d] \/ (q = p /\ d = c)
          /\ op = "notify" /\ used' = used => ~missed'[p][c]
          /\ \A q \in Peers : ind'[q] = ind[q] \/ q = p
      BY <1>0, <1>1, <1>5, SendTells
    <2>2. LinksUp'
      BY <1>0, <1>1, <1>2, <2>1 DEF LinksUp
    <2>3. ASSUME ~disturbed' PROVE Latest'
      <3>1. IndicationLatest
        BY <1>1, <2>3 DEF Marking, Latest
      <3>2. IndicationLatest'
        <4>1. \A q \in Peers, d \in Chars :
                 (q = p /\ d = c /\ op # "none") \/ (~cfg'[q][d].mod => ~cfg[q][d].mod)
          BY <1>3, <1>5
        <4> HIDE DEF p, c
        <4>2. QED
          BY <1>0, <1>1, <1>5, <3>1, <4>1, SendLatest
      <3>3. RecordLatest' /\ RecordRead'
        BY <1>2, <2>1 DEF RecordLatest, RecordRead
      <3>4. QED
        BY <3>2, <3>3 DEF Latest
    <2>4. ASSUME ~disturbed', NEW q \in Peers, NEW d \in Chars, Stands(q, d)'
          PROVE  Awaits(q, d) \/ Noted(q, d)
      <3>1. CASE ~(q = p /\ d = c)
        BY <1>3, <2>1, <2>4, <3>1 DEF Stands, Awaits
      <3>2. CASE q = p /\ d = c
        <4>1. /\ Stored(p, c) # NoRec
              /\ Stored(p, c) = host.rec \/ Stored(p, c).changed
          BY <1>1, <2>4 DEF Marking, Latest, RecordRead
        <4>2. Stored(p, c).changed
          BY <1>5, <1>m, <4>1
        <4>3. QED
          BY <3>2, <4>1, <4>2 DEF Noted
      <3>3. QED
        BY <3>1, <3>2
    <2>5. disturbed => disturbed'
      BY <1>1
    <2>6. QED
      BY <1>1, <1>2, <2>1, <2>2, <2>3, <2>4, <2>5, Aside
  <1>6. QED
    BY <1>1, <1>4, <1>5

LEMMA MarkingBond ==
    ASSUME Marking, Subscribing', NEW p \in Peers, Bond(p)
    PROVE  Marking'
  <1> USE DEF linkVars, indVars, ghosts
  <1>0. TypeOK /\ LinksUp
    BY DEF Marking, Subscribing, Types
  <1>1. /\ host.at = "idle" /\ p \notin bonds /\ bonds' = bonds \cup {p}
        /\ host'.at = "bond" /\ host'.p = p
        /\ UNCHANGED <<conn, cfg, ind, recs, app, ghosts>>
    BY DEF Bond, Idle
  <1>2. LinksUp'
    BY <1>0, <1>1 DEF LinksUp
  <1>3. ASSUME ~disturbed' PROVE Latest' /\ OfBonds' /\ Marked' /\ Reading'
    <2>1. IndicationLatest /\ OfBonds /\ Marked /\ Reading
      BY <1>1, <1>3 DEF Marking, Latest
    <2>2. \A q, c : Stored(q, c)' = Stored(q, c)
      BY <1>1 DEF Stored, Index
    <2>3. \A q \in Peers, c \in Chars : Awaits(q, c)' => Awaits(q, c)
      BY <1>1, <2>2 DEF Awaits, Stands
    <2>4. Marked' /\ Reading'
      BY <1>1, <2>1, <2>2, <2>3, SameKept, MarksStay
    <2>5. OfBonds'
      BY <1>1, <2>1, <2>2 DEF OfBonds
    <2>6. Latest'
      BY <1>1, <2>1 DEF Latest, IndicationLatest, RecordLatest, RecordRead, Wants
    <2>7. QED
      BY <2>4, <2>5, <2>6
  <1>4. QED
    BY <1>2, <1>3 DEF Marking

(* The store operations of the host task.                                  *)
LEMMA MarkingWrite ==
    ASSUME Marking, Types', Subscribing', LinksUp', NEW r \in Record, WriteCccd(r),
           UNCHANGED <<conn, bonds, cfg, ind, app, missed, fate>>, disturbed => disturbed',
           host'.at \notin {"ackstore", "cfgstore", "sent", "restore"},
           ~disturbed' => /\ ~Stands(r.p, r.c) /\ (~r.mod \/ ~missed[r.p][r.c]) /\ r.p \in bonds
                          /\ host'.at = "bond" =>
                               /\ host.at = "bond" /\ host'.p = host.p /\ r.p = host.p
                               /\ host.c \in Nat /\ r.c = host.c /\ host'.c = host.c + 1
    PROVE  Marking'
  <1>0. IsTable(recs)
    BY DEF Marking, Subscribing, Types, TypeOK
  <1> SUFFICES ASSUME ~disturbed' PROVE Latest' /\ OfBonds' /\ Marked' /\ Reading'
    BY DEF Marking
  <1>1. IndicationLatest /\ OfBonds /\ Marked /\ Reading
    BY DEF Marking, Latest
  <1>2. Latest'
    BY <1>1 DEF Latest, IndicationLatest, RecordLatest, RecordRead, Wants
  <1>3. \A p, c : Stored(p, c)' = IF p = r.p /\ c = r.c THEN r ELSE Stored(p, c)
    BY <1>0, WriteStores
  <1>4. Marked' /\ Reading'
    <2>1. Kept
      BY <1>0, WriteKept
    <2>2. ASSUME NEW p \in Peers, NEW c \in Chars, Awaits(p, c)'
          PROVE  Awaits(p, c) /\ Stored(p, c)' = Stored(p, c)
      <3>1. CASE p = r.p /\ c = r.c
        <4>1. Stored(p, c)' = r
          BY <1>3, <3>1
        <4>2. Stands(p, c) \/ (missed[p][c] /\ r.mod)
          BY <2>2, <4>1 DEF Awaits, Stands
        <4>3. QED
          BY <3>1, <4>2 DEF Stands
      <3>2. CASE ~(p = r.p /\ c = r.c)
        <4>1. Stored(p, c)' = Stored(p, c)
          BY <1>3, <3>2
        <4>2. QED
          BY <2>2, <4>1 DEF Awaits, Stands
      <3>3. QED
        BY <3>1, <3>2
    <2>3. QED
      BY <1>1, <2>1, <2>2, MarksStay
  <1>5. OfBonds'
    <2> SUFFICES ASSUME NEW p \in Peers, NEW c \in Chars, Stored(p, c)' # NoRec \/ missed[p][c]
                 PROVE  p \in bonds /\ (host'.at = "bond" /\ p = host'.p => c < host'.c)
      BY DEF OfBonds
    <2>0. c \in Nat
      BY CharsAssumption DEF Chars
    <2>1. CASE p = r.p /\ c = r.c
      BY <2>0, <2>1
    <2>2. CASE ~(p = r.p /\ c = r.c)
      <3>1. p \in bonds /\ (host.at = "bond" /\ p = host.p => c < host.c)
        BY <1>1, <1>3, <2>2 DEF OfBonds
      <3>2. QED
        BY <2>0, <3>1
    <2>3. QED
      BY <2>1, <2>2
  <1>6. QED
    BY <1>2, <1>4, <1>5

LEMMA MarkingStore ==
    ASSUME Marking, Types', Subscribing',
           AckStore \/ CltCfgStore \/ BondingEstablished \/ RestoreSent
    PROVE  Marking'
  <1> USE DEF linkVars, indVars, ghosts
  <1>0. /\ TypeOK /\ LinksUp /\ LinksKept /\ HostWorks(host) /\ host \in HostState
        /\ IsTable(recs) /\ cfg \in [Peers -> [Chars -> Flags]] /\ Types
    BY DEF Marking, Subscribing, Types, TypeOK
  <1>e. Idle.at = "idle"
    BY DEF Idle
  <1>l. ASSUME UNCHANGED <<conn, ind>>, host.at # "broken",
               host'.at \in {"idle", "bond", "read"} \/ (host'.at = "next" /\ conn[host'.p] = "up")
        PROVE  LinksUp'
    BY <1>0, <1>l DEF LinksUp
  <1>b. host.at \in {"ackstore", "cfgstore", "bond", "sent"}
          => host.p \in Peers /\ host.p \in bonds /\ conn[host.p] = "up"
    BY <1>0 DEF HostWorks, LinksKept
  <1>r. ASSUME ~disturbed, ~Overtaken(host.rec), host.at \in {"ackstore", "cfgstore"},
               host.rec.p = host.p
        PROVE  ~Stands(host.p, host.rec.c) /\ ~host.rec.mod
    BY <1>r DEF Marking, Latest, RecordLatest, Overtaken, Stands, Wants
  <1>1. CASE AckStore
    <2> DEFINE r == host.rec
    <2>1. /\ r \in Record /\ r.p = host.p /\ WriteCccd(r) /\ host.at = "ackstore"
          /\ host'.at = "next" /\ host'.p = host.p
          /\ disturbed' = (disturbed \/ Overtaken(r))
          /\ UNCHANGED <<linkVars, app, missed, fate>>
      BY <1>0, <1>1 DEF AckStore, HostWorks, HostState
    <2>2. LinksUp'
      BY <1>b, <1>l, <2>1
    <2>3. ASSUME ~disturbed' PROVE ~Stands(r.p, r.c) /\ ~r.mod /\ r.p \in bonds
      BY <1>b, <1>r, <2>1, <2>3
    <2> HIDE DEF r
    <2>4. disturbed => disturbed'
      BY <2>1
    <2>5. QED
      BY <2>1, <2>2, <2>3, <2>4, MarkingWrite
  <1>2. CASE RestoreSent
    <2> DEFINE r == [host.rec EXCEPT !.changed = FALSE]
    <2>1. /\ host.at = "sent" /\ WriteCccd(r) /\ host'.at = "read"
          /\ disturbed' = (disturbed \/ Overtaken(host.rec) \/ Stored(host.p, host.rec.c) # host.rec)
          /\ UNCHANGED <<linkVars, app, missed, fate>>
      BY <1>0, <1>2 DEF RestoreSent, HostState
    <2>2. r \in Record /\ r.p = host.p /\ r.c = host.rec.c /\ host.rec.p = host.p
      BY <1>0, <2>1 DEF HostWorks, Record
    <2>3. LinksUp'
      BY <1>l, <2>1
    <2> HIDE DEF r
    <2>4. ASSUME ~disturbed' PROVE ~missed[r.p][r.c] /\ r.p \in bonds
      BY <1>b, <2>1, <2>2, <2>4 DEF Marking, Latest, RecordLatest, Overtaken
    <2>5. disturbed => disturbed'
      BY <2>1
    <2>6. ~missed[r.p][r.c] => ~Stands(r.p, r.c)
      BY DEF Stands
    <2>7. QED
      BY <2>1, <2>2, <2>3, <2>4, <2>5, <2>6, MarkingWrite
  <1>3. CASE BondingEstablished
    <2> DEFINE k == cfg[host.p][host.c]
               r == Rec(host.p, host.c, k)
    <2>1. /\ host.p \in Peers /\ host.c \in Chars /\ host.at = "bond" /\ k \in Flags
          /\ host.p \in bonds /\ host.c \in Nat
      BY <1>0, <1>3, <1>b, CharsAssumption DEF BondingEstablished, HostWorks, Chars
    <2>2. WriteCccd(r) \/ UNCHANGED recs
      BY <1>3 DEF BondingEstablished
    <2>3. /\ UNCHANGED <<linkVars, app, missed, fate, disturbed>>
          /\ \/ host'.at = "idle"
             \/ host'.at = "bond" /\ host'.p = host.p /\ host'.c = host.c + 1
      <3>1. /\ [host EXCEPT !.c = @ + 1].at = host.at /\ [host EXCEPT !.c = @ + 1].p = host.p
            /\ [host EXCEPT !.c = @ + 1].c = host.c + 1
        BY <1>0 DEF HostState
      <3>2. QED
        BY <1>3, <1>e, <2>1, <3>1 DEF BondingEstablished
    <2>4. LinksUp'
      BY <1>l, <2>1, <2>3
    <2>5. CASE UNCHANGED recs
      <3>1. ASSUME ~disturbed' PROVE Latest' /\ OfBonds' /\ Marked' /\ Reading'
        <4>1. IndicationLatest /\ OfBonds /\ Marked /\ Reading
          BY <2>3, <3>1 DEF Marking, Latest
        <4>2. \A q, c : Stored(q, c)' = Stored(q, c)
          BY <2>5 DEF Stored, Index
        <4>3. \A q \in Peers, c \in Chars : Awaits(q, c)' => Awaits(q, c)
          BY <2>3, <4>2 DEF Awaits, Stands
        <4>4. Marked' /\ Reading'
          BY <2>3, <2>5, <4>1, <4>2, <4>3, SameKept, MarksStay
        <4>5. OfBonds'
          <5>1. \A c \in Chars : c < host.c => c < host.c + 1
            BY <2>1, CharsAssumption DEF Chars
          <5>2. QED
            BY <2>1, <2>3, <4>1, <4>2, <5>1 DEF OfBonds
        <4>6. Latest'
          BY <2>3, <4>1 DEF Latest, IndicationLatest, RecordLatest, RecordRead, Wants
        <4>7. QED
          BY <4>4, <4>5, <4>6
      <3>2. QED
        BY <2>4, <3>1 DEF Marking
    <2>6. CASE WriteCccd(r)
      <3>1. r \in Record /\ r.p = host.p /\ r.c = host.c
        <4> DEFINE f == k
        <4> HIDE DEF f
        <4>1. f \in Flags
          BY <2>1 DEF f
        <4>2. /\ Rec(host.p, host.c, f) \in Record
              /\ Rec(host.p, host.c, f).p = host.p /\ Rec(host.p, host.c, f).c = host.c
          BY <2>1, <4>1, RecType
        <4>3. QED
          BY <4>2 DEF f
      <3> HIDE DEF r
      <3>2. ASSUME ~disturbed' PROVE ~missed[r.p][r.c] /\ ~Stands(r.p, r.c)
        <4>1. OfBonds
          BY <2>3, <3>2 DEF Marking
        <4>2. ~(host.c < host.c)
          BY <2>1
        <4>3. QED
          BY <2>1, <3>1, <4>1, <4>2 DEF OfBonds, Stands
      <3>3. QED
        BY <2>1, <2>3, <2>4, <2>6, <3>1, <3>2, MarkingWrite
    <2>7. QED
      BY <2>2, <2>5, <2>6
  <1>4. CASE CltCfgStore
    <2> DEFINE r == host.rec
    <2>1. /\ r \in Record /\ r.p = host.p /\ host.at = "cfgstore" /\ host'.at = "idle"
          /\ IF r.sub = {} THEN DeleteCccd(r.p, r.c) ELSE WriteCccd(r)
          /\ disturbed' = (disturbed \/ Overtaken(r) \/ (r.sub = {} /\ Scanning))
          /\ UNCHANGED <<linkVars, app, missed, fate>>
      BY <1>0, <1>4, <1>e DEF CltCfgStore, HostWorks
    <2>2. LinksUp'
      BY <1>l, <2>1
    <2>3. ASSUME ~disturbed' PROVE ~Stands(r.p, r.c) /\ ~r.mod /\ r.p \in bonds
      BY <1>b, <1>r, <2>1, <2>3
    <2> HIDE DEF r
    <2>4. CASE r.sub # {}
      BY <2>1, <2>2, <2>3, <2>4, MarkingWrite
    <2>5. CASE r.sub = {}
      <3>1. ASSUME ~disturbed' PROVE Latest' /\ OfBonds' /\ Marked' /\ Reading'
        <4>1. IndicationLatest /\ OfBonds /\ Marked /\ Reading /\ ~Scanning
          BY <2>1, <2>5, <3>1 DEF Marking, Latest
        <4>2. \A p, c : Stored(p, c)' = IF p = r.p /\ c = r.c THEN NoRec ELSE Stored(p, c)
          BY <1>0, <2>1, <2>5, DeleteStores
        <4>3. \A a \in Apps : app[a].at = "idle" /\ app'[a].at = "idle"
          BY <2>1, <4>1 DEF Scanning
        <4>4. Reading'
          BY <4>3 DEF Reading, Holds
        <4>5. Marked'
          <5> SUFFICES ASSUME NEW p \in Peers, NEW c \in Chars, Awaits(p, c)'
                       PROVE  Noted(p, c)'
            BY DEF Marked
          <5>1. Stands(p, c)' <=> Stands(p, c)
            BY <2>1 DEF Stands
          <5>2. ~(p = r.p /\ c = r.c)
            BY <2>1, <2>3, <3>1, <4>2, <5>1 DEF Awaits
          <5>3. Stored(p, c)' = Stored(p, c)
            BY <4>2, <5>2
          <5>4. Awaits(p, c)
            BY <2>1, <5>1, <5>3 DEF Awaits
          <5>5. Stored(p, c) # NoRec /\ Stored(p, c).changed
            BY <4>1, <4>3, <5>4 DEF Marked, Noted, Reaches
          <5>6. QED
            BY <5>3, <5>5 DEF Noted
        <4>6. OfBonds'
          BY <2>1, <4>1, <4>2 DEF OfBonds
        <4>7. Latest'
          BY <2>1, <4>1 DEF Latest, IndicationLatest, RecordLatest, RecordRead, Wants
        <4>8. QED
          BY <4>4, <4>5, <4>6, <4>7
      <3>2. QED
        BY <2>2, <3>1 DEF Marking
    <2>6. QED
      BY <2>4, <2>5
  <1>5. QED
    BY <1>1, <1>2, <1>3, <1>4

-----------------------------------------------------------------------------
(* The steps of ble_gatts_chr_updated.                                     *)

(* No two records of a characteristic have the same position.              *)
LEMMA RankFacts ==
    ASSUME IsTable(recs), NEW p, NEW c, Stored(p, c) # NoRec
    PROVE  /\ Index(p, c) \in OfChar(c) /\ Rank(p, c) \in Nat
           /\ Stored(p, c) = recs[Index(p, c)]
           /\ \A j \in OfChar(c) : Skipped(OfChar(c), j) = Rank(p, c) => j = Index(p, c)
  <1>1. /\ Index(p, c) \in DOMAIN recs /\ recs[Index(p, c)].c = c
        /\ Stored(p, c) = recs[Index(p, c)]
    BY StoredFacts, FindFinds DEF Index, Stored
  <1>2. Index(p, c) \in OfChar(c) /\ OfChar(c) \in SUBSET Nat
    BY <1>1, OfCharIn DEF OfChar
  <1> DEFINE M == OfChar(c)
             n == Index(p, c)
  <1>3. M \in SUBSET Nat /\ n \in M /\ Rank(p, c) = Skipped(M, n)
    BY <1>2 DEF Rank
  <1> HIDE DEF M, n
  <1>4. Skipped(M, n) \in Nat
    BY <1>3, SkippedOrder
  <1>5. ASSUME NEW j \in M, Skipped(M, j) = Skipped(M, n) PROVE j = n
    <2>1. /\ j \in Nat /\ n \in Nat
          /\ j < n => Skipped(M, j) < Skipped(M, n)
          /\ n < j => Skipped(M, n) < Skipped(M, j)
      BY <1>3, SkippedOrder
    <2>2. ~(Skipped(M, n) < Skipped(M, n))
      BY <1>4
    <2>3. ~(j < n) /\ ~(n < j)
      BY <1>5, <2>1, <2>2
    <2>4. QED
      BY <2>1, <2>3
  <1>6. QED
    BY <1>1, <1>2, <1>3, <1>4, <1>5 DEF M, n

LEMMA MarkingUpdated ==
    ASSUME Marking, Subscribing', NEW a \in Apps, NEW c \in Chars, ChrUpdated(a, c)
    PROVE  Marking'
  <1> USE DEF linkVars, indVars, ghosts
  <1>0. /\ TypeOK /\ LinksUp /\ LinksKept /\ HostWorks(host) /\ IsTable(recs)
        /\ cfg \in [Peers -> [Chars -> Flags]] /\ app \in [Apps -> AppState]
        /\ missed \in [Peers -> [Chars -> BOOLEAN]] /\ fate \in [Peers -> [Chars -> Fates]]
    BY DEF Marking, Subscribing, Types, TypeOK
  <1> DEFINE x == [at |-> "read", c |-> c, i |-> 1, rec |-> NoRec]
  <1>1. /\ app[a].at = "idle" /\ app' = [app EXCEPT ![a] = x]
        /\ UNCHANGED <<conn, bonded, bonds, ind, recs, host, disturbed>>
    BY DEF ChrUpdated
  <1>2. ASSUME NEW q \in Peers, NEW d \in Chars
        PROVE  /\ d # c => /\ cfg'[q][d] = cfg[q][d] /\ missed'[q][d] = missed[q][d]
                           /\ fate'[q][d] = fate[q][d]
               /\ conn[q] = "up" => cfg'[q][c].mod
               /\ missed'[q][c] => Stored(q, c) # NoRec
               /\ cfg[q][d].mod => cfg'[q][d].mod
    <2>1. /\ cfg[q] \in [Chars -> Flags] /\ cfg[q][c] \in Flags
          /\ missed[q] \in [Chars -> BOOLEAN] /\ fate[q] \in [Chars -> Fates]
      BY <1>0
    <2>2. [cfg[q][c] EXCEPT !.mod = TRUE].mod = TRUE
      BY <2>1 DEF Flags
    <2>3. cfg'[q] = IF q \in Up THEN [cfg[q] EXCEPT ![c] = [cfg[q][c] EXCEPT !.mod = TRUE]] ELSE cfg[q]
      BY DEF ChrUpdated
    <2>4. /\ missed'[q] = [missed[q] EXCEPT ![c] = Index(q, c) > 0]
          /\ \E y : fate'[q] = [fate[q] EXCEPT ![c] = y]
      BY DEF ChrUpdated
    <2>5. /\ d # c => missed'[q][d] = missed[q][d] /\ fate'[q][d] = fate[q][d]
          /\ missed'[q][c] => Index(q, c) > 0
      BY <2>1, <2>4
    <2>6. Index(q, c) > 0 => Stored(q, c) # NoRec
      BY <1>0, StoredFacts
    <2>7. /\ d # c => cfg'[q][d] = cfg[q][d]
          /\ conn[q] = "up" => cfg'[q][c].mod
          /\ cfg[q][d].mod => cfg'[q][d].mod
      <3> DEFINE k == [cfg[q][c] EXCEPT !.mod = TRUE]
      <3>1. cfg'[q] = [cfg[q] EXCEPT ![c] = k] \/ (conn[q] # "up" /\ cfg'[q] = cfg[q])
        BY <2>3 DEF Up
      <3>2. k.mod
        BY <2>2
      <3> HIDE DEF k
      <3>3. QED
        BY <2>1, <3>1, <3>2
    <2>8. QED
      BY <2>5, <2>6, <2>7
  <1>3. \A b \in Apps : app'[b] = IF b = a THEN x ELSE app[b]
    BY <1>0, <1>1
  <1>4. LinksUp'
    BY <1>0, <1>1 DEF LinksUp, Up
  <1>5. ASSUME ~disturbed'
        PROVE  Latest' /\ OfBonds' /\ Marked' /\ Reading'
    <2>1. /\ IndicationLatest /\ RecordLatest /\ RecordRead
          /\ OfBonds /\ Marked /\ Reading
      BY <1>1, <1>5 DEF Marking, Latest
    <2>2. /\ \A p, d : Stored(p, d)' = Stored(p, d)
          /\ \A p, d : Rank(p, d)' = Rank(p, d)
      BY <1>1 DEF Stored, Index, Rank, Skipped, OfChar
    <2>3. IndicationLatest'
      <3> SUFFICES ASSUME NEW q \in Peers, NEW d \in Chars, conn[q] = "up", ind[q] = d,
                          missed'[q][d], fate'[q][d] # "dropped", ~cfg'[q][d].mod
                   PROVE  fate'[q][d] = "sent"
        BY <1>1 DEF IndicationLatest, Wants
      <3>1. d # c
        BY <1>2
      <3>2. missed[q][d] /\ fate'[q][d] = fate[q][d] /\ ~cfg[q][d].mod
        BY <1>2, <3>1
      <3>3. QED
        BY <2>1, <3>2 DEF IndicationLatest, Wants
    <2>4. RecordLatest'
      <3> SUFFICES ASSUME host.at \in {"ackstore", "cfgstore", "sent"}
                   PROVE  RecordLatest'
        BY <1>1 DEF RecordLatest
      <3>1. host.p \in Peers /\ host.rec.c \in Chars /\ conn[host.p] = "up"
        BY <1>0 DEF HostWorks, Record, LinksKept
      <3>2. CASE host.rec.c = c
        <4>1. cfg'[host.p][host.rec.c].mod
          BY <1>2, <3>1, <3>2
        <4>2. QED
          BY <1>1, <2>1, <4>1 DEF RecordLatest
      <3>3. CASE host.rec.c # c
        <4>1. /\ cfg'[host.p][host.rec.c] = cfg[host.p][host.rec.c]
              /\ missed'[host.p][host.rec.c] = missed[host.p][host.rec.c]
              /\ fate'[host.p][host.rec.c] = fate[host.p][host.rec.c]
          BY <1>2, <3>1, <3>3
        <4>2. QED
          BY <1>1, <2>1, <4>1 DEF RecordLatest, Wants
      <3>4. QED
        BY <3>2, <3>3
    <2>r. RecordRead'
      BY <1>1, <2>1, <2>2 DEF RecordRead
    <2>5. OfBonds'
      <3>1. \A q \in Peers, d \in Chars : missed'[q][d] => missed[q][d] \/ Stored(q, d) # NoRec
        BY <1>2
      <3>2. QED
        BY <1>1, <2>1, <2>2, <3>1 DEF OfBonds
    <2>6. Reading'
      <3>1. ASSUME NEW b \in Apps PROVE Holds(app[b])'
        <4>1. CASE b = a
          <5>1. app'[b].at = "read" /\ app'[b].i = 1
            BY <1>3, <4>1
          <5>2. QED
            BY <5>1 DEF Holds
        <4>2. CASE b # a
          <5>1. Holds(app[b]) /\ app'[b] = app[b]
            BY <1>3, <2>1, <4>2 DEF Reading
          <5>2. QED
            BY <2>2, <5>1 DEF Holds
        <4>3. QED
          BY <4>1, <4>2
      <3>2. QED
        BY <3>1 DEF Reading
    <2>7. Marked'
      <3> SUFFICES ASSUME NEW p \in Peers, NEW d \in Chars, Awaits(p, d)'
                   PROVE  Noted(p, d)'
        BY DEF Marked
      <3>0. missed'[p][d]
        BY DEF Awaits, Stands
      <3>2. CASE d = c
        <4>0. Stored(p, d) # NoRec
          BY <1>2, <3>0, <3>2
        <4>1. Rank(p, d) \in Nat
          BY <1>0, <4>0, RankFacts
        <4>2. Rank(p, d) >= 1 - 1
          BY <4>1
        <4>3. app'[a].at # "idle" /\ app'[a].c = c /\ app'[a].i = 1
          BY <1>3
        <4>4. Reaches(a, p, d)'
          BY <2>2, <3>2, <4>2, <4>3 DEF Reaches
        <4>5. QED
          BY <2>2, <4>0, <4>4 DEF Noted
      <3>3. CASE d # c
        <4>1. Awaits(p, d)
          <5>1. /\ cfg'[p][d] = cfg[p][d] /\ missed'[p][d] = missed[p][d]
                /\ fate'[p][d] = fate[p][d] /\ Stored(p, d)' = Stored(p, d)
            BY <1>2, <2>2, <3>3
          <5>2. QED
            BY <5>1 DEF Awaits, Stands
        <4>2. ASSUME NEW b \in Apps, Reaches(b, p, d) PROVE Reaches(b, p, d)'
          <5>1. b # a
            BY <1>1, <4>2 DEF Reaches
          <5>2. app'[b] = app[b]
            BY <1>3, <5>1
          <5>3. QED
            BY <2>2, <4>2, <5>2 DEF Reaches
        <4>3. Noted(p, d)
          BY <2>1, <4>1 DEF Marked
        <4>4. QED
          BY <2>2, <4>2, <4>3 DEF Noted
      <3>4. QED
        BY <3>2, <3>3
    <2>8. QED
      BY <2>3, <2>4, <2>r, <2>5, <2>6, <2>7 DEF Latest
  <1>6. QED
    BY <1>4, <1>5 DEF Marking

LEMMA MarkingRead ==
    ASSUME Marking, Subscribing', NEW a \in Apps, ChrRead(a)
    PROVE  Marking'
  <1> USE DEF linkVars, indVars, ghosts
  <1>0. /\ LinksUp /\ IsTable(recs) /\ app \in [Apps -> AppState] /\ app[a] \in AppState
    BY DEF Marking, Subscribing, Types, TypeOK
  <1> DEFINE M == OfChar(app[a].c)
             i == app[a].i
  <1>1. app[a].at = "read" /\ UNCHANGED <<linkVars, recs, host, ghosts>>
    BY DEF ChrRead
  <1>2. i \in Nat
    BY <1>0 DEF AppState
  <1>3. \A b \in Apps : b # a => app'[b] = app[b]
    <2>1. PICK x : app' = [app EXCEPT ![a] = x]
      BY DEF ChrRead
    <2>2. QED
      BY <1>0, <2>1
  <1>4. LinksUp'
    BY <1>0, <1>1 DEF LinksUp, Up
  <1>5. ASSUME ~disturbed'
        PROVE  Latest' /\ OfBonds' /\ Marked' /\ Reading'
    <2>1. Latest /\ OfBonds /\ Marked /\ Reading
      BY <1>1, <1>5 DEF Marking
    <2>2. /\ \A p, d : Stored(p, d)' = Stored(p, d)
          /\ \A p, d : Rank(p, d)' = Rank(p, d)
      BY <1>1 DEF Stored, Index, Rank, Skipped, OfChar
    <2>3. i >= 1
      BY <1>1, <2>1 DEF Reading, Holds
    <2>4. Latest' /\ OfBonds'
      <3>1. Latest'
        BY <1>1, <2>1, <2>2 DEF Latest, IndicationLatest, RecordLatest, RecordRead, Wants
      <3>2. QED
        BY <1>1, <2>1, <2>2, <3>1 DEF OfBonds
    <2>5. ASSUME Holds(app[a])',
                 \A p \in Peers, d \in Chars :
                    Stored(p, d) # NoRec /\ Reaches(a, p, d) => Stored(p, d).changed \/ Reaches(a, p, d)'
          PROVE  Marked' /\ Reading'
      <3>1. ASSUME NEW b \in Apps PROVE Holds(app[b])'
        <4>1. CASE b # a
          <5>1. Holds(app[b]) /\ app'[b] = app[b]
            BY <1>3, <2>1, <4>1 DEF Reading
          <5>2. QED
            BY <2>2, <5>1 DEF Holds
        <4>2. QED
          BY <2>5, <4>1
      <3>2. ASSUME NEW p \in Peers, NEW d \in Chars, Awaits(p, d)'
            PROVE  Noted(p, d)'
        <4>0. Awaits(p, d)
          BY <1>1, <2>2, <3>2 DEF Awaits, Stands
        <4>1. /\ Stored(p, d) # NoRec
              /\ Stored(p, d).changed \/ \E b \in Apps : Reaches(b, p, d)
          BY <2>1, <4>0 DEF Marked, Noted
        <4>2. ASSUME NEW b \in Apps, b # a, Reaches(b, p, d) PROVE Reaches(b, p, d)'
          <5>1. app'[b] = app[b]
            BY <1>3, <4>2
          <5>2. QED
            BY <2>2, <4>2, <5>1 DEF Reaches
        <4>3. QED
          BY <2>2, <2>5, <4>1, <4>2 DEF Noted
      <3>3. QED
        BY <3>1, <3>2 DEF Marked, Reading
    <2>6. ASSUME NEW j \in M, Skipped(M, j) = i - 1, recs[j].changed,
                 app' = [app EXCEPT ![a] = [app[a] EXCEPT !.i = app[a].i + 1]]
          PROVE  Marked' /\ Reading'
      <3>1. app'[a].at = "read" /\ app'[a].i = i + 1 /\ app'[a].c = app[a].c
        BY <1>0, <1>1, <2>6 DEF AppState
      <3>2. Holds(app[a])'
        BY <1>2, <3>1 DEF Holds
      <3>3. ASSUME NEW p \in Peers, NEW d \in Chars, Stored(p, d) # NoRec, Reaches(a, p, d)
            PROVE  Stored(p, d).changed \/ Reaches(a, p, d)'
        <4>1. /\ Rank(p, d) \in Nat /\ Stored(p, d) = recs[Index(p, d)]
              /\ Skipped(OfChar(d), j) = Rank(p, d) /\ j \in OfChar(d) => j = Index(p, d)
          BY <1>0, <3>3, RankFacts
        <4>2. d = app[a].c /\ Rank(p, d) >= i - 1
          BY <3>3 DEF Reaches
        <4>3. CASE Rank(p, d) = i - 1
          BY <2>6, <4>1, <4>2, <4>3
        <4>4. CASE Rank(p, d) # i - 1
          <5>1. Rank(p, d) >= (i + 1) - 1
            BY <1>2, <4>1, <4>2, <4>4
          <5> HIDE DEF i
          <5>2. QED
            BY <2>2, <3>1, <4>2, <5>1 DEF Reaches
        <4>5. QED
          BY <4>3, <4>4
      <3>4. QED
        BY <2>5, <3>2, <3>3
    <2>7. ASSUME NEW j \in M, Skipped(M, j) = i - 1,
                 app' = [app EXCEPT ![a] =
                           [app[a] EXCEPT !.at = "write", !.rec = [recs[j] EXCEPT !.changed = TRUE]]]
          PROVE  Marked' /\ Reading'
      <3>1. j \in DOMAIN recs /\ recs[j].c = app[a].c /\ recs[j] \in Record /\ M \in SUBSET Nat
        BY <1>0, <2>7, OfCharIn DEF OfChar, IsTable
      <3> DEFINE r == [recs[j] EXCEPT !.changed = TRUE]
      <3>2. r.changed /\ r.c = app[a].c /\ r.p = recs[j].p
        BY <3>1 DEF Record
      <3> HIDE DEF r
      <3>3. app'[a].at = "write" /\ app'[a].i = i /\ app'[a].c = app[a].c /\ app'[a].rec = r
        BY <1>0, <2>7 DEF AppState, r
      <3>4. Stored(r.p, app[a].c) = recs[j] /\ Stored(r.p, app[a].c) # NoRec
        BY <1>0, <3>1, <3>2, StoredFacts
      <3>5. Index(r.p, app[a].c) = j
        BY <1>0, <3>1, <3>2, FindFinds DEF Index
      <3>6. Rank(r.p, app[a].c) = i - 1
        BY <2>7, <3>5 DEF Rank
      <3>7. Holds(app[a])'
        <4> HIDE DEF i
        <4>1. QED
          BY <2>2, <2>3, <3>2, <3>3, <3>4, <3>6 DEF Holds
      <3>8. ASSUME NEW p \in Peers, NEW d \in Chars, Reaches(a, p, d) PROVE Reaches(a, p, d)'
        BY <2>2, <3>3, <3>8 DEF Reaches
      <3>9. QED
        BY <2>5, <3>7, <3>8
    <2>8. ASSUME \A j \in M : Skipped(M, j) # i - 1, app' = [app EXCEPT ![a] = AppIdle]
          PROVE  Marked' /\ Reading'
      <3>1. app'[a].at = "idle"
        BY <1>0, <2>8 DEF AppIdle
      <3>2. Holds(app[a])'
        BY <3>1 DEF Holds
      <3>3. ASSUME NEW p \in Peers, NEW d \in Chars, Stored(p, d) # NoRec, Reaches(a, p, d)
            PROVE  FALSE
        <4>1. d = app[a].c /\ Rank(p, d) >= i - 1
          BY <3>3 DEF Reaches
        <4>2. Index(p, d) \in M /\ Skipped(M, Index(p, d)) >= i - 1 /\ M \in SUBSET Nat
          BY <1>0, <3>3, <4>1, RankFacts, OfCharIn DEF Rank
        <4>3. i - 1 \in Nat
          BY <1>2, <2>3
        <4> HIDE DEF M, i
        <4>4. \E k \in M : Skipped(M, k) = i - 1
          BY <4>2, <4>3, SkippedReaches
        <4>5. QED
          BY <2>8, <4>4
      <3>4. QED
        BY <2>5, <3>2, <3>3
    <2>9. Marked' /\ Reading'
      BY <2>6, <2>7, <2>8 DEF ChrRead
    <2>10. QED
      BY <2>4, <2>9
  <1>6. QED
    BY <1>4, <1>5 DEF Marking
LEMMA MarkingMark ==
    ASSUME Marking, Subscribing', NEW a \in Apps, ChrWrite(a)
    PROVE  Marking'
  <1> USE DEF linkVars, indVars, ghosts
  <1>0. /\ LinksUp /\ IsTable(recs) /\ app \in [Apps -> AppState] /\ app[a] \in AppState
        /\ AppWorks(app[a])
    BY DEF Marking, Subscribing, Types, TypeOK
  <1> DEFINE r == app[a].rec
             i == app[a].i
  <1>1. /\ app[a].at = "write" /\ r \in Record /\ WriteCccd(r)
        /\ disturbed' = (disturbed \/ Stored(r.p, r.c) = NoRec \/ Stored(r.p, r.c).sub # r.sub)
        /\ UNCHANGED <<linkVars, host, missed, fate>>
    BY <1>0 DEF ChrWrite, AppWorks
  <1>2. /\ app'[a].at = "read" /\ app'[a].i = i + 1 /\ app'[a].c = app[a].c /\ i \in Nat
        /\ \A b \in Apps : b # a => app'[b] = app[b]
    BY <1>0 DEF ChrWrite, AppState
  <1> HIDE DEF r, i
  <1>3. LinksUp'
    BY <1>0, <1>1 DEF LinksUp, Up
  <1>4. ASSUME ~disturbed'
        PROVE  Latest' /\ OfBonds' /\ Marked' /\ Reading'
    <2>1. /\ Latest /\ OfBonds /\ Marked /\ Reading
          /\ Stored(r.p, r.c) # NoRec
      BY <1>1, <1>4 DEF Marking
    <2>2. \A p, d : Stored(p, d)' = IF p = r.p /\ d = r.c THEN r ELSE Stored(p, d)
      BY <1>0, <1>1, WriteStores
    <2>3. Kept
      BY <1>0, <1>1, WriteKept
    <2>5. OfBonds'
      BY <1>1, <2>1, <2>2 DEF OfBonds
    <2>6. r.changed /\ r.c = app[a].c /\ Rank(r.p, r.c) = i - 1
      BY <1>1, <2>1 DEF Reading, Holds, r, i
    <2>4. Latest'
      <3>1. IndicationLatest' /\ RecordLatest'
        BY <1>1, <2>1 DEF Latest, IndicationLatest, RecordLatest, Wants
      <3>2. RecordRead'
        BY <1>1, <2>1, <2>2, <2>3, <2>6 DEF Latest, RecordRead, Kept
      <3>3. QED
        BY <3>1, <3>2 DEF Latest
    <2>7. Reading'
      <3>1. ASSUME NEW b \in Apps PROVE Holds(app[b])'
        <4>1. CASE b # a
          <5>1. Holds(app[b]) /\ app'[b] = app[b]
            BY <1>2, <2>1, <4>1 DEF Reading
          <5>2. QED
            BY <2>3, <5>1 DEF Holds, Kept
        <4>2. CASE b = a
          BY <1>2, <4>2 DEF Holds
        <4>3. QED
          BY <4>1, <4>2
      <3>2. QED
        BY <3>1 DEF Reading
    <2>8. Marked'
      <3> SUFFICES ASSUME NEW p \in Peers, NEW d \in Chars, Awaits(p, d)'
                   PROVE  Noted(p, d)'
        BY DEF Marked
      <3>3. CASE p = r.p /\ d = r.c
        BY <2>1, <2>2, <2>3, <2>6, <3>3 DEF Noted, Kept
      <3>4. CASE ~(p = r.p /\ d = r.c)
        <4>1. Stored(p, d)' = Stored(p, d)
          BY <2>2, <3>4
        <4>5. Awaits(p, d)
          BY <1>1, <4>1 DEF Awaits, Stands
        <4>6. /\ Stored(p, d) # NoRec
              /\ Stored(p, d).changed \/ \E b \in Apps : Reaches(b, p, d)
          BY <2>1, <4>5 DEF Marked, Noted
        <4>7. Stored(p, d)' # NoRec /\ Rank(p, d)' = Rank(p, d)
          BY <2>3, <4>6 DEF Kept
        <4>2. ASSUME NEW b \in Apps, b # a, Reaches(b, p, d) PROVE Reaches(b, p, d)'
          <5>1. app'[b] = app[b]
            BY <1>2, <4>2
          <5>2. QED
            BY <4>7, <4>2, <5>1 DEF Reaches
        <4>3. ASSUME Reaches(a, p, d) PROVE Reaches(a, p, d)'
          <5>1. d = r.c /\ p # r.p /\ Rank(p, d) >= i - 1
            BY <2>6, <3>4, <4>3 DEF Reaches, i
          <5>2. /\ Rank(p, d) \in Nat /\ Index(p, d) \in OfChar(d)
                /\ Stored(p, d) = recs[Index(p, d)]
            BY <1>0, <4>6, RankFacts
          <5>3. /\ Stored(r.p, d) = recs[Index(r.p, d)]
                /\ Skipped(OfChar(d), Index(p, d)) = Rank(r.p, d) => Index(p, d) = Index(r.p, d)
            BY <1>0, <2>1, <5>1, <5>2, RankFacts
          <5>4. Stored(p, d).p = p /\ Stored(r.p, d).p = r.p
            BY <1>0, <2>1, <4>6, <5>1, StoredFacts
          <5>5. Rank(p, d) # i - 1
            BY <2>6, <5>1, <5>2, <5>3, <5>4 DEF Rank
          <5>6. Rank(p, d) >= (i + 1) - 1
            BY <1>2, <5>1, <5>2, <5>5
          <5>7. QED
            BY <1>2, <2>6, <4>7, <5>1, <5>6 DEF Reaches
        <4>4. QED
          BY <4>6, <4>7, <4>1, <4>2, <4>3 DEF Noted
      <3>5. QED
        BY <3>3, <3>4
    <2>9. QED
      BY <2>4, <2>5, <2>7, <2>8
  <1>5. QED
    BY <1>3, <1>4 DEF Marking

LEMMA MarkingStep == Marking /\ [Next]_vars => Marking'
  <1> SUFFICES ASSUME Marking, [Next]_vars PROVE Marking'
    OBVIOUS
  <1>1. Subscribing' /\ Types'
    BY SubscribingStep DEF Marking, Subscribing
  <1>2. CASE UNCHANGED vars
    <2>1. UNCHANGED <<conn, bonds, cfg, ind, recs, host, app, missed, fate, disturbed>>
      BY <1>2 DEF vars, linkVars, indVars, ghosts
    <2>2. LinksUp'
      BY <2>1 DEF Marking, LinksUp, Up
    <2>3. \A p, c : Stored(p, c)' = Stored(p, c)
      BY <2>1 DEF Stored, Index
    <2>4. ~disturbed' => Latest'
      BY <2>1, <2>3 DEF Marking, Latest, IndicationLatest, RecordLatest, RecordRead, Wants
    <2>5. \A p \in Peers, c \in Chars : Stands(p, c)' => Awaits(p, c) \/ Noted(p, c)
      BY <2>1, StandsStill
    <2>6. QED
      BY <1>1, <2>1, <2>2, <2>4, <2>5, Aside
  <1>3. CASE Next
    <2>1. CASE HostStep
      BY <1>1, <2>1, MarkingTx, MarkingLinks, MarkingRestored, MarkingStore DEF HostStep
    <2>2. ASSUME NEW a \in Apps, AppStep(a) \/ \E c \in Chars : ChrUpdated(a, c) PROVE Marking'
      BY <1>1, <2>2, MarkingUpdated, MarkingRead, MarkingMark DEF AppStep
    <2>3. ASSUME NEW p \in Peers,
                 \/ IndicateRxRsp(p) \/ IndicateErr(p) \/ IndicateTmo(p)
                 \/ Bond(p) \/ Restore(p) \/ Connect(p) \/ ConnectionBroken(p)
                 \/ \E c \in Chars, s \in SUBSET Kinds : CltCfgWrite(p, c, s)
          PROVE  Marking'
      BY <1>1, <2>3, MarkingAnswer, MarkingBond, MarkingLinks, MarkingCfg
    <2>4. QED
      BY <1>3, <2>1, <2>2, <2>3 DEF Next
  <1>4. QED
    BY <1>2, <1>3

(* A value that changed is marked in a bonded peer's record when no        *)
(* ble_gatts_chr_updated is scanning, until the peer was notified of it or *)
(* confirmed it, whatever the number of peers, characteristics and tasks   *)
(* and wherever connections break, unless an older record was written over *)
(* it or the update was dropped.                                           *)
THEOREM ChangesKeptAlways == Spec => []ChangesKept
  <1>1. Marking => ChangesKept
    BY DEF Marking, Marked, Awaits, Stands, Noted, Reaches, Scanning, ChangesKept
  <1>2. QED
    BY <1>1, MarkingInit, MarkingStep, PTL DEF Spec

-----------------------------------------------------------------------------
(* Pending updates.                                                        *)

(* The slot of a connected peer is that of a procedure in progress, which  *)
(* a confirmation, an error or the timer will end; or the timer ended it   *)
(* and the connection with it; or the connection keeps it (Jammed).        *)
ServedBy(i, pr, p, e) == i # 0 /\ "indicate" \in Allowed[i] => pr # <<>> \/ p \in e

Served == \A p \in Peers : conn[p] = "up" => ServedBy(ind[p], procs[p], p, ending)

Serving == Indicating /\ Marking /\ Served

LEMMA ServedInit == Init => Served
  BY DEF Init, Served

LEMMA ServedSame ==
    ASSUME Served, \A p \in Peers : conn'[p] = "up" =>
                      conn[p] = "up" /\ ind'[p] = ind[p] /\ procs'[p] = procs[p]
                      /\ (p \in ending => p \in ending')
    PROVE  Served'
  BY DEF Served, ServedBy

(* An indication that is sent is listed.                                   *)
LEMMA ServedSend ==
    ASSUME TypeOK, Served, NEW p \in Peers, NEW c \in Chars, NEW op, Send(p, c, op),
           UNCHANGED <<conn, ending>>
    PROVE  /\ Served'
           /\ \A q \in Peers : procs[q] # <<>> => procs'[q] # <<>>
           /\ op = "indicate" /\ used' = used => procs'[p] # <<>>
  <1>0. /\ procs \in [Peers -> Seq(Chars)] /\ ind \in [Peers -> 0 .. NumChars]
        /\ used \in [Bounded -> Nat]
    BY DEF TypeOK
  <1>1. CASE procs' = procs /\ ind' = ind /\ ~(op = "indicate" /\ used' = used)
    <2>1. Served'
      BY <1>1, ServedSame
    <2>2. QED
      BY <1>1, <2>1
  <1>2. CASE op = "indicate" /\ Indicate(p, c)
    <2>1. Append(procs[p], c) # <<>>
      <3>1. procs[p] \in Seq(Chars)
        BY <1>0
      <3>2. Len(Append(procs[p], c)) = Len(procs[p]) + 1 /\ Len(procs[p]) \in Nat
        BY <3>1
      <3>3. Len(<<>>) = 0
        OBVIOUS
      <3>4. QED
        BY <3>2, <3>3
    <2>2. /\ procs'[p] # <<>>
          /\ \A q \in Peers \ {p} : procs'[q] = procs[q] /\ ind'[q] = ind[q]
      BY <1>0, <1>2, <2>1 DEF Indicate
    <2>3. Served'
      BY <2>2 DEF Served, ServedBy
    <2>4. QED
      BY <2>2, <2>3
  <1>3. CASE SendFails(p, c)
    <2>1. used' # used
      <3>1. used["fail"] \in Nat /\ "fail" \in DOMAIN used
        BY <1>0 DEF Bounded
      <3>2. used'["fail"] = used["fail"] + 1
        BY <1>3, <3>1 DEF SendFails, Use
      <3>3. QED
        BY <3>1, <3>2
    <2>2. QED
      BY <1>1, <1>3, <2>1 DEF SendFails
  <1>4. QED
    BY <1>1, <1>2, <1>3 DEF Send, Notify

(* The answers end the procedure of the slot: the host task goes on to the *)
(* next indication unless the slot is kept.                                *)
LEMMA AnswerEnds ==
    ASSUME Indicating, NEW q \in Peers, IndicateRxRsp(q) \/ IndicateErr(q) \/ IndicateTmo(q)
    PROVE  /\ host.at = "idle" /\ UNCHANGED <<conn, cfg, sched>>
           /\ \A p \in Peers \ {q} : procs'[p] = procs[p] /\ ind'[p] = ind[p]
           /\ ending \subseteq ending'
           /\ \/ procs'[q] = procs[q] /\ ind'[q] = ind[q]
              \/ q \in ending'
              \/ Jammed(q)'
              \/ ind'[q] = 0 /\ host'.at \in {"ackstore", "next"} /\ host'.p = q
  <1>0. TypeOK /\ Turn(unconf[q], procs[q], ind[q], hasty[q])
    BY DEF Indicating, Types, Turns
  <1>a. procs \in [Peers -> Seq(Chars)] /\ ind \in [Peers -> 0 .. NumChars]
    BY <1>0 DEF TypeOK
  <1>1. host.at = "idle" /\ UNCHANGED <<conn, cfg, sched>> /\ ending \subseteq ending'
    BY DEF IndicateRxRsp, IndicateErr, IndicateTmo
  <1>2. CASE UNCHANGED <<procs, ind>>
    BY <1>1, <1>2
  <1>3. ASSUME procs[q] # <<>>, procs' = [procs EXCEPT ![q] = Tail(@)],
               RxIndicateAck(q, Head(procs[q]))
        PROVE  /\ \A p \in Peers \ {q} : procs'[p] = procs[p] /\ ind'[p] = ind[p]
               /\ \/ Jammed(q)'
                  \/ ind'[q] = 0 /\ host'.at \in {"ackstore", "next"} /\ host'.p = q
    <2> DEFINE c == Head(procs[q])
    <2>1. c = ind[q] /\ c # 0 /\ c \in Chars
      <3>1. procs[q] = <<ind[q]>> /\ ind[q] # 0 /\ Head(<<ind[q]>>) = ind[q]
        BY <1>0, <1>3 DEF Turn
      <3>2. ind[q] \in 0 .. NumChars /\ NumChars \in Nat
        BY <1>a, CharsAssumption
      <3>3. ind[q] \in Chars
        BY <3>1, <3>2 DEF Chars
      <3>4. QED
        BY <3>1, <3>3
    <2> HIDE DEF c
    <2>2. /\ \A p \in Peers \ {q} : ind'[p] = ind[p]
          /\ host'.at = "idle" \/ (host'.at \in {"ackstore", "next"} /\ host'.p = q /\ ind'[q] = 0)
          /\ host'.at = "idle" => ind' = ind /\ ("indicate" \notin Allowed[c] \/ ind[q] # c)
      BY <1>0, <1>3, <2>1, AckFrees DEF c
    <2>3. host'.at = "idle" => Jammed(q)'
      BY <2>1, <2>2 DEF Jammed
    <2>4. \A p \in Peers \ {q} : procs'[p] = procs[p]
      BY <1>a, <1>3
    <2>5. QED
      BY <2>2, <2>3, <2>4
  <1>4. CASE IndicateTmo(q)
    BY <1>1, <1>4, <1>a DEF IndicateTmo
  <1>5. CASE IndicateErr(q)
    BY <1>1, <1>3, <1>5 DEF IndicateErr
  <1>6. CASE IndicateRxRsp(q)
    <2>1. CASE procs[q] = <<>>
      BY <1>2, <1>6, <2>1 DEF IndicateRxRsp
    <2>2. CASE procs[q] # <<>>
      <3>1. procs' = [procs EXCEPT ![q] = Tail(@)] /\ RxIndicateAck(q, Head(procs[q]))
        BY <1>6, <2>2 DEF IndicateRxRsp
      <3>2. QED
        BY <1>1, <1>3, <2>2, <3>1
    <2>3. QED
      BY <2>1, <2>2
  <1>7. QED
    BY <1>4, <1>5, <1>6

LEMMA ServedStep == Serving /\ [Next]_vars => Served'
  <1> SUFFICES ASSUME Serving, [Next]_vars PROVE Served'
    OBVIOUS
  <1> USE DEF linkVars, indVars, ghosts
  <1>0. TypeOK /\ HostWorks(host) /\ LinksUp /\ Served /\ Indicating /\ LinksKept
    BY DEF Serving, Indicating, Types, Marking, Subscribing
  <1>a. /\ conn \in [Peers -> {"down", "up", "broken"}] /\ ind \in [Peers -> 0 .. NumChars]
        /\ procs \in [Peers -> Seq(Chars)]
    BY <1>0 DEF TypeOK
  <1>1. ASSUME UNCHANGED <<conn, ind, procs, ending>> PROVE Served'
    BY <1>0, <1>1, ServedSame
  <1>2. CASE TxStart \/ TxNext \/ AckStore \/ CltCfgStore \/ BondingEstablished \/ RestoreRead
             \/ RestoreSent
    <2>1. UNCHANGED <<conn, ind, procs, ending>>
      BY <1>2, Zenon DEF TxStart, TxNext, AckStore, CltCfgStore, BondingEstablished, RestoreRead,
                         RestoreSent
    <2>2. QED
      BY <1>1, <2>1
  <1>3. ASSUME NEW p \in Peers, TxOne(p) PROVE Served'
    <2>1. /\ host.c \in Chars /\ UNCHANGED <<conn, ending>>
          /\ \E op : Send(p, host.c, op)
      BY <1>0, <1>3 DEF TxOne, HostWorks
    <2>2. QED
      BY <1>0, <2>1, ServedSend
  <1>4. CASE SendNextIndicate
    <2> DEFINE M == {c \in Chars : cfg[host.p][c].mod}
    <2>1. host.p \in Peers /\ UNCHANGED <<conn, ending>>
      BY <1>0, <1>4 DEF SendNextIndicate, HostWorks
    <2>2. CASE M = {}
      BY <1>1, <1>4, <2>1, <2>2 DEF SendNextIndicate
    <2>3. CASE M # {}
      <3>1. Min(M) \in Chars
        <4>1. M \subseteq Chars /\ M \in SUBSET Nat
          BY CharsAssumption DEF Chars
        <4> HIDE DEF M
        <4>2. QED
          BY <2>3, <4>1, MinIsIn
      <3>2. Send(host.p, Min(M), "indicate")
        BY <1>4, <2>3 DEF SendNextIndicate
      <3> HIDE DEF M
      <3>3. QED
        BY <1>0, <2>1, <3>1, <3>2, ServedSend
    <2>4. QED
      BY <2>2, <2>3
  <1>5. CASE BondingRestored
    <2>1. /\ host.p \in Peers /\ host.rec.c \in Chars /\ UNCHANGED <<conn, ending>>
      BY <1>0, <1>5 DEF BondingRestored, HostWorks, Record
    <2>2. \/ \E mod : Reschedule(host.p, host.rec.c, mod)
          \/ \E op : Send(host.p, host.rec.c, op)
      BY <1>5 DEF BondingRestored
    <2>3. CASE \E mod : Reschedule(host.p, host.rec.c, mod)
      BY <1>1, <2>1, <2>3 DEF Reschedule
    <2>4. CASE \E op : Send(host.p, host.rec.c, op)
      BY <1>0, <2>1, <2>4, ServedSend
    <2>5. QED
      BY <2>2, <2>3, <2>4
  <1>6. ASSUME NEW p \in Peers, IndicateRxRsp(p) \/ IndicateErr(p) \/ IndicateTmo(p)
        PROVE  Served'
    <2> SUFFICES ASSUME NEW q \in Peers, conn'[q] = "up"
                 PROVE  ServedBy(ind'[q], procs'[q], q, ending')
      BY DEF Served
    <2>1. conn' = conn /\ ending \subseteq ending' /\ ServedBy(ind[q], procs[q], q, ending)
      BY <1>0, <1>6, AnswerEnds DEF Served
    <2>2. CASE ind'[q] = ind[q] /\ procs'[q] = procs[q]
      BY <2>1, <2>2 DEF ServedBy
    <2>3. CASE q \in ending' \/ Jammed(q)' \/ ind'[q] = 0
      BY <2>3 DEF ServedBy, Jammed
    <2>4. QED
      BY <1>0, <1>6, <2>2, <2>3, AnswerEnds
  <1>7. CASE ConnDelete
    <2>1. /\ host.p \in Peers /\ conn' = [conn EXCEPT ![host.p] = "down"]
          /\ ind' = [ind EXCEPT ![host.p] = 0] /\ UNCHANGED <<procs, ending>>
      BY <1>0, <1>7 DEF ConnDelete, HostWorks
    <2>2. QED
      BY <1>0, <1>a, <2>1, ServedSame
  <1>8. ASSUME NEW p \in Peers, Bond(p) \/ Restore(p) PROVE Served'
    BY <1>1, <1>8 DEF Bond, Restore
  <1>9. ASSUME NEW p \in Peers, Connect(p) PROVE Served'
    <2>1. conn' = [conn EXCEPT ![p] = "up"] /\ UNCHANGED <<ind, procs, ending>> /\ ind[p] = 0
      BY <1>0, <1>9 DEF Connect, LinksUp
    <2>2. QED
      BY <1>0, <1>a, <2>1 DEF Served, ServedBy
  <1>10. ASSUME NEW p \in Peers, ConnectionBroken(p) PROVE Served'
    <2>1. /\ conn' = [conn EXCEPT ![p] = "broken"] /\ ind' = ind
          /\ procs' = [procs EXCEPT ![p] = <<>>] /\ ending' = ending \ {p}
      BY <1>10 DEF ConnectionBroken
    <2>2. QED
      BY <1>0, <1>a, <2>1, ServedSame
  <1>11. ASSUME NEW p \in Peers, NEW c \in Chars, NEW s \in SUBSET Kinds, CltCfgWrite(p, c, s)
         PROVE  Served'
    BY <1>1, <1>11 DEF CltCfgWrite
  <1>12. ASSUME NEW a \in Apps, AppStep(a) \/ \E c \in Chars : ChrUpdated(a, c) PROVE Served'
    <2>1. UNCHANGED <<conn, ind, procs, ending>>
      BY <1>12, Zenon DEF AppStep, ChrRead, ChrWrite, ChrUpdated
    <2>2. QED
      BY <1>1, <2>1
  <1>13. CASE UNCHANGED vars
    BY <1>1, <1>13 DEF vars
  <1>14. QED
    BY <1>2, <1>3, <1>4, <1>5, <1>6, <1>7, <1>8, <1>9, <1>10, <1>11, <1>12, <1>13
       DEF Next, HostStep

(* An update that a connected, subscribed peer was not sent yet.           *)
Pending(p, c) == conn[p] = "up" /\ cfg[p][c].mod /\ cfg[p][c].sub # {}

(* What will send it, or end the connection: the event is queued,          *)
(* ble_gatts_tx_notifications has still to come to it, an indicate         *)
(* procedure is in progress, at the end of which                           *)
(* ble_gatts_send_next_indicate runs, or has timed out.                    *)
Driven(p, c) ==
    \/ sched \/ procs[p] # <<>> \/ p \in ending
    \/ host.at = "tx" /\ (host.c < c \/ (host.c = c /\ p \in host.todo))
    \/ host.at \in {"ackstore", "next"} /\ host.p = p

(* Restoring a record that was stored with the MODIFIED flag, and failing  *)
(* to send the next indication, leave an update to nobody.                 *)
Abandons(p, c) ==
    /\ host' # host /\ host.p = p
    /\ \/ host.at = "restore" /\ host.rec.c = c /\ host.rec.mod /\ ~host.rec.changed
       \/ host.at = "next" /\ used'["fail"] # used["fail"]

DrivenStep(p, c) ==
    /\ Pending(p, c)' /\ ~Abandons(p, c) /\ ~Jammed(p)'
    /\ Pending(p, c) => Driven(p, c)
    => Driven(p, c)'

(* The steps that leave the entries, or all but one of them, as they are.  *)
LEMMA DrivenSame ==
    ASSUME NEW p, NEW c, conn'[p] = "up" => conn[p] = "up", cfg'[p][c] = cfg[p][c],
           sched => sched', procs'[p] = procs[p], p \in ending => p \in ending',
           \/ host' = host
           \/ host.at \notin {"tx", "ackstore", "next"}
    PROVE  DrivenStep(p, c)
  BY DEF DrivenStep, Pending, Driven

LEMMA DrivenTx ==
    ASSUME Serving, TxStart \/ TxNext \/ \E q \in Peers : TxOne(q),
           NEW p \in Peers, NEW c \in Chars
    PROVE  DrivenStep(p, c)
  <1> SUFFICES ASSUME Pending(p, c)', ~Jammed(p)', Pending(p, c) => Driven(p, c)
               PROVE  Driven(p, c)'
    BY DEF DrivenStep
  <1> USE DEF linkVars, indVars, ghosts
  <1>0. /\ host \in HostState /\ (host.at = "tx" => host.c \in Chars)
        /\ c \in Nat /\ 1 <= c /\ c <= NumChars /\ NumChars \in Nat
        /\ cfg \in [Peers -> [Chars -> Flags]] /\ TypeOK /\ Served
    <2>1. TypeOK /\ HostWorks(host) /\ Served
      BY DEF Serving, Indicating, Types
    <2>2. host \in HostState /\ cfg \in [Peers -> [Chars -> Flags]]
      BY <2>1 DEF TypeOK
    <2>3. host.at = "tx" => host.c \in Chars
      BY <2>1 DEF HostWorks
    <2>4. NumChars \in Nat /\ c \in 1 .. NumChars
      BY CharsAssumption DEF Chars
    <2>5. QED
      BY <2>1, <2>2, <2>3, <2>4
  <1>1. CASE TxStart
    <2>1. host'.at = "tx" /\ host'.c = 1 /\ host'.todo = Up
      BY <1>1 DEF TxStart, Idle
    <2>2. p \in Up
      BY <1>1 DEF TxStart, Pending, Up
    <2>3. QED
      BY <1>0, <2>1, <2>2 DEF Driven
  <1>2. CASE TxNext
    <2>1. Pending(p, c) /\ conn[p] = "up" /\ UNCHANGED <<sched, procs, ending>>
      BY <1>2 DEF TxNext, Pending
    <2>2. CASE sched \/ procs[p] # <<>> \/ p \in ending
      BY <2>1, <2>2 DEF Driven
    <2>3. CASE host.c < c
      <3>1. host.c < NumChars /\ host.c \in Chars /\ host.at = "tx"
        BY <1>0, <1>2, <2>3 DEF TxNext, Chars
      <3>2. host' = [host EXCEPT !.c = @ + 1, !.todo = Up]
        BY <1>2, <3>1 DEF TxNext
      <3>3. host'.at = "tx" /\ host'.c = host.c + 1 /\ host'.todo = Up
        BY <1>0, <3>1, <3>2 DEF HostState
      <3>4. p \in Up
        BY <2>1 DEF Up
      <3>5. host'.c < c \/ host'.c = c
        BY <1>0, <2>3, <3>1, <3>3 DEF Chars
      <3>6. QED
        BY <3>3, <3>4, <3>5 DEF Driven
    <2>4. QED
      BY <1>2, <2>1, <2>2, <2>3 DEF Driven, TxNext
  <1>3. ASSUME NEW q \in Peers, TxOne(q) PROVE Driven(p, c)'
    <2> DEFINE op == Update(cfg[q][host.c], ind[q] # 0)
    <2>1. /\ host.at = "tx" /\ host.c \in Chars /\ q \in host.todo
          /\ cfg' = [cfg EXCEPT ![q][host.c].mod = @ /\ op = "none"]
          /\ Send(q, host.c, op) /\ UNCHANGED <<sched, conn, ending>>
          /\ host' = [host EXCEPT !.todo = @ \ {q}]
      BY <1>0, <1>3 DEF TxOne
    <2>2. /\ host'.at = "tx" /\ host'.c = host.c /\ host'.todo = host.todo \ {q}
      BY <1>0, <2>1 DEF HostState
    <2>3. procs[p] # <<>> => procs'[p] # <<>>
      BY <1>0, <2>1, ServedSend
    <2>4. CASE p = q /\ c = host.c
      <3>1. cfg'[p][c].mod = (cfg[p][c].mod /\ op = "none") /\ cfg'[p][c].sub = cfg[p][c].sub
        <4>1. cfg[p][c] \in Flags
          BY <1>0
        <4>2. cfg'[p][c] = [cfg[p][c] EXCEPT !.mod = @ /\ op = "none"]
          BY <1>0, <2>1, <2>4
        <4>3. QED
          BY <4>1, <4>2 DEF Flags
      <3>2. cfg[p][c].mod /\ op = "none" /\ cfg[p][c].sub # {} /\ cfg[p][c].sub \subseteq Kinds
        BY <1>0, <3>1 DEF Pending, Flags
      <3>3. ind[p] # 0 /\ ind' = ind /\ procs' = procs
        BY <2>1, <2>4, <3>2 DEF Update, Kinds, Send
      <3>4. procs[p] # <<>> \/ p \in ending
        BY <1>0, <2>1, <3>3 DEF Served, ServedBy, Jammed, Pending
      <3>5. QED
        BY <2>1, <3>3, <3>4 DEF Driven
    <2>5. CASE ~(p = q /\ c = host.c)
      <3>1. cfg'[p][c] = cfg[p][c]
        BY <1>0, <2>1, <2>5
      <3>2. Driven(p, c)
        BY <2>1, <3>1 DEF Pending
      <3>3. host.c = c /\ p \in host.todo => p \in host'.todo
        BY <2>2, <2>5
      <3>4. QED
        BY <2>1, <2>2, <2>3, <3>2, <3>3 DEF Driven
    <2>6. QED
      BY <2>4, <2>5
  <1>4. QED
    BY <1>1, <1>2, <1>3

(* A confirmation: the slot it frees is taken over by the host task, which *)
(* ends with the next indication.                                          *)
LEMMA DrivenAck ==
    ASSUME Serving, NEW p \in Peers, NEW c \in Chars,
           \/ AckStore \/ SendNextIndicate
           \/ \E q \in Peers : IndicateRxRsp(q) \/ IndicateErr(q) \/ IndicateTmo(q)
    PROVE  DrivenStep(p, c)
  <1> SUFFICES ASSUME Pending(p, c)', ~Abandons(p, c), ~Jammed(p)', Pending(p, c) => Driven(p, c)
               PROVE  Driven(p, c)'
    BY DEF DrivenStep
  <1> USE DEF linkVars, indVars, ghosts
  <1>0. /\ host \in HostState /\ TypeOK /\ cfg \in [Peers -> [Chars -> Flags]] /\ Indicating
        /\ Served /\ HostWorks(host) /\ used \in [Bounded -> Nat]
    BY DEF Serving, Indicating, Types, TypeOK
  <1>1. CASE AckStore
    <2>1. host' = [host EXCEPT !.at = "next", !.rec = NoRec] /\ host.at = "ackstore"
      BY <1>1 DEF AckStore
    <2>2. host'.at = "next" /\ host'.p = host.p
      BY <1>0, <2>1 DEF HostState
    <2>3. QED
      BY <1>1, <2>1, <2>2 DEF AckStore, Driven, Pending
  <1>2. CASE SendNextIndicate
    <2> DEFINE modified == {d \in Chars : cfg[host.p][d].mod}
    <2>1. /\ host.at = "next" /\ host.p \in Peers /\ host' = Idle /\ host' # host
          /\ UNCHANGED <<sched, conn, ending>>
      BY <1>0, <1>2, Idles DEF SendNextIndicate, HostWorks
    <2>2. CASE modified = {}
      <3>1. cfg' = cfg /\ procs' = procs
        BY <1>2, <2>2 DEF SendNextIndicate
      <3>2. p # host.p
        BY <2>2, <3>1 DEF Pending
      <3>3. QED
        BY <2>1, <3>1, <3>2 DEF Driven, Pending
    <2>3. CASE modified # {}
      <3> DEFINE d == Min(modified)
      <3>1. modified \in SUBSET Nat
        BY DEF Chars
      <3>2. d \in Chars
        BY <2>3, <3>1, MinIsIn
      <3>3. cfg' = [cfg EXCEPT ![host.p][d].mod = FALSE] /\ Send(host.p, d, "indicate")
        BY <1>2, <2>3 DEF SendNextIndicate
      <3> HIDE DEF d, modified
      <3>4. CASE p = host.p
        <4>1. used'["fail"] = used["fail"]
          BY <2>1, <3>4 DEF Abandons
        <4>2. used' = used
          BY <1>0, <3>3, <4>1 DEF Send, Notify, Indicate, SendFails, Use, Bounded
        <4>3. QED
          BY <1>0, <2>1, <3>2, <3>3, <3>4, <4>2, ServedSend DEF Driven
      <3>5. CASE p # host.p
        <4>1. cfg'[p] = cfg[p]
          BY <1>0, <3>3, <3>5
        <4>2. procs[p] # <<>> => procs'[p] # <<>>
          BY <1>0, <2>1, <3>2, <3>3, ServedSend
        <4>3. QED
          BY <2>1, <3>5, <4>1, <4>2 DEF Driven, Pending
      <3>6. QED
        BY <3>4, <3>5
    <2>4. QED
      BY <2>2, <2>3
  <1>3. ASSUME NEW q \in Peers, IndicateRxRsp(q) \/ IndicateErr(q) \/ IndicateTmo(q)
        PROVE  Driven(p, c)'
    <2>1. Driven(p, c) /\ host.at = "idle" /\ sched' = sched /\ ending \subseteq ending'
      BY <1>0, <1>3, AnswerEnds DEF Pending
    <2>2. sched \/ procs[p] # <<>> \/ p \in ending
      BY <2>1 DEF Driven
    <2>3. \/ procs'[p] = procs[p]
          \/ p \in ending'
          \/ host'.at \in {"ackstore", "next"} /\ host'.p = p
      BY <1>0, <1>3, AnswerEnds
    <2>4. QED
      BY <2>1, <2>2, <2>3 DEF Driven
  <1>4. QED
    BY <1>1, <1>2, <1>3

(* A restored record is sent, waits for a confirmation or is abandoned.    *)
LEMMA DrivenRestored ==
    ASSUME Serving, BondingRestored, NEW p \in Peers, NEW c \in Chars
    PROVE  DrivenStep(p, c)
  <1> SUFFICES ASSUME Pending(p, c)', ~Abandons(p, c), ~Jammed(p)', Pending(p, c) => Driven(p, c)
               PROVE  Driven(p, c)'
    BY DEF DrivenStep
  <1> DEFINE k == [sub |-> host.rec.sub, mod |-> host.rec.mod \/ host.rec.changed]
             op == IF host.rec.changed THEN Update(k, ind[host.p] # 0) ELSE "none"
  <1>0. /\ host.at = "restore" /\ host.p \in Peers /\ host.rec \in Record
        /\ host.rec.c \in Chars /\ TypeOK /\ cfg \in [Peers -> [Chars -> Flags]]
        /\ host \in HostState /\ Served
    BY DEF BondingRestored, Serving, Indicating, Types, HostWorks, Record, TypeOK
  <1>1. /\ cfg' = [cfg EXCEPT ![host.p][host.rec.c] = [sub |-> k.sub, mod |-> k.mod /\ op = "none"]]
        /\ \/ op = "none" /\ UNCHANGED <<ind, procs>>
           \/ op # "none" /\ Send(host.p, host.rec.c, op)
        /\ UNCHANGED <<conn, sched, ending>>
    BY DEF BondingRestored, Reschedule
  <1>2. host' # host
    <2>1. host'.at \in {"sent", "read"}
      BY <1>0 DEF BondingRestored, HostState
    <2>2. QED
      BY <1>0, <2>1
  <1>3. procs[p] # <<>> => procs'[p] # <<>>
    <2> HIDE DEF op
    <2>1. QED
      BY <1>0, <1>1, ServedSend
  <1>4. CASE p = host.p /\ c = host.rec.c
    <2>1. cfg'[p][c] = [sub |-> k.sub, mod |-> k.mod /\ op = "none"]
      BY <1>0, <1>1, <1>4
    <2>2. (host.rec.mod \/ host.rec.changed) /\ op = "none" /\ host.rec.sub # {}
          /\ host.rec.sub \subseteq Kinds
      <3>1. cfg'[p][c].mod = (k.mod /\ op = "none") /\ cfg'[p][c].sub = host.rec.sub
        BY <2>1
      <3>2. k.mod = (host.rec.mod \/ host.rec.changed)
        OBVIOUS
      <3>3. host.rec.sub \subseteq Kinds
        BY <1>0 DEF Record
      <3> HIDE DEF k, op
      <3>4. QED
        BY <3>1, <3>2, <3>3 DEF Pending
    <2>3. host.rec.changed
      BY <1>0, <1>2, <1>4, <2>2 DEF Abandons
    <2>4. ind[p] # 0
      BY <1>4, <2>2, <2>3 DEF Update, Kinds
    <2>5. procs[p] # <<>> \/ p \in ending
      <3>1. ind' = ind
        BY <1>1, <2>2
      <3>2. QED
        BY <1>0, <1>1, <2>4, <3>1 DEF Served, ServedBy, Jammed, Pending
    <2>6. QED
      BY <1>1, <1>3, <2>5 DEF Driven
  <1>5. CASE ~(p = host.p /\ c = host.rec.c)
    <2>1. cfg'[p][c] = cfg[p][c]
      BY <1>0, <1>1, <1>5
    <2>2. QED
      BY <1>0, <1>1, <1>3, <2>1 DEF Driven, Pending
  <1>6. QED
    BY <1>4, <1>5

LEMMA DrivenNext ==
    ASSUME Serving, [Next]_vars, NEW p \in Peers, NEW c \in Chars
    PROVE  DrivenStep(p, c)
  <1> USE DEF linkVars, indVars, ghosts
  <1>0. /\ cfg \in [Peers -> [Chars -> Flags]] /\ conn \in [Peers -> {"down", "up", "broken"}]
        /\ procs \in [Peers -> Seq(Chars)] /\ HostWorks(host) /\ LinksKept
    BY DEF Serving, Indicating, Types, TypeOK, Marking, Subscribing
  <1>1. CASE TxStart \/ TxNext \/ \E q \in Peers : TxOne(q)
    BY <1>1, DrivenTx
  <1>2. CASE \/ AckStore \/ SendNextIndicate
             \/ \E q \in Peers : IndicateRxRsp(q) \/ IndicateErr(q) \/ IndicateTmo(q)
    BY <1>2, DrivenAck
  <1>3. CASE BondingRestored
    BY <1>3, DrivenRestored
  <1>4. CASE CltCfgStore \/ BondingEstablished \/ RestoreRead \/ RestoreSent
    <2>1. UNCHANGED <<conn, cfg, procs, ending, sched>> /\ host.at \in {"cfgstore", "bond", "read", "sent"}
      <3>1. CASE CltCfgStore
        BY <3>1 DEF CltCfgStore
      <3>2. CASE BondingEstablished
        BY <3>2 DEF BondingEstablished
      <3>3. CASE RestoreRead
        BY <3>3, Zenon DEF RestoreRead
      <3>4. CASE RestoreSent
        BY <3>4 DEF RestoreSent
      <3>5. QED
        BY <1>4, <3>1, <3>2, <3>3, <3>4
    <2>2. QED
      BY <2>1, DrivenSame
  <1>5. CASE \E q \in Peers : Bond(q) \/ Restore(q)
    BY <1>5, DrivenSame DEF Bond, Restore
  <1>6. CASE ConnDelete
    <2>1. host.p \in Peers /\ host.at = "broken"
      BY <1>0, <1>6 DEF HostWorks, ConnDelete
    <2>2. CASE p = host.p
      BY <1>0, <1>6, <2>1, <2>2 DEF ConnDelete, DrivenStep, Pending
    <2>3. CASE p # host.p
      BY <1>0, <1>6, <2>1, <2>3, DrivenSame DEF ConnDelete
    <2>4. QED
      BY <2>2, <2>3
  <1>7. ASSUME NEW q \in Peers, ConnectionBroken(q) PROVE DrivenStep(p, c)
    <2>1. CASE p = q
      BY <1>0, <1>7, <2>1 DEF ConnectionBroken, DrivenStep, Pending
    <2>2. CASE p # q
      BY <1>0, <1>7, <2>2, DrivenSame DEF ConnectionBroken
    <2>3. QED
      BY <2>1, <2>2
  <1>8. ASSUME NEW q \in Peers, Connect(q) PROVE DrivenStep(p, c)
    <2>1. CASE p = q
      BY <1>0, <1>8, <2>1 DEF Connect, LinksKept, DrivenStep, Pending
    <2>2. CASE p # q
      BY <1>0, <1>8, <2>2, DrivenSame DEF Connect
    <2>3. QED
      BY <2>1, <2>2
  <1>9. ASSUME NEW q \in Peers, NEW d \in Chars, NEW s \in SUBSET Kinds, CltCfgWrite(q, d, s)
        PROVE  DrivenStep(p, c)
    <2>1. /\ cfg' = [cfg EXCEPT ![q][d] = [sub |-> s, mod |-> FALSE]]
          /\ UNCHANGED <<conn, sched, procs, ending>> /\ host.at = "idle"
      BY <1>9 DEF CltCfgWrite
    <2>2. CASE p = q /\ c = d
      BY <1>0, <2>1, <2>2 DEF DrivenStep, Pending
    <2>3. CASE ~(p = q /\ c = d)
      BY <1>0, <2>1, <2>3, DrivenSame
    <2>4. QED
      BY <2>2, <2>3
  <1>10. ASSUME NEW a \in Apps, NEW d \in Chars, ChrUpdated(a, d) PROVE DrivenStep(p, c)
    BY <1>10 DEF ChrUpdated, DrivenStep, Pending, Driven
  <1>11. CASE (\E a \in Apps : AppStep(a)) \/ UNCHANGED vars
    <2>1. UNCHANGED <<conn, cfg, procs, ending, sched, host>>
      <3>1. ASSUME NEW a \in Apps, ChrRead(a)
            PROVE  UNCHANGED <<conn, cfg, procs, ending, sched, host>>
        BY <3>1, Zenon DEF ChrRead
      <3>2. ASSUME NEW a \in Apps, ChrWrite(a)
            PROVE  UNCHANGED <<conn, cfg, procs, ending, sched, host>>
        BY <3>2 DEF ChrWrite
      <3>3. QED
        BY <1>11, <3>1, <3>2 DEF AppStep, vars
    <2>2. QED
      BY <2>1, DrivenSame
  <1>12. QED
    BY <1>1, <1>2, <1>3, <1>4, <1>5, <1>6, <1>7, <1>8, <1>9, <1>10, <1>11 DEF Next, HostStep

(* No step leaves a pending update of a connected, subscribed peer that    *)
(* had something to send it without anything to send it, nor makes one     *)
(* like that: the event is queued or being handled, or an indicate         *)
(* procedure is in progress or timed out, whatever answers, errors and     *)
(* timeouts end it.  Exceptions: the two steps of Abandons, and a          *)
(* connection whose slot an unexpected confirmation left taken (Jammed).   *)
(* This is what UpdatesSent rests on, for any number of peers,             *)
(* characteristics and tasks.                                              *)
UpdatesDriven == [][\A p \in Peers, c \in Chars : DrivenStep(p, c)]_vars

THEOREM UpdatesDrivenAlways == Spec => UpdatesDriven
  <1>1. Init => Serving
    BY IndicatingInit, MarkingInit, ServedInit DEF Serving
  <1>2. Serving /\ [Next]_vars => Serving'
    BY IndicatingStep, MarkingStep, ServedStep DEF Serving
  <1>3. Serving /\ [Next]_vars => [\A p \in Peers, c \in Chars : DrivenStep(p, c)]_vars
    BY DrivenNext
  <1>4. QED
    BY <1>1, <1>2, <1>3, PTL DEF Spec, UpdatesDriven
=============================================================================
