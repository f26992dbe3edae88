----------------------------- MODULE GattcProofs ----------------------------
(***************************************************************************)
(* For every pool, every set of connections and tasks and every bound: the *)
(* callback of a procedure gets its last status once, and no entry of the  *)
(* pool is lost, but for those that ble_gattc_resume_procs leaves behind.  *)
(***************************************************************************)
EXTENDS Gattc, FiniteSetTheorems, SequenceTheorems, WellFoundedInduction, TLAPS

-----------------------------------------------------------------------------
(* The entries at given positions of a list.                               *)

LEMMA MinIsIn ==
    ASSUME NEW S \in SUBSET Nat, S # {}
    PROVE  Min(S) \in S /\ \A y \in S : Min(S) <= y
  <1> DEFINE R == OpToRel(<, Nat)
  <1>1. IsWellFoundedOn(R, Nat)
    BY NatLessThanWellFounded
  <1>2. \A x, y \in Nat : y < x => <<y, x>> \in R
    BY DEF OpToRel
  <1> HIDE DEF R
  <1>3. PICK x \in S : \A y \in S : ~(<<y, x>> \in R)
    BY <1>1, WFMin
  <1>4. ASSUME NEW y \in S PROVE x <= y
    <2>1. x \in Nat /\ y \in Nat /\ ~(<<y, x>> \in R)
      BY <1>3
    <2>2. ~(y < x)
      BY <1>2, <2>1
    <2>3. QED
      BY <2>1, <2>2
  <1>5. QED
    BY <1>4 DEF Min

(* Skipped(M, j) counts the positions of M before j.                       *)
LEMMA SkippedOrder ==
    ASSUME NEW M \in SUBSET Nat, NEW j \in Nat
    PROVE  /\ Skipped(M, j) \in Nat /\ IsFiniteSet({k \in M : k < j})
           /\ \A i \in M : i < j => Skipped(M, i) < Skipped(M, j)
  <1>0. \A k \in M : k \in Nat
    OBVIOUS
  <1>1. ASSUME NEW x \in Nat PROVE IsFiniteSet({k \in M : k < x})
    <2>1. ASSUME NEW k \in {k \in M : k < x} PROVE k \in 0 .. x
      BY <1>0
    <2>2. IsFiniteSet(0 .. x)
      BY FS_Interval
    <2>3. QED
      BY <2>1, <2>2, FS_Subset
  <1>2. \A x \in Nat : Skipped(M, x) \in Nat
    BY <1>1, FS_CardinalityType DEF Skipped
  <1>3. ASSUME NEW i \in M, i < j PROVE Skipped(M, i) < Skipped(M, j)
    <2> DEFINE A == {k \in M : k < i}
               B == {k \in M : k < j}
    <2>1. i \in B /\ i \notin A
      BY <1>0, <1>3
    <2>2. ASSUME NEW k \in A PROVE k \in B
      <3>1. k \in M /\ k \in Nat /\ k < i /\ i \in Nat
        BY <1>0
      <3>2. QED
        BY <1>3, <3>1
    <2>3. IsFiniteSet(B)
      BY <1>1
    <2> HIDE DEF A, B
    <2>4. Cardinality(A) <= Cardinality(B) /\ Cardinality(A) # Cardinality(B)
      BY <2>1, <2>2, <2>3, FS_Subset
    <2>5. Cardinality(A) = Skipped(M, i) /\ Cardinality(B) = Skipped(M, j)
      BY DEF A, B, Skipped
    <2>6. QED
      BY <1>0, <1>2, <2>4, <2>5
  <1>4. QED
    BY <1>1, <1>2, <1>3

(* If more than n positions come before j, one of them has n before it.    *)
LEMMA SkippedReaches ==
    ASSUME NEW M \in SUBSET Nat, NEW n \in Nat, NEW j \in Nat, Skipped(M, j) > n
    PROVE  \E k \in M : Skipped(M, k) = n
  <1> DEFINE S == {k \in Nat : Skipped(M, k) > n}
             x == Min(S)
             y == x - 1
             A == {k \in M : k < y}
             B == {k \in M : k < x}
  <1>1. x \in S /\ \A k \in S : x <= k
    BY MinIsIn
  <1>2. x \in Nat /\ Skipped(M, x) > n /\ Skipped(M, x) \in Nat
    BY <1>1, SkippedOrder
  <1>3. \A k \in Nat : Skipped(M, k) > n => x <= k
    BY <1>1
  <1> HIDE DEF S, x
  <1>4. x # 0
    <2>1. ASSUME x = 0 PROVE B = {}
      <3>1. \A k \in M : ~(k < 0)
        OBVIOUS
      <3>2. QED
        BY <2>1, <3>1
    <2>2. Skipped(M, x) = Cardinality(B)
      BY DEF Skipped
    <2> HIDE DEF B
    <2>3. QED
      BY <1>2, <2>1, <2>2, FS_EmptySet
  <1>5. y \in Nat /\ Skipped(M, y) \in Nat /\ ~(Skipped(M, y) > n)
    <2>1. y \in Nat /\ ~(x <= y)
      BY <1>2, <1>4
    <2> HIDE DEF y
    <2>2. QED
      BY <1>3, <2>1, SkippedOrder
  <1>6. B = A \cup (IF y \in M THEN {y} ELSE {}) /\ y \notin A
    <2>1. \A k \in M : k < x <=> k < y \/ k = y
      BY <1>2
    <2>2. ~(y < y)
      BY <1>5
    <2>3. QED
      BY <2>1, <2>2
  <1>7. IsFiniteSet(A) /\ Cardinality(A) = Skipped(M, y) /\ Cardinality(B) = Skipped(M, x)
    BY <1>2, <1>5, SkippedOrder DEF Skipped
  <1> HIDE DEF A, B, y
  <1>8. y \in M
    <2>1. ASSUME y \notin M PROVE A = B
      BY <1>6, <2>1
    <2>2. QED
      BY <1>2, <1>5, <1>7, <2>1
  <1>9. Skipped(M, x) = Skipped(M, y) + 1
    BY <1>6, <1>7, <1>8, FS_AddElement
  <1>10. QED
    BY <1>2, <1>5, <1>8, <1>9

(* At(s, I) is a sequence of the entries of s at the positions I, each one *)
(* once.                                                                   *)
LEMMA AtFacts ==
    ASSUME NEW P, NEW s \in Seq(P), NEW I \in SUBSET DOMAIN s
    PROVE  /\ At(s, I) \in Seq(P) /\ IsFiniteSet(I) /\ Len(At(s, I)) = Cardinality(I)
           /\ Range(At(s, I)) = {s[i] : i \in I}
           /\ IsInjective(s) => IsInjective(At(s, I))
  <1> DEFINE n == Cardinality(I)
             m == Len(s) + 1
             f(k) == CHOOSE i \in I : Skipped(I, i) = k - 1
             q == At(s, I)
  <1>1. DOMAIN s = 1 .. Len(s) /\ Len(s) \in Nat /\ m \in Nat /\ I \in SUBSET Nat
    OBVIOUS
  <1>2. I = {k \in I : k < m}
    BY <1>1
  <1>3. IsFiniteSet(I) /\ n = Skipped(I, m) /\ n \in Nat
    BY <1>1, <1>2, SkippedOrder DEF Skipped
  <1> HIDE DEF n, m
  <1>4. ASSUME NEW k \in 1 .. n PROVE f(k) \in I /\ Skipped(I, f(k)) = k - 1
    <2>1. k - 1 \in Nat /\ Skipped(I, m) > k - 1
      BY <1>3
    <2>2. \E i \in I : Skipped(I, i) = k - 1
      BY <1>1, <2>1, SkippedReaches
    <2>3. QED
      BY <2>2
  <1>5. ASSUME NEW i \in I PROVE Skipped(I, i) + 1 \in 1 .. n /\ f(Skipped(I, i) + 1) = i
    <2>1. i \in Nat /\ i < m
      BY <1>1, <1>2
    <2>2. Skipped(I, i) \in Nat /\ Skipped(I, i) < n
      BY <1>1, <1>3, <2>1, SkippedOrder
    <2>3. Skipped(I, i) + 1 \in 1 .. n /\ (Skipped(I, i) + 1) - 1 = Skipped(I, i)
      BY <1>3, <2>2
    <2>4. ASSUME NEW j \in I, Skipped(I, j) = Skipped(I, i) PROVE j = i
      <3>1. j \in Nat
        BY <1>1
      <3>2. /\ i < j => Skipped(I, i) < Skipped(I, j)
            /\ j < i => Skipped(I, j) < Skipped(I, i)
        BY <1>1, <2>1, <3>1, SkippedOrder
      <3>3. QED
        BY <2>1, <2>2, <2>4, <3>1, <3>2
    <2>5. QED
      BY <2>3, <2>4
  <1>6. q = [k \in 1 .. n |-> s[f(k)]]
    BY DEF At, n
  <1> HIDE DEF f, q
  <1>7. \A i \in I : s[i] \in P
    BY <1>1
  <1>8. q \in Seq(P) /\ Len(q) = n /\ DOMAIN q = 1 .. n
    <2>1. \A k \in 1 .. n : s[f(k)] \in P
      BY <1>4, <1>7
    <2>2. q \in [1 .. n -> P]
      BY <1>6, <2>1
    <2>3. QED
      BY <1>3, <2>2
  <1>9. \A k \in DOMAIN q : q[k] = s[f(k)]
    BY <1>6, <1>8
  <1>10. Range(q) = {s[i] : i \in I}
    BY <1>4, <1>5, <1>8, <1>9 DEF Range
  <1>11. ASSUME IsInjective(s) PROVE IsInjective(q)
    <2>1. ASSUME NEW j \in 1 .. n, NEW k \in 1 .. n, q[j] = q[k] PROVE j = k
      <3>1. f(j) \in DOMAIN s /\ f(k) \in DOMAIN s /\ s[f(j)] = s[f(k)]
        BY <1>4, <1>8, <1>9, <2>1
      <3>2. f(j) = f(k)
        BY <1>11, <3>1 DEF IsInjective
      <3>3. j - 1 = k - 1
        BY <1>4, <3>2
      <3>4. QED
        BY <1>3, <3>3
    <2>2. QED
      BY <1>8, <2>1 DEF IsInjective
  <1>12. QED
    BY <1>3, <1>8, <1>10, <1>11 DEF q, n

-----------------------------------------------------------------------------
(* The inductive invariant.                                                *)

InUse(x) == proc[x] # Free

Busy(a)  == task[a].at # "idle"

Holding  == host.at \in {"send", "insert", "resume"}

(* The list holds no entry twice, and only entries in use whose calls have *)
(* returned 0.                                                             *)
ListOK ==
    /\ IsInjective(list)
    /\ \A x \in Listed : InUse(x) /\ proc[x].call \in accepted

(* An entry that a task is about to insert is in use and no other task's.  *)
TasksUse ==
    \A a \in Apps : Busy(a) =>
        /\ task[a].x \in Procs /\ InUse(task[a].x)
        /\ \A b \in Apps : Busy(b) /\ task[b].x = task[a].x => a = b

(* Nor is it on the list.                                                  *)
TasksOff == \A a \in Apps : Busy(a) => task[a].x \notin Listed

(* The host task's entry is in use, off the list and no task's; the one it *)
(* has put back, or takes for a stalled one, is on the list.               *)
HostOK ==
    /\ host.at # "astray"
    /\ Holding => /\ host.x \in Procs /\ InUse(host.x)
                  /\ proc[host.x].call \in accepted
                  /\ host.x \notin Listed
                  /\ \A a \in Apps : Busy(a) => task[a].x # host.x
    /\ host.at = "broken" => host.c \in Conns
    /\ host.at \in {"next", "again"} => host.x \in Listed

(* No two entries are for the same call, and calls are numbered as they    *)
(* are made.                                                               *)
CallsOK ==
    /\ \A x \in Procs : InUse(x) => proc[x].call <= used["call"]
    /\ \A x, y \in Procs : InUse(x) /\ InUse(y) /\ proc[x].call = proc[y].call => x = y
    /\ \A n \in accepted : n <= used["call"]

(* What holds whatever becomes of the list, and what holds until the host  *)
(* task goes astray.                                                       *)
Sound   == TypeOK /\ TasksUse /\ CallsOK /\ FinalOnce
Serving == Sound /\ ListOK /\ TasksOff /\ HostOK
Astray  == Sound /\ host.at = "astray"

(* Every entry in use is in one place.  The local list of stalled entries  *)
(* is empty but in ble_gattc_resume_procs.                                 *)
Resting ==
    /\ host.at \in {"idle", "send", "insert", "broken"} => host.todo = <<>>
    /\ host.at \in {"idle", "broken"} => host.x = NoProc

Placed(x) ==
    \/ x \in Listed \/ x \in lost
    \/ \E a \in Apps : Busy(a) /\ task[a].x = x
    \/ host.x = x \/ x \in Range(host.todo)

AllPlaced == \A x \in Procs : InUse(x) => Placed(x)

Keeping == Serving /\ Resting /\ AllPlaced

-----------------------------------------------------------------------------
(* Operations on the list.                                                 *)

LEMMA ListedProcs == ASSUME list \in Seq(Procs) PROVE Listed \in SUBSET Procs
  BY DEF Listed, Range

LEMMA WithoutFacts ==
    ASSUME list \in Seq(Procs), NEW S
    PROVE  /\ Without(S) \in Seq(Procs) /\ Range(Without(S)) = Listed \ S
           /\ IsInjective(list) => IsInjective(Without(S))
  <1> DEFINE I == DOMAIN list \ Positions(S)
  <1>1. I \in SUBSET DOMAIN list /\ I = {i \in DOMAIN list : list[i] \notin S}
    BY DEF Positions
  <1>2. Without(S) = At(list, I)
    BY DEF Without
  <1> HIDE DEF I
  <1>3. {list[i] : i \in I} = Listed \ S
    BY <1>1 DEF Listed, Range
  <1>4. QED
    BY <1>1, <1>2, <1>3, AtFacts

LEMMA ExtractedFacts ==
    ASSUME list \in Seq(Procs), NEW S
    PROVE  /\ Extracted(S) \in Seq(Procs) /\ Range(Extracted(S)) = Listed \cap S
           /\ IsInjective(list) => IsInjective(Extracted(S))
  <1> DEFINE I == Positions(S)
  <1>1. I \in SUBSET DOMAIN list /\ I = {i \in DOMAIN list : list[i] \in S}
    BY DEF Positions
  <1>2. Extracted(S) = At(list, I)
    BY DEF Extracted
  <1> HIDE DEF I
  <1>3. {list[i] : i \in I} = Listed \cap S
    BY <1>1 DEF Listed, Range
  <1>4. QED
    BY <1>1, <1>2, <1>3, AtFacts

LEMMA FirstFacts ==
    ASSUME list \in Seq(Procs), NEW S
    PROVE  First(S) = NoProc \/ (First(S) \in Listed /\ First(S) \in S)
  <1> DEFINE I == Positions(S)
  <1>1. I \in SUBSET Nat /\ I = {i \in DOMAIN list : list[i] \in S}
    BY DEF Positions
  <1>2. First(S) = IF I = {} THEN NoProc ELSE list[Min(I)]
    BY DEF First
  <1> HIDE DEF I
  <1>3. CASE I # {}
    <2>1. Min(I) \in I
      BY <1>1, <1>3, MinIsIn
    <2>2. QED
      BY <1>1, <1>2, <1>3, <2>1 DEF Listed, Range
  <1>4. QED
    BY <1>2, <1>3

LEMMA AppendFacts ==
    ASSUME list \in Seq(Procs), NEW x \in Procs
    PROVE  /\ Append(list, x) \in Seq(Procs) /\ Range(Append(list, x)) = Listed \cup {x}
           /\ IsInjective(list) /\ x \notin Listed => IsInjective(Append(list, x))
  <1> DEFINE q == Append(list, x)
             n == Len(list)
  <1>1. /\ q \in Seq(Procs) /\ n \in Nat /\ DOMAIN q = 1 .. n + 1 /\ DOMAIN list = 1 .. n
        /\ q[n + 1] = x /\ \A i \in 1 .. n : q[i] = list[i]
    BY AppendProperties
  <1> HIDE DEF q, n
  <1>2. \A i \in 1 .. n + 1 : i \in 1 .. n \/ i = n + 1
    BY <1>1
  <1>3. \A i \in 1 .. n : i \in 1 .. n + 1
    BY <1>1
  <1>4. n + 1 \in 1 .. n + 1
    BY <1>1
  <1>5. Range(q) = Listed \cup {x}
    BY <1>1, <1>2, <1>3, <1>4 DEF Listed, Range
  <1>6. ASSUME IsInjective(list), x \notin Listed PROVE IsInjective(q)
    <2>1. \A i \in 1 .. n : list[i] # x
      BY <1>1, <1>6 DEF Listed, Range
    <2>2. \A i, j \in 1 .. n : list[i] = list[j] => i = j
      BY <1>1, <1>6 DEF IsInjective
    <2>3. \A i, j \in 1 .. n + 1 : q[i] = q[j] => i = j
      BY <1>1, <1>2, <2>1, <2>2
    <2>4. QED
      BY <1>1, <2>3 DEF IsInjective
  <1>7. QED
    BY <1>1, <1>5, <1>6 DEF q

(* The entries S end, with or without a word.                              *)
Ends(S) ==
    /\ proc' = Freed(S)
    /\ final' = Finalized(S) \/ UNCHANGED final

(* A procedure that ends is told so once.                                  *)
LEMMA EndCounts ==
    ASSUME Serving, NEW S \in SUBSET Listed, Ends(S)
    PROVE  /\ final' \in [Calls -> Nat]
           /\ \A n \in Calls : /\ final'[n] \in {0, 1}
                               /\ final'[n] = 1 => \/ final[n] = 1
                                                   \/ \E x \in S : proc[x].call = n
  <1>0. TypeOK /\ ListOK /\ CallsOK /\ FinalOnce
    BY DEF Serving, Sound
  <1>1. S \in SUBSET Procs
    BY <1>0, ListedProcs DEF TypeOK
  <1> DEFINE A(n) == {x \in S : proc[x].call = n}
  <1>2. ASSUME NEW n \in Calls
        PROVE  /\ final[n] + Cardinality(A(n)) \in {0, 1}
               /\ final[n] + Cardinality(A(n)) = 1 =>
                    final[n] = 1 \/ \E x \in S : proc[x].call = n
    <2>1. final[n] \in {0, 1}
      BY <1>0 DEF TypeOK, FinalOnce
    <2>2. CASE A(n) = {}
      <3> HIDE DEF A
      <3>1. Cardinality(A(n)) = 0
        BY <2>2, FS_EmptySet
      <3>2. QED
        BY <2>1, <3>1
    <2>3. CASE A(n) # {}
      <3>1. PICK x \in S : proc[x].call = n
        BY <2>3
      <3>2. \A y \in S : y \in Procs /\ InUse(y)
        BY <1>0, <1>1 DEF ListOK
      <3>3. \A y \in S : proc[y].call = n => y = x
        BY <1>0, <3>1, <3>2 DEF CallsOK
      <3>4. A(n) = {x}
        BY <3>1, <3>3
      <3>5. final[n] # 1
        BY <1>0, <3>1, <3>2 DEF FinalOnce, InUse
      <3> HIDE DEF A
      <3>6. Cardinality(A(n)) = 1
        BY <3>4, FS_Singleton
      <3>7. final[n] + Cardinality(A(n)) = 1
        BY <2>1, <3>5, <3>6
      <3>8. QED
        BY <3>1, <3>6, <3>7
    <2>4. QED
      BY <2>2, <2>3
  <1>3. CASE final' = Finalized(S)
    <2>1. final' = [n \in Calls |-> final[n] + Cardinality(A(n))]
      BY <1>3 DEF Finalized
    <2> HIDE DEF A
    <2>2. \A n \in Calls : final[n] + Cardinality(A(n)) \in Nat
      BY <1>2
    <2>3. QED
      BY <1>2, <2>1, <2>2
  <1>4. CASE UNCHANGED final
    <2>1. \A n \in Calls : final[n] \in {0, 1}
      BY <1>0 DEF TypeOK, FinalOnce
    <2>2. QED
      BY <1>0, <1>4, <2>1 DEF TypeOK
  <1>5. QED
    BY <1>3, <1>4 DEF Ends

LEMMA EndCalls ==
    ASSUME Serving, NEW S \in SUBSET Listed, Ends(S), UNCHANGED <<task, accepted, used>>
    PROVE  /\ proc' \in [Procs -> Entry \cup {Free}]
           /\ \A x \in Procs : proc'[x] = IF x \in S THEN Free ELSE proc[x]
           /\ final' \in [Calls -> Nat]
           /\ TasksUse' /\ CallsOK' /\ FinalOnce'
  <1>1. /\ TypeOK /\ ListOK /\ TasksUse /\ TasksOff /\ CallsOK /\ FinalOnce
        /\ Listed \in SUBSET Procs
    BY ListedProcs DEF Serving, Sound, TypeOK
  <1>2. /\ proc' \in [Procs -> Entry \cup {Free}]
        /\ \A x \in Procs : proc'[x] = IF x \in S THEN Free ELSE proc[x]
    BY <1>1 DEF TypeOK, Ends, Freed
  <1>3. /\ final' \in [Calls -> Nat]
        /\ \A n \in Calls : /\ final'[n] \in {0, 1}
                            /\ final'[n] = 1 => \/ final[n] = 1
                                                \/ \E x \in S : proc[x].call = n
    BY EndCounts
  <1>4. TasksUse'
    BY <1>1, <1>2 DEF TasksUse, TasksOff, Busy, InUse
  <1>5. CallsOK'
    BY <1>1, <1>2 DEF CallsOK, InUse
  <1>6. FinalOnce'
    <2> SUFFICES ASSUME NEW n \in Calls
                 PROVE  /\ final'[n] <= 1
                        /\ final'[n] = 1 => /\ n \in accepted
                                            /\ \A y \in Procs : proc'[y] # Free => proc'[y].call # n
      BY DEF FinalOnce
    <2>1. CASE \E x \in S : proc[x].call = n
      <3>1. PICK x \in S : proc[x].call = n
        BY <2>1
      <3>2. x \in Procs /\ InUse(x) /\ n \in accepted
        BY <1>1, <3>1 DEF ListOK
      <3>3. \A y \in Procs : InUse(y) /\ proc[y].call = n => y = x
        BY <1>1, <3>1, <3>2 DEF CallsOK
      <3>4. \A y \in Procs : proc'[y] # Free => proc'[y].call # n
        BY <1>2, <3>1, <3>3 DEF InUse
      <3>5. QED
        BY <1>3, <3>2, <3>4
    <2>2. CASE ~\E x \in S : proc[x].call = n
      <3>1. final'[n] = 1 => final[n] = 1
        BY <1>3, <2>2
      <3>2. final[n] = 1 => n \in accepted /\ \A y \in Procs : proc[y] # Free => proc[y].call # n
        BY <1>1 DEF FinalOnce
      <3>3. QED
        BY <1>2, <1>3, <3>1, <3>2
    <2>3. QED
      BY <2>1, <2>2
  <1>7. QED
    BY <1>2, <1>3, <1>4, <1>5, <1>6

-----------------------------------------------------------------------------
(* Types.                                                                  *)

LEMMA EntryFields ==
    ASSUME TypeOK, NEW x \in Procs, InUse(x)
    PROVE  /\ proc[x] \in Entry /\ proc[x].conn \in Conns /\ proc[x].call \in Calls
           /\ proc[x].op \in Ops /\ proc[x].stalled \in BOOLEAN
  BY DEF TypeOK, InUse, Entry

LEMMA SentTypes ==
    ASSUME TypeOK, NEW x \in Procs, InUse(x), NEW req \in {"read", "blob"}, Sent(x, req)
    PROVE  wire' \in [Conns -> Seq(Requests)] /\ conf' \in [Conns -> Nat]
  <1> DEFINE m == [call |-> proc[x].call, req |-> req]
             c == proc[x].conn
  <1>1. m \in Requests /\ c \in Conns
    BY EntryFields DEF Requests
  <1>2. /\ wire' = IF proc[x].op = "indicate" THEN wire
                   ELSE [wire EXCEPT ![c] = Append(wire[c], m)]
        /\ conf' = IF proc[x].op = "indicate" THEN [conf EXCEPT ![c] = conf[c] + 1] ELSE conf
    BY DEF Sent
  <1> HIDE DEF m, c
  <1>3. wire \in [Conns -> Seq(Requests)] /\ conf \in [Conns -> Nat]
    BY DEF TypeOK
  <1>4. Append(wire[c], m) \in Seq(Requests) /\ conf[c] + 1 \in Nat
    BY <1>1, <1>3
  <1>5. QED
    BY <1>2, <1>3, <1>4

LEMMA AnsweredTypes ==
    ASSUME TypeOK, NEW c \in Conns, wire[c] # <<>>, Answered(c)
    PROVE  wire' \in [Conns -> Seq(Requests)]
  <1>1. wire[c] \in Seq(Requests) /\ wire[c] # <<>>
    BY DEF TypeOK
  <1>2. Tail(wire[c]) \in Seq(Requests)
    BY <1>1
  <1>3. QED
    BY <1>2 DEF Answered, TypeOK

(* What First finds for an answer is on the list.                          *)
LEMMA RxFinds ==
    ASSUME TypeOK, NEW c
    PROVE  /\ RspFor(c) = NoProc \/ RspFor(c) \in Listed
           /\ ErrFor(c) = NoProc \/ ErrFor(c) \in Listed
           /\ \A S : First(S) = NoProc \/ First(S) \in Listed
  BY FirstFacts DEF TypeOK, RspFor, ErrFor

LEMMA IdleTypes == TaskIdle \in TaskState /\ HostIdle \in HostState
  BY DEF TaskIdle, TaskState, HostIdle, HostState

LEMMA ServingInit == Init => Serving
  <1> SUFFICES ASSUME Init PROVE Serving
    OBVIOUS
  <1>1. TypeOK
    <2>1. <<>> \in Seq(Procs) /\ <<>> \in Seq(Requests)
      OBVIOUS
    <2>2. Free \in Entry \cup {Free}
      OBVIOUS
    <2>3. QED
      BY IdleTypes, <2>1, <2>2 DEF Init, TypeOK
  <1>2. Listed = {}
    BY DEF Init, Listed, Range
  <1>3. ListOK
    BY <1>2 DEF ListOK, IsInjective, Init
  <1>4. TasksUse /\ TasksOff /\ HostOK
    BY DEF TasksUse, TasksOff, HostOK, Init, TaskIdle, HostIdle, Busy, Holding
  <1>5. CallsOK
    BY DEF CallsOK, Init, InUse
  <1>6. FinalOnce
    BY DEF FinalOnce, Init
  <1>7. QED
    BY <1>1, <1>3, <1>4, <1>5, <1>6 DEF Serving, Sound

-----------------------------------------------------------------------------
(* Steps of the same kind.                                                 *)

(* The entries in use, and what they are for, stay the same.               *)
SameCalls ==
    \A y \in Procs : /\ proc'[y] # Free <=> proc[y] # Free
                     /\ proc[y] # Free => proc'[y].call = proc[y].call

(* A procedure that stalls, or stalls no more, stays what it is.           *)
LEMMA StallFacts ==
    ASSUME TypeOK
    PROVE  /\ \A x \in Procs, b \in BOOLEAN :
                InUse(x) /\ proc' = [proc EXCEPT ![x].stalled = b] =>
                  SameCalls /\ proc' \in [Procs -> Entry \cup {Free}]
           /\ Use("nomem", MaxNoMem) =>
                used' \in [Bounded -> Nat] /\ used'["call"] = used["call"]
  <1>1. ASSUME NEW x \in Procs, NEW b \in BOOLEAN, InUse(x),
               proc' = [proc EXCEPT ![x].stalled = b]
        PROVE  SameCalls /\ proc' \in [Procs -> Entry \cup {Free}]
    <2>1. proc[x] \in Entry /\ proc \in [Procs -> Entry \cup {Free}]
      BY <1>1, EntryFields DEF TypeOK
    <2>2. [proc[x] EXCEPT !.stalled = b] \in Entry
          /\ [proc[x] EXCEPT !.stalled = b].call = proc[x].call
      BY <2>1 DEF Entry
    <2>3. \A y \in Procs : proc'[y] = IF y = x THEN [proc[x] EXCEPT !.stalled = b] ELSE proc[y]
      BY <1>1, <2>1
    <2>4. proc' \in [Procs -> Entry \cup {Free}]
      BY <1>1, <2>1, <2>2
    <2>5. QED
      BY <1>1, <2>2, <2>3, <2>4, NoProcAssumption DEF SameCalls, InUse, Free
  <1>2. Use("nomem", MaxNoMem) => used' \in [Bounded -> Nat] /\ used'["call"] = used["call"]
    BY DEF Use, TypeOK, Bounded
  <1>3. QED
    BY <1>1, <1>2

(* The entries of a sequence are its first one and the others.             *)
LEMMA HeadTailRange ==
    ASSUME NEW P, NEW s \in Seq(P), s # <<>>
    PROVE  Range(s) = {Head(s)} \cup Range(Tail(s)) /\ Tail(s) \in Seq(P)
  <1>1. /\ Tail(s) \in Seq(P) /\ Len(Tail(s)) = Len(s) - 1 /\ Len(s) \in Nat /\ Len(s) >= 1
        /\ \A i \in 1 .. Len(s) - 1 : Tail(s)[i] = s[i + 1]
        /\ Head(s) = s[1]
    BY HeadTailProperties, EmptySeq
  <1>2. \A i \in 1 .. Len(s) : i = 1 \/ (i - 1 \in 1 .. Len(s) - 1 /\ (i - 1) + 1 = i)
    BY <1>1
  <1>3. \A i \in 1 .. Len(s) - 1 : i + 1 \in 1 .. Len(s)
    BY <1>1
  <1>4. DOMAIN s = 1 .. Len(s) /\ DOMAIN Tail(s) = 1 .. Len(s) - 1 /\ 1 \in 1 .. Len(s)
    BY <1>1
  <1>5. Range(s) = {s[i] : i \in 1 .. Len(s)} /\ Range(Tail(s)) = {Tail(s)[i] : i \in 1 .. Len(s) - 1}
    BY <1>4 DEF Range
  <1>6. ASSUME NEW y \in Range(s) PROVE y = Head(s) \/ y \in Range(Tail(s))
    <2>1. PICK i \in 1 .. Len(s) : y = s[i]
      BY <1>5, <1>6
    <2>2. CASE i = 1
      BY <1>1, <2>1, <2>2
    <2>3. CASE i # 1
      <3>1. i - 1 \in 1 .. Len(s) - 1 /\ Tail(s)[i - 1] = y
        BY <1>1, <1>2, <2>1, <2>3
      <3>2. QED
        BY <1>5, <3>1
    <2>4. QED
      BY <2>2, <2>3
  <1>7. ASSUME NEW y \in Range(Tail(s)) PROVE y \in Range(s)
    <2>1. PICK i \in 1 .. Len(s) - 1 : y = Tail(s)[i]
      BY <1>5, <1>7
    <2>2. y = s[i + 1] /\ i + 1 \in 1 .. Len(s)
      BY <1>1, <1>3, <2>1
    <2>3. QED
      BY <1>5, <2>2
  <1>8. Head(s) \in Range(s)
    BY <1>1, <1>4, <1>5
  <1>9. QED
    BY <1>1, <1>6, <1>7, <1>8

LEMMA SameSound ==
    ASSUME Sound, SameCalls, UNCHANGED <<task, final>>, used'["call"] = used["call"],
           accepted' = accepted
    PROVE  TasksUse' /\ CallsOK' /\ FinalOnce'
  <1>1. TasksUse /\ CallsOK /\ FinalOnce
    BY DEF Sound
  <1>2. TasksUse'
    BY <1>1 DEF TasksUse, Busy, InUse, SameCalls
  <1>3. CallsOK'
    BY <1>1 DEF CallsOK, InUse, SameCalls
  <1>4. FinalOnce'
    BY <1>1 DEF FinalOnce, SameCalls
  <1>5. QED
    BY <1>2, <1>3, <1>4

LEMMA SameServes ==
    ASSUME Serving, SameCalls, UNCHANGED <<list, task, final, accepted>>,
           used'["call"] = used["call"]
    PROVE  ListOK' /\ TasksUse' /\ TasksOff' /\ CallsOK' /\ FinalOnce'
  <1>1. Sound /\ ListOK /\ TasksOff /\ Listed' = Listed /\ Listed \in SUBSET Procs
    BY ListedProcs DEF Serving, Sound, TypeOK, Listed
  <1>2. ListOK'
    BY <1>1 DEF ListOK, InUse, SameCalls
  <1>3. TasksOff'
    BY <1>1 DEF TasksOff, Busy
  <1>4. QED
    BY <1>1, <1>2, <1>3, SameSound

(* Procedures end and leave the list.                                      *)
LEMMA EndServes ==
    ASSUME Serving, NEW S \in SUBSET Listed, Ends(S), list' = Without(S),
           UNCHANGED <<task, accepted, used>>
    PROVE  /\ ListOK' /\ TasksUse' /\ TasksOff' /\ CallsOK' /\ FinalOnce'
           /\ proc' \in [Procs -> Entry \cup {Free}] /\ final' \in [Calls -> Nat]
           /\ list' \in Seq(Procs)
           /\ Listed' = Listed \ S
           /\ \A x \in Procs : proc'[x] = IF x \in S THEN Free ELSE proc[x]
  <1>1. TypeOK /\ ListOK /\ TasksOff /\ Listed \in SUBSET Procs
    BY ListedProcs DEF Serving, Sound, TypeOK
  <1>2. list' \in Seq(Procs) /\ IsInjective(list') /\ Listed' = Listed \ S
    BY <1>1, WithoutFacts DEF TypeOK, ListOK, Listed
  <1>3. ListOK'
    BY <1>1, <1>2, EndCalls DEF ListOK, InUse
  <1>4. TasksOff'
    BY <1>1, <1>2 DEF TasksOff, Busy
  <1>5. QED
    BY <1>2, <1>3, <1>4, EndCalls

(* An entry is put on the list.                                            *)
LEMMA PutServes ==
    ASSUME Serving, SameCalls, NEW x \in Procs, InUse(x), x \notin Listed,
           list' = Append(list, x), accepted' = accepted \cup {proc[x].call},
           UNCHANGED final, used'["call"] = used["call"]
    PROVE  /\ ListOK' /\ CallsOK' /\ FinalOnce' /\ list' \in Seq(Procs)
           /\ Listed' = Listed \cup {x} /\ accepted' \in SUBSET Calls
  <1>1. ListOK /\ CallsOK /\ FinalOnce /\ TypeOK /\ Listed \in SUBSET Procs
    BY ListedProcs DEF Serving, Sound, TypeOK
  <1>2. list' \in Seq(Procs) /\ IsInjective(list') /\ Listed' = Listed \cup {x}
    BY <1>1, AppendFacts DEF TypeOK, ListOK, Listed
  <1>3. accepted' \in SUBSET Calls
    BY <1>1, EntryFields DEF TypeOK
  <1>4. ListOK'
    BY <1>1, <1>2 DEF ListOK, InUse, SameCalls
  <1>5. CallsOK'
    BY <1>1 DEF CallsOK, InUse, SameCalls
  <1>6. FinalOnce'
    BY <1>1 DEF FinalOnce, SameCalls
  <1>7. QED
    BY <1>2, <1>3, <1>4, <1>5, <1>6

(* Entries are taken off the list.                                         *)
LEMMA TakeServes ==
    ASSUME Serving, NEW S, list' = Without(S), UNCHANGED <<proc, task, final, accepted>>,
           used'["call"] = used["call"]
    PROVE  /\ ListOK' /\ TasksUse' /\ TasksOff' /\ CallsOK' /\ FinalOnce'
           /\ list' \in Seq(Procs) /\ Listed' = Listed \ S
  <1>1. Sound /\ ListOK /\ TasksOff /\ TypeOK
    BY DEF Serving, Sound
  <1>2. list' \in Seq(Procs) /\ IsInjective(list') /\ Listed' = Listed \ S
    BY <1>1, WithoutFacts DEF TypeOK, ListOK, Listed
  <1>3. ListOK'
    BY <1>1, <1>2 DEF ListOK, InUse
  <1>4. TasksOff'
    BY <1>1, <1>2 DEF TasksOff, Busy
  <1>5. SameCalls
    BY DEF SameCalls
  <1>6. QED
    BY <1>1, <1>2, <1>3, <1>4, <1>5, SameSound

-----------------------------------------------------------------------------
(* The steps of a task.                                                    *)

(* The entry x that ble_gattc_proc_alloc takes for task a was free, and    *)
(* its new contents e are for the newest call.                             *)
AllocTakes(a, x, e) ==
    /\ proc[x] = Free /\ e # Free /\ e.call = used["call"] + 1 /\ ~e.stalled
    /\ \A y \in Procs : proc'[y] = IF y = x THEN e ELSE proc[y]
    /\ \A b \in Apps : task'[b] = IF b = a THEN [at |-> "tx", x |-> x] ELSE task[b]
    /\ proc' \in [Procs -> Entry \cup {Free}] /\ task' \in [Apps -> TaskState]
    /\ used' \in [Bounded -> Nat] /\ used'["call"] = used["call"] + 1
    /\ used["call"] \in Nat /\ task[a].at = "idle"
    /\ UNCHANGED <<link, list, resumeAt, host, wire, conf, final, accepted, lost, silent>>

LEMMA AllocFacts ==
    ASSUME TypeOK, NEW a \in Apps, NEW op \in Ops, NEW c \in Conns, Alloc(a, op, c)
    PROVE  \E x \in Procs, e \in Entry : AllocTakes(a, x, e)
  <1> DEFINE x == CHOOSE y \in Procs : proc[y] = Free
             n == used["call"] + 1
             e == [op |-> op, conn |-> c, call |-> n, stalled |-> FALSE]
  <1>1. x \in Procs /\ proc[x] = Free
    BY DEF Alloc
  <1>2. used["call"] < MaxCalls /\ used' = [used EXCEPT !["call"] = n]
    BY DEF Alloc, Use
  <1>3. used \in [Bounded -> Nat] /\ "call" \in Bounded
    BY DEF TypeOK, Bounded
  <1>4. used["call"] \in Nat /\ n \in Calls /\ n \in Nat /\ used' \in [Bounded -> Nat] /\ used'["call"] = n
    BY <1>2, <1>3, BoundsAssumption DEF Calls
  <1>5. e \in Entry
    BY <1>4 DEF Entry
  <1>6. e # Free /\ e.call = n /\ ~e.stalled
    BY <1>5, NoProcAssumption DEF Free
  <1>7. /\ proc' = [proc EXCEPT ![x] = e]
        /\ task' = [task EXCEPT ![a] = [at |-> "tx", x |-> x]]
        /\ UNCHANGED <<link, list, resumeAt, host, wire, conf, final, accepted, lost, silent>>
        /\ task[a].at = "idle"
    BY <1>4 DEF Alloc
  <1> HIDE DEF x, e
  <1>8. [at |-> "tx", x |-> x] \in TaskState
    BY <1>1 DEF TaskState
  <1>9. proc' \in [Procs -> Entry \cup {Free}] /\ task' \in [Apps -> TaskState]
    BY <1>1, <1>5, <1>7, <1>8 DEF TypeOK
  <1>10. /\ \A y \in Procs : proc'[y] = IF y = x THEN e ELSE proc[y]
         /\ \A b \in Apps : task'[b] = IF b = a THEN [at |-> "tx", x |-> x] ELSE task[b]
    BY <1>1, <1>7 DEF TypeOK
  <1>11. AllocTakes(a, x, e)
    BY <1>1, <1>4, <1>6, <1>7, <1>9, <1>10 DEF AllocTakes
  <1>12. QED
    BY <1>1, <1>5, <1>11

LEMMA AllocSound ==
    ASSUME Sound, NEW a \in Apps, NEW op \in Ops, NEW c \in Conns, Alloc(a, op, c)
    PROVE  Sound'
  <1>1. TypeOK /\ TasksUse /\ CallsOK /\ FinalOnce
    BY DEF Sound
  <1> DEFINE n == used["call"] + 1
  <1>0. PICK x \in Procs, e \in Entry : AllocTakes(a, x, e)
    BY <1>1, AllocFacts
  <1>2. /\ proc[x] = Free /\ e # Free /\ e.call = n
        /\ \A y \in Procs : proc'[y] = IF y = x THEN e ELSE proc[y]
        /\ \A b \in Apps : task'[b] = IF b = a THEN [at |-> "tx", x |-> x] ELSE task[b]
        /\ proc' \in [Procs -> Entry \cup {Free}] /\ task' \in [Apps -> TaskState]
        /\ used' \in [Bounded -> Nat] /\ used'["call"] = n /\ used["call"] \in Nat
        /\ UNCHANGED <<link, list, resumeAt, host, wire, conf, final, accepted, lost, silent>>
    BY <1>0 DEF AllocTakes
  <1>3. n = used["call"] + 1 /\ n \in Nat
    BY <1>2
  <1> HIDE DEF n
  <1>4. TypeOK'
    BY <1>1, <1>2 DEF TypeOK
  <1>5. TasksUse'
    BY <1>1, <1>2 DEF TasksUse, Busy, InUse
  <1>6. \A y \in Procs : InUse(y) => proc[y].call \in Nat /\ proc[y].call <= used["call"]
    BY <1>1, EntryFields DEF CallsOK, Calls
  <1>7. \A m \in accepted : m \in Nat /\ m <= used["call"]
    BY <1>1 DEF CallsOK, TypeOK, Calls
  <1>8. \A m \in Nat : m <= used["call"] => m <= n /\ m # n
    BY <1>2, <1>3
  <1>9. CallsOK'
    <2>1. \A y \in Procs : proc'[y] # Free => proc'[y].call <= used'["call"]
      BY <1>2, <1>3, <1>6, <1>8 DEF InUse
    <2>2. \A y, z \in Procs : proc'[y] # Free /\ proc'[z] # Free /\ proc'[y].call = proc'[z].call
                             => y = z
      BY <1>1, <1>2, <1>6, <1>8 DEF CallsOK, InUse
    <2>3. \A m \in accepted' : m <= used'["call"]
      BY <1>2, <1>7, <1>8
    <2>4. QED
      BY <2>1, <2>2, <2>3 DEF CallsOK, InUse
  <1>10. FinalOnce'
    <2>1. \A m \in accepted : m # n
      BY <1>7, <1>8
    <2>2. QED
      BY <1>1, <1>2, <2>1 DEF FinalOnce
  <1>11. QED
    BY <1>4, <1>5, <1>9, <1>10 DEF Sound

(* What a task's call leaves of its entry.                                 *)
LEMMA TxFacts ==
    ASSUME Sound, NEW a \in Apps, Tx(a)
    PROVE  /\ task[a].at = "tx" /\ task[a].x \in Procs /\ InUse(task[a].x)
           /\ task' \in [Apps -> TaskState]
           /\ UNCHANGED <<link, list, resumeAt, host, final, accepted, lost, silent, used>>
           /\ \A b \in Apps : b # a => task'[b] = task[b]
           /\ \/ /\ Sent(task[a].x, "read") /\ UNCHANGED proc
                 /\ task'[a].at = "insert" /\ task'[a].x = task[a].x
              \/ /\ task'[a].at = "idle" /\ UNCHANGED <<wire, conf>>
                 /\ proc' = Freed({task[a].x})
                 /\ \A y \in Procs : proc'[y] = IF y = task[a].x THEN Free ELSE proc[y]
  <1>1. TypeOK /\ TasksUse /\ task \in [Apps -> TaskState]
    BY DEF Sound, TypeOK
  <1>2. task[a].at = "tx" /\ task[a].x \in Procs /\ InUse(task[a].x)
    BY <1>1 DEF Tx, TasksUse, Busy
  <1>3. TaskIdle \in TaskState /\ TaskIdle.at = "idle"
    BY IdleTypes DEF TaskIdle
  <1>4. UNCHANGED <<link, list, resumeAt, host, final, accepted, lost, silent, used>>
    BY DEF Tx
  <1>5. CASE /\ Sent(task[a].x, "read") /\ UNCHANGED proc
             /\ task' = [task EXCEPT ![a].at = "insert"]
    BY <1>1, <1>2, <1>4, <1>5 DEF TaskState
  <1>6. CASE /\ proc' = Freed({task[a].x}) /\ UNCHANGED <<wire, conf>>
             /\ task' = [task EXCEPT ![a] = TaskIdle]
    BY <1>1, <1>2, <1>3, <1>4, <1>6 DEF Freed
  <1>7. QED
    BY <1>5, <1>6 DEF Tx

LEMMA TxSound == ASSUME Sound, NEW a \in Apps, Tx(a) PROVE Sound'
  <1> DEFINE x == task[a].x
  <1>1. TypeOK /\ TasksUse /\ CallsOK /\ FinalOnce
    BY DEF Sound
  <1>2. /\ task[a].at = "tx" /\ x \in Procs /\ InUse(x) /\ task' \in [Apps -> TaskState]
        /\ UNCHANGED <<link, list, resumeAt, host, final, accepted, lost, silent, used>>
        /\ \A b \in Apps : b # a => task'[b] = task[b]
    BY TxFacts
  <1>3. \/ /\ Sent(x, "read") /\ UNCHANGED proc
           /\ task'[a].at = "insert" /\ task'[a].x = x
        \/ /\ task'[a].at = "idle" /\ UNCHANGED <<wire, conf>>
           /\ proc' \in [Procs -> Entry \cup {Free}]
           /\ \A y \in Procs : proc'[y] = IF y = x THEN Free ELSE proc[y]
    BY <1>1, TxFacts DEF TypeOK, Freed
  <1>4. x = task[a].x
    OBVIOUS
  <1> HIDE DEF x
  <1>5. CASE /\ Sent(x, "read") /\ UNCHANGED proc
             /\ task'[a].at = "insert" /\ task'[a].x = x
    <2>1. TypeOK'
      BY <1>1, <1>2, <1>5, SentTypes DEF TypeOK
    <2>2. CallsOK' /\ FinalOnce'
      BY <1>1, <1>2, <1>5 DEF CallsOK, FinalOnce, InUse
    <2>3. \A b \in Apps : task'[b].x = task[b].x /\ (task'[b].at # "idle" <=> task[b].at # "idle")
      BY <1>2, <1>4, <1>5
    <2>4. TasksUse'
      BY <1>1, <1>5, <2>3 DEF TasksUse, Busy, InUse
    <2>5. QED
      BY <2>1, <2>2, <2>4 DEF Sound
  <1>6. CASE /\ task'[a].at = "idle" /\ UNCHANGED <<wire, conf>>
             /\ proc' \in [Procs -> Entry \cup {Free}]
             /\ \A y \in Procs : proc'[y] = IF y = x THEN Free ELSE proc[y]
    <2>1. TypeOK'
      BY <1>1, <1>2, <1>6 DEF TypeOK
    <2>2. CallsOK' /\ FinalOnce'
      BY <1>1, <1>2, <1>6 DEF CallsOK, FinalOnce, InUse
    <2>3. \A b \in Apps : Busy(b) /\ b # a => task[b].x # x
      BY <1>1, <1>2, <1>4 DEF TasksUse, Busy
    <2>4. \A b \in Apps : task'[b].at # "idle" =>
                            b # a /\ Busy(b) /\ task'[b] = task[b] /\ task[b].x # x
      BY <1>2, <1>6, <2>3 DEF Busy
    <2>5. TasksUse'
      BY <1>1, <1>6, <2>4 DEF TasksUse, Busy, InUse
    <2>6. QED
      BY <2>1, <2>2, <2>5 DEF Sound
  <1>7. QED
    BY <1>3, <1>5, <1>6

LEMMA InsertFacts ==
    ASSUME Sound, NEW a \in Apps, Insert(a)
    PROVE  /\ task[a].at = "insert" /\ task[a].x \in Procs /\ InUse(task[a].x)
           /\ list' = Append(list, task[a].x)
           /\ accepted' = accepted \cup {proc[task[a].x].call}
           /\ task' \in [Apps -> TaskState] /\ task'[a].at = "idle"
           /\ \A b \in Apps : b # a => task'[b] = task[b]
           /\ UNCHANGED <<link, proc, resumeAt, host, wire, conf, final, lost, silent, used>>
  BY IdleTypes DEF Sound, TypeOK, Insert, TasksUse, Busy, TaskIdle

LEMMA InsertSound == ASSUME Sound, NEW a \in Apps, Insert(a) PROVE Sound'
  <1> DEFINE x == task[a].x
  <1>1. TypeOK /\ TasksUse /\ CallsOK /\ FinalOnce
    BY DEF Sound
  <1>2. /\ task[a].at = "insert" /\ x \in Procs /\ InUse(x)
        /\ list' = Append(list, x) /\ accepted' = accepted \cup {proc[x].call}
        /\ task' \in [Apps -> TaskState] /\ task'[a].at = "idle"
        /\ \A b \in Apps : b # a => task'[b] = task[b]
        /\ UNCHANGED <<link, proc, resumeAt, host, wire, conf, final, lost, silent, used>>
    BY InsertFacts
  <1> HIDE DEF x
  <1>3. list' \in Seq(Procs) /\ accepted' \in SUBSET Calls
    BY <1>1, <1>2, EntryFields DEF TypeOK
  <1>4. TypeOK'
    BY <1>1, <1>2, <1>3 DEF TypeOK
  <1>5. TasksUse'
    BY <1>1, <1>2 DEF TasksUse, Busy, InUse
  <1>6. CallsOK'
    BY <1>1, <1>2 DEF CallsOK, InUse
  <1>7. FinalOnce'
    BY <1>1, <1>2 DEF FinalOnce
  <1>8. QED
    BY <1>4, <1>5, <1>6, <1>7 DEF Sound

LEMMA AllocServes ==
    ASSUME Serving, NEW a \in Apps, NEW op \in Ops, NEW c \in Conns, Alloc(a, op, c)
    PROVE  Serving'
  <1>1. Sound /\ TypeOK /\ ListOK /\ TasksOff /\ HostOK /\ Listed \in SUBSET Procs
    BY ListedProcs DEF Serving, Sound, TypeOK
  <1>2. PICK x \in Procs, e \in Entry : AllocTakes(a, x, e)
    BY <1>1, AllocFacts
  <1>3. Listed' = Listed /\ \A y \in Listed : y # x /\ y \in Procs
    BY <1>1, <1>2 DEF AllocTakes, ListOK, InUse, Listed
  <1>4. ListOK'
    BY <1>1, <1>2, <1>3 DEF AllocTakes, ListOK, InUse
  <1>5. TasksOff'
    BY <1>1, <1>2, <1>3 DEF AllocTakes, TasksOff, Busy
  <1>6. HostOK'
    BY <1>1, <1>2, <1>3 DEF AllocTakes, HostOK, Busy, InUse, Holding
  <1>7. QED
    BY <1>1, <1>4, <1>5, <1>6, AllocSound DEF Serving

LEMMA TxServes == ASSUME Serving, NEW a \in Apps, Tx(a) PROVE Serving'
  <1> DEFINE x == task[a].x
  <1>1. Sound /\ TasksUse /\ ListOK /\ TasksOff /\ HostOK /\ Listed \in SUBSET Procs
    BY ListedProcs DEF Serving, Sound, TypeOK
  <1>2. /\ task[a].at = "tx" /\ x \in Procs /\ InUse(x)
        /\ UNCHANGED <<list, host, accepted>> /\ Listed' = Listed
        /\ \A b \in Apps : b # a => task'[b] = task[b]
        /\ task'[a].at = "idle" \/ task'[a].x = x
    BY <1>1, TxFacts DEF Listed
  <1>3. \A b \in Apps : task'[b].at # "idle" => task[b].at # "idle" /\ task'[b].x = task[b].x
    BY <1>2
  <1>4. TasksOff'
    BY <1>1, <1>2, <1>3 DEF TasksOff, Busy
  <1>5. x \notin Listed /\ (Holding => x # host.x)
    BY <1>1, <1>2 DEF TasksOff, HostOK, Busy
  <1>6. \A y \in Procs : y # x => proc'[y] = proc[y]
    BY <1>1, TxFacts
  <1>7. ListOK'
    BY <1>1, <1>2, <1>5, <1>6 DEF ListOK, InUse
  <1>8. HostOK'
    BY <1>1, <1>2, <1>3, <1>5, <1>6 DEF HostOK, Busy, InUse, Holding
  <1>9. QED
    BY <1>1, <1>4, <1>7, <1>8, TxSound DEF Serving

LEMMA InsertServes == ASSUME Serving, NEW a \in Apps, Insert(a) PROVE Serving'
  <1> DEFINE x == task[a].x
  <1>1. Sound /\ TypeOK /\ TasksUse /\ TasksOff /\ HostOK
    BY DEF Serving, Sound
  <1>2. /\ task[a].at = "insert" /\ x \in Procs /\ InUse(x)
        /\ list' = Append(list, x) /\ accepted' = accepted \cup {proc[x].call}
        /\ task'[a].at = "idle" /\ \A b \in Apps : b # a => task'[b] = task[b]
        /\ UNCHANGED <<proc, host, final, used>>
    BY <1>1, InsertFacts
  <1>3. x \notin Listed /\ (Holding => x # host.x) /\ \A b \in Apps : Busy(b) /\ b # a => task[b].x # x
    BY <1>1, <1>2 DEF TasksOff, TasksUse, HostOK, Busy
  <1>4. SameCalls
    BY <1>2 DEF SameCalls
  <1> HIDE DEF x
  <1>5. ListOK' /\ Listed' = Listed \cup {x}
    BY <1>2, <1>3, <1>4, PutServes
  <1>6. TasksOff'
    BY <1>1, <1>2, <1>3, <1>5 DEF TasksOff, Busy
  <1>7. HostOK'
    BY <1>1, <1>2, <1>3, <1>5 DEF HostOK, Busy, InUse, Holding
  <1>8. QED
    BY <1>1, <1>5, <1>6, <1>7, InsertSound DEF Serving

-----------------------------------------------------------------------------
(* The steps of the host task.                                             *)

LEMMA RxSendServes == ASSUME Serving, RxSend PROVE Serving' /\ SameCalls
  <1> DEFINE x == host.x
  <1>1. TypeOK /\ HostOK /\ host \in HostState /\ proc \in [Procs -> Entry \cup {Free}]
    BY DEF Serving, Sound, TypeOK
  <1>2. host.at = "send" /\ Holding /\ x \in Procs /\ InUse(x) /\ FollowUp(x)
    BY <1>1 DEF RxSend, HostOK, Holding
  <1>3. /\ host' = [host EXCEPT !.at = "insert"]
        /\ UNCHANGED <<link, list, task, final, accepted, lost, silent>>
    BY DEF RxSend
  <1>4. host' \in HostState /\ host'.at = "insert" /\ host'.x = host.x
    BY <1>1, <1>3 DEF HostState
  <1>5. /\ SameCalls /\ proc' \in [Procs -> Entry \cup {Free}] /\ resumeAt' \in BOOLEAN
        /\ wire' \in [Conns -> Seq(Requests)] /\ conf' \in [Conns -> Nat]
        /\ used' \in [Bounded -> Nat] /\ used'["call"] = used["call"]
    <2>1. CASE Sent(x, "blob") /\ UNCHANGED <<proc, resumeAt, used>>
      BY <1>1, <1>2, <2>1, SentTypes DEF TypeOK, SameCalls
    <2>2. CASE /\ Use("nomem", MaxNoMem) /\ proc' = [proc EXCEPT ![x].stalled = TRUE]
               /\ resumeAt' = TRUE /\ UNCHANGED <<wire, conf>>
      BY <1>1, <1>2, <2>2, StallFacts DEF TypeOK
    <2>3. QED
      BY <1>2, <2>1, <2>2 DEF FollowUp
  <1>6. TypeOK'
    BY <1>1, <1>3, <1>4, <1>5 DEF TypeOK
  <1>7. ListOK' /\ TasksUse' /\ TasksOff' /\ CallsOK' /\ FinalOnce'
    BY <1>3, <1>5, SameServes
  <1>8. HostOK'
    BY <1>1, <1>2, <1>3, <1>4, <1>5 DEF HostOK, Holding, SameCalls, InUse, Busy, Listed
  <1>9. QED
    BY <1>5, <1>6, <1>7, <1>8 DEF Serving, Sound

(* The host task puts its entry back.                                      *)
LEMMA PutBackServes ==
    ASSUME Serving, Holding, SameCalls, list' = Append(list, host.x),
           UNCHANGED <<task, final, accepted>>, used'["call"] = used["call"],
           host'.at \in {"idle", "next"}, host'.at = "next" => host'.x = host.x
    PROVE  /\ ListOK' /\ TasksUse' /\ TasksOff' /\ HostOK' /\ CallsOK' /\ FinalOnce'
           /\ list' \in Seq(Procs) /\ Listed' = Listed \cup {host.x} /\ host.x \in Procs
  <1> DEFINE x == host.x
  <1>1. Sound /\ TasksOff /\ HostOK
    BY DEF Serving
  <1>2. /\ x \in Procs /\ InUse(x) /\ proc[x].call \in accepted /\ x \notin Listed
        /\ \A a \in Apps : Busy(a) => task[a].x # x
    BY <1>1 DEF HostOK
  <1>3. accepted' = accepted \cup {proc[x].call}
    BY <1>2
  <1>4. ListOK' /\ list' \in Seq(Procs) /\ Listed' = Listed \cup {x}
    BY <1>2, <1>3, PutServes
  <1>5. TasksOff'
    BY <1>1, <1>2, <1>4 DEF TasksOff, Busy
  <1>6. HostOK'
    BY <1>4 DEF HostOK, Holding
  <1>7. QED
    BY <1>1, <1>2, <1>4, <1>5, <1>6, SameSound

LEMMA RxInsertServes == ASSUME Serving, RxInsert PROVE Serving'
  <1>1. TypeOK /\ Holding
    BY DEF Serving, Sound, RxInsert, Holding
  <1>2. /\ list' = Append(list, host.x) /\ host' = HostIdle
        /\ UNCHANGED <<link, proc, resumeAt, task, wire, conf, final, accepted, lost, silent, used>>
    BY DEF RxInsert
  <1>3. SameCalls /\ host'.at = "idle"
    BY <1>2 DEF SameCalls, HostIdle
  <1>4. /\ ListOK' /\ TasksUse' /\ TasksOff' /\ HostOK' /\ CallsOK' /\ FinalOnce'
        /\ list' \in Seq(Procs)
    BY <1>1, <1>2, <1>3, PutBackServes
  <1>5. TypeOK'
    BY <1>1, <1>2, <1>4, IdleTypes DEF TypeOK
  <1>6. QED
    BY <1>4, <1>5 DEF Serving, Sound

LEMMA ResumeServes == ASSUME Serving, Resume PROVE Serving' /\ SameCalls
  <1> DEFINE x == host.x
  <1>1. TypeOK /\ HostOK /\ Holding /\ host \in HostState /\ proc \in [Procs -> Entry \cup {Free}]
    BY DEF Serving, Sound, Resume, Holding, TypeOK
  <1>2. x \in Procs /\ InUse(x)
    BY <1>1 DEF HostOK
  <1>3. /\ list' = Append(list, host.x) /\ host' = [host EXCEPT !.at = "next"]
        /\ UNCHANGED <<link, task, final, accepted, lost, silent>>
    BY DEF Resume
  <1>4. host' \in HostState /\ host'.at = "next" /\ host'.x = host.x
    BY <1>1, <1>3 DEF HostState
  <1>5. /\ SameCalls /\ proc' \in [Procs -> Entry \cup {Free}] /\ resumeAt' \in BOOLEAN
        /\ wire' \in [Conns -> Seq(Requests)] /\ conf' \in [Conns -> Nat]
        /\ used' \in [Bounded -> Nat] /\ used'["call"] = used["call"]
    <2>1. CASE /\ Sent(x, "blob") /\ proc' = [proc EXCEPT ![x].stalled = FALSE]
               /\ UNCHANGED <<resumeAt, used>>
      BY <1>1, <1>2, <2>1, StallFacts, SentTypes DEF TypeOK
    <2>2. CASE Use("nomem", MaxNoMem) /\ resumeAt' = TRUE /\ UNCHANGED <<proc, wire, conf>>
      BY <1>1, <2>2, StallFacts DEF TypeOK, SameCalls
    <2>3. QED
      BY <2>1, <2>2 DEF Resume
  <1>6. /\ ListOK' /\ TasksUse' /\ TasksOff' /\ HostOK' /\ CallsOK' /\ FinalOnce'
        /\ list' \in Seq(Procs)
    BY <1>1, <1>3, <1>4, <1>5, PutBackServes
  <1>7. TypeOK'
    BY <1>1, <1>3, <1>4, <1>5, <1>6 DEF TypeOK
  <1>8. QED
    BY <1>5, <1>6, <1>7 DEF Serving, Sound

LEMMA ResumeStartServes ==
    ASSUME Serving, ResumeStart
    PROVE  /\ Serving' /\ Listed' = Listed \ Stalled
           /\ \/ Listed \cap Stalled = {} /\ host' = HostIdle
              \/ /\ host'.at = "resume"
                 /\ Listed \cap Stalled = {host'.x} \cup Range(host'.todo)
  <1> DEFINE todo == Extracted(Stalled)
  <1>1. TypeOK /\ ListOK /\ TasksOff /\ Listed \in SUBSET Procs
    BY ListedProcs DEF Serving, Sound, TypeOK
  <1>2. /\ resumeAt' = FALSE /\ list' = Without(Stalled)
        /\ host' = IF todo = <<>> THEN HostIdle
                   ELSE [HostIdle EXCEPT !.at = "resume", !.x = Head(todo), !.todo = Tail(todo)]
        /\ UNCHANGED <<link, proc, task, wire, conf, final, accepted, lost, silent, used>>
    BY DEF ResumeStart
  <1>3. todo \in Seq(Procs) /\ Range(todo) = Listed \cap Stalled
    BY <1>1, ExtractedFacts DEF TypeOK
  <1>4. /\ ListOK' /\ TasksUse' /\ TasksOff' /\ CallsOK' /\ FinalOnce'
        /\ list' \in Seq(Procs) /\ Listed' = Listed \ Stalled
    BY <1>2, TakeServes
  <1> HIDE DEF todo
  <1>5. CASE todo = <<>>
    <2>1. HostOK'
      BY <1>2, <1>5 DEF HostOK, HostIdle, Holding
    <2>2. TypeOK'
      BY <1>1, <1>2, <1>4, <1>5, IdleTypes DEF TypeOK
    <2>3. Range(todo) = {}
      BY <1>5 DEF Range
    <2>4. QED
      BY <1>2, <1>3, <1>4, <1>5, <2>1, <2>2, <2>3 DEF Serving, Sound
  <1>6. CASE todo # <<>>
    <2>1. /\ Range(todo) = {Head(todo)} \cup Range(Tail(todo))
          /\ Tail(todo) \in Seq(Procs)
      BY <1>3, <1>6, HeadTailRange
    <2>2. Head(todo) \in Procs /\ Head(todo) \in Listed /\ Head(todo) \in Stalled
      BY <1>1, <1>3, <2>1
    <2>3. host' = [at |-> "resume", x |-> Head(todo), todo |-> Tail(todo), c |-> NoProc]
      BY <1>2, <1>6 DEF HostIdle
    <2>4. host' \in HostState /\ host'.at = "resume" /\ host'.x = Head(todo) /\ host'.todo = Tail(todo)
      BY <2>1, <2>2, <2>3 DEF HostState
    <2>5. HostOK'
      BY <1>1, <1>2, <1>4, <2>2, <2>4 DEF HostOK, Holding, ListOK, TasksOff, InUse, Busy
    <2>6. TypeOK'
      BY <1>1, <1>2, <1>4, <2>4 DEF TypeOK
    <2>7. QED
      BY <1>3, <1>4, <2>1, <2>4, <2>5, <2>6 DEF Serving, Sound
  <1>7. QED
    BY <1>5, <1>6

(* The entry after one that is on the list, but not its last.              *)
LEMMA FollowerFacts ==
    ASSUME TypeOK, NEW x \in Listed, Last(list) # x
    PROVE  Follower(x) \in Listed
  <1> DEFINE I == Positions({x})
             i == Min(I)
  <1>1. I = {j \in DOMAIN list : list[j] = x} /\ I \in SUBSET Nat /\ I # {}
    BY DEF Positions, Listed, Range, TypeOK
  <1>2. i \in I
    BY <1>1, MinIsIn
  <1> HIDE DEF I, i
  <1>3. i \in 1 .. Len(list) /\ list[i] = x /\ Len(list) \in Nat
    BY <1>1, <1>2 DEF TypeOK
  <1>4. i # Len(list)
    BY <1>3 DEF Last
  <1>5. i + 1 \in DOMAIN list
    BY <1>3, <1>4 DEF TypeOK
  <1>6. Follower(x) = list[i + 1]
    BY DEF Follower, I, i
  <1>7. QED
    BY <1>5, <1>6 DEF Listed, Range

LEMMA ResumeNextServes == ASSUME Serving, ResumeNext PROVE Serving'
  <1>1. TypeOK /\ HostOK /\ host.at = "next" /\ host.x \in Listed /\ Listed \in SUBSET Procs
    BY ListedProcs DEF Serving, Sound, HostOK, ResumeNext, TypeOK
  <1>2. /\ lost' = lost \cup Range(host.todo)
        /\ UNCHANGED <<link, proc, list, resumeAt, task, wire, conf, final, accepted, silent, used>>
    BY DEF ResumeNext
  <1>3. host.todo \in Seq(Procs) /\ Range(host.todo) \in SUBSET Procs
    BY <1>1 DEF TypeOK, HostState, Range
  <1>4. host' \in HostState /\ HostOK'
    <2>1. CASE Last(list) = host.x
      <3>1. host' = HostIdle
        BY <2>1 DEF ResumeNext
      <3>2. QED
        BY <3>1, IdleTypes DEF HostOK, Holding, HostIdle
    <2>2. CASE Last(list) # host.x
      <3>1. host' = [at |-> "again", x |-> Follower(host.x), todo |-> <<>>, c |-> NoProc]
        BY <2>2 DEF ResumeNext, HostIdle
      <3>2. Follower(host.x) \in Listed /\ Listed' = Listed
        BY <1>1, <1>2, <2>2, FollowerFacts DEF Listed
      <3>3. <<>> \in Seq(Procs)
        OBVIOUS
      <3>4. QED
        BY <1>1, <3>1, <3>2, <3>3 DEF HostState, HostOK, Holding
    <2>3. QED
      BY <2>1, <2>2
  <1>5. TypeOK'
    BY <1>1, <1>2, <1>3, <1>4 DEF TypeOK
  <1>6. SameCalls
    BY <1>2 DEF SameCalls
  <1>7. QED
    BY <1>2, <1>4, <1>5, <1>6, SameServes DEF Serving, Sound

(* Resuming an entry that is on the list leaves no procedure told twice.   *)
LEMMA ResumeAgainLeads == ASSUME Serving, ResumeAgain PROVE Astray'
  <1> DEFINE x == host.x
  <1>1. Sound /\ TypeOK /\ ListOK /\ HostOK /\ host.at = "again" /\ Listed \in SUBSET Procs
    BY ListedProcs DEF Serving, Sound, ResumeAgain, TypeOK
  <1>2. x \in Listed /\ x \in Procs /\ InUse(x)
    BY <1>1 DEF HostOK, ListOK
  <1>3. UNCHANGED <<link, task, accepted, lost, silent>>
        /\ host' = [at |-> "astray", x |-> NoProc, todo |-> <<>>, c |-> NoProc]
    BY DEF ResumeAgain, HostIdle
  <1>4. host' \in HostState /\ host'.at = "astray"
    <2>1. <<>> \in Seq(Procs)
      OBVIOUS
    <2>2. QED
      BY <1>3, <2>1 DEF HostState
  <1>5. Append(list, x) \in Seq(Procs)
    BY <1>1, <1>2 DEF TypeOK
  <1>6. ASSUME SameCalls, proc' \in [Procs -> Entry \cup {Free}], resumeAt' \in BOOLEAN,
               wire' \in [Conns -> Seq(Requests)], conf' \in [Conns -> Nat], UNCHANGED final,
               used' \in [Bounded -> Nat], used'["call"] = used["call"],
               list' = list \/ list' = Append(list, x)
        PROVE  Astray'
    <2>1. TypeOK'
      BY <1>1, <1>3, <1>4, <1>5, <1>6 DEF TypeOK
    <2>2. TasksUse' /\ CallsOK' /\ FinalOnce'
      BY <1>1, <1>3, <1>6, SameSound
    <2>3. QED
      BY <1>4, <2>1, <2>2 DEF Astray, Sound
  <1>7. CASE /\ Sent(x, "read") /\ list' = Append(list, x)
             /\ UNCHANGED <<proc, resumeAt, final, used>>
    BY <1>1, <1>2, <1>6, <1>7, SentTypes DEF SameCalls, TypeOK
  <1>8. CASE /\ Use("nomem", MaxNoMem) /\ proc' = [proc EXCEPT ![x].stalled = TRUE]
             /\ resumeAt' = TRUE /\ list' = Append(list, x)
             /\ UNCHANGED <<wire, conf, final>>
    BY <1>1, <1>2, <1>6, <1>8, StallFacts DEF TypeOK
  <1>9. CASE /\ final' = Finalized({x}) /\ proc' = Freed({x})
             /\ UNCHANGED <<list, resumeAt, wire, conf, used>>
    <2>1. {x} \in SUBSET Listed /\ Ends({x})
      BY <1>2, <1>9 DEF Ends
    <2>2. /\ proc' \in [Procs -> Entry \cup {Free}] /\ final' \in [Calls -> Nat]
          /\ TasksUse' /\ CallsOK' /\ FinalOnce'
      BY <1>3, <1>9, <2>1, EndCalls
    <2>3. TypeOK'
      BY <1>1, <1>3, <1>4, <1>9, <2>2 DEF TypeOK
    <2>4. QED
      BY <1>4, <2>2, <2>3 DEF Astray, Sound
  <1>10. CASE UNCHANGED <<proc, list, resumeAt, wire, conf, final, used>>
    BY <1>1, <1>6, <1>10 DEF SameCalls, TypeOK
  <1>11. QED
    BY <1>7, <1>8, <1>9, <1>10 DEF ResumeAgain

LEMMA ConnDeleteServes == ASSUME Serving, ConnDelete PROVE Serving'
  <1>1. TypeOK /\ HostOK
    BY DEF Serving, Sound
  <1>2. /\ link' = [link EXCEPT ![host.c] = "down"] /\ wire' = [wire EXCEPT ![host.c] = <<>>]
        /\ conf' = [conf EXCEPT ![host.c] = 0] /\ host' = HostIdle
        /\ UNCHANGED <<proc, list, resumeAt, task, final, accepted, lost, silent, used>>
    BY DEF ConnDelete
  <1>3. <<>> \in Seq(Requests)
    OBVIOUS
  <1>4. TypeOK'
    BY <1>1, <1>2, <1>3, IdleTypes DEF TypeOK
  <1>5. SameCalls
    BY <1>2 DEF SameCalls
  <1>6. ListOK' /\ TasksUse' /\ TasksOff' /\ CallsOK' /\ FinalOnce'
    BY <1>2, <1>5, SameServes
  <1>7. HostOK'
    BY <1>2 DEF HostOK, Holding, HostIdle
  <1>8. QED
    BY <1>4, <1>6, <1>7 DEF Serving, Sound

-----------------------------------------------------------------------------
(* Answers, timeouts and broken connections.                               *)

LEMMA RxMoreServes ==
    ASSUME Serving, NEW c \in Conns, RxMore(c)
    PROVE  /\ Serving' /\ host'.at = "send" /\ host'.todo = <<>>
           /\ Listed' = Listed \ {host'.x} /\ UNCHANGED <<proc, task, lost>>
  <1> DEFINE x == RspFor(c)
  <1>1. TypeOK /\ ListOK /\ TasksOff /\ Listed \in SUBSET Procs
    BY ListedProcs DEF Serving, Sound, TypeOK
  <1>2. /\ x # NoProc /\ list' = Without({x})
        /\ host' = [HostIdle EXCEPT !.at = "send", !.x = x]
        /\ wire[c] # <<>> /\ Answered(c) /\ used' = [used EXCEPT !["more"] = used["more"] + 1]
        /\ UNCHANGED <<link, proc, resumeAt, task, conf, final, accepted, lost, silent>>
    BY DEF RxMore
  <1>3. x \in Listed /\ x \in Procs
    BY <1>1, <1>2, RxFinds
  <1> HIDE DEF x
  <1>4. used' \in [Bounded -> Nat] /\ used'["call"] = used["call"]
    BY <1>1, <1>2 DEF TypeOK, Bounded
  <1>5. /\ ListOK' /\ TasksUse' /\ TasksOff' /\ CallsOK' /\ FinalOnce'
        /\ list' \in Seq(Procs) /\ Listed' = Listed \ {x}
    BY <1>2, <1>4, TakeServes
  <1>6. host' = [at |-> "send", x |-> x, todo |-> <<>>, c |-> NoProc]
    BY <1>2 DEF HostIdle
  <1>7. host' \in HostState /\ host'.at = "send" /\ host'.x = x /\ host'.todo = <<>>
    <2>1. <<>> \in Seq(Procs)
      OBVIOUS
    <2>2. QED
      BY <1>3, <1>6, <2>1 DEF HostState
  <1>8. HostOK'
    BY <1>1, <1>2, <1>3, <1>5, <1>7 DEF HostOK, Holding, ListOK, TasksOff, InUse, Busy
  <1>9. TypeOK'
    BY <1>1, <1>2, <1>4, <1>5, <1>7, AnsweredTypes DEF TypeOK
  <1>10. QED
    BY <1>2, <1>5, <1>7, <1>8, <1>9 DEF Serving, Sound

(* What an answer, a timeout or a broken connection does to the entries:   *)
(* nothing, or those in S end.                                             *)
Settles ==
    \/ UNCHANGED <<proc, list, final>>
    \/ \E S \in SUBSET Listed : Ends(S) /\ list' = Without(S)

LEMMA SettlesServes ==
    ASSUME Serving, host.at = "idle", Settles, UNCHANGED <<task, accepted, used>>
    PROVE  /\ ListOK' /\ TasksUse' /\ TasksOff' /\ CallsOK' /\ FinalOnce'
           /\ proc' \in [Procs -> Entry \cup {Free}] /\ final' \in [Calls -> Nat]
           /\ list' \in Seq(Procs)
           /\ \A x \in Procs : proc'[x] # Free =>
                proc'[x] = proc[x] /\ (x \in Listed' <=> x \in Listed)
  <1>1. TypeOK
    BY DEF Serving, Sound
  <1>2. CASE UNCHANGED <<proc, list, final>>
    <2>1. SameCalls /\ Listed' = Listed
      BY <1>2 DEF SameCalls, Listed
    <2>2. ListOK' /\ TasksUse' /\ TasksOff' /\ CallsOK' /\ FinalOnce'
      BY <1>2, <2>1, SameServes
    <2>3. QED
      BY <1>1, <1>2, <2>1, <2>2 DEF TypeOK
  <1>3. ASSUME NEW S \in SUBSET Listed, Ends(S), list' = Without(S)
        PROVE  /\ ListOK' /\ TasksUse' /\ TasksOff' /\ CallsOK' /\ FinalOnce'
               /\ proc' \in [Procs -> Entry \cup {Free}] /\ final' \in [Calls -> Nat]
               /\ list' \in Seq(Procs)
               /\ \A x \in Procs : proc'[x] # Free =>
                    proc'[x] = proc[x] /\ (x \in Listed' <=> x \in Listed)
    BY <1>3, EndServes
  <1>4. QED
    BY <1>2, <1>3 DEF Settles

(* Each of these steps settles, and all but the last leave the host task   *)
(* idle.                                                                   *)
LEMMA AnswerSettles ==
    ASSUME Serving, NEW c \in Conns, RxRsp(c) \/ RxErr(c) \/ RxIndicateRsp(c)
    PROVE  /\ host.at = "idle" /\ Settles
           /\ UNCHANGED <<link, resumeAt, task, host, accepted, lost, used>>
           /\ wire' \in [Conns -> Seq(Requests)] /\ conf' \in [Conns -> Nat]
           /\ silent' \in SUBSET Calls
  <1>0. TypeOK /\ ListOK
    BY DEF Serving, Sound
  <1>1. /\ Listed \in SUBSET Procs /\ conf \in [Conns -> Nat] /\ silent \in SUBSET Calls
        /\ wire \in [Conns -> Seq(Requests)] /\ \A x \in Listed : InUse(x)
    BY <1>0, ListedProcs DEF TypeOK, ListOK
  <1>2. ASSUME NEW x \in Listed, End({x}) PROVE Settles
    <2>1. {x} \in SUBSET Listed /\ Ends({x}) /\ list' = Without({x})
      BY <1>2 DEF End, Ends
    <2>2. QED
      BY <2>1 DEF Settles
  <1>3. ASSUME NEW x \in Listed, EndSilently(x)
        PROVE  Settles /\ silent' \in SUBSET Calls
    <2>1. {x} \in SUBSET Listed /\ Ends({x}) /\ list' = Without({x})
      BY <1>3 DEF EndSilently, Ends
    <2>2. silent' = silent \cup {proc[x].call}
      BY <1>3 DEF EndSilently
    <2>3. proc[x].call \in Calls
      BY <1>0, <1>1, EntryFields
    <2>4. QED
      BY <1>1, <2>1, <2>2, <2>3 DEF Settles
  <1>4. ASSUME NEW x, x = NoProc \/ x \in Listed, wire[c] # <<>>, host.at = "idle",
               RxDropped(c) \/ (x # NoProc /\ RxEnd(c, x))
        PROVE  /\ Settles /\ UNCHANGED <<link, resumeAt, task, host, accepted, lost, used>>
               /\ wire' \in [Conns -> Seq(Requests)] /\ conf' \in [Conns -> Nat]
               /\ silent' \in SUBSET Calls
    <2>1. wire' \in [Conns -> Seq(Requests)]
      BY <1>0, <1>4, AnsweredTypes DEF RxDropped, RxEnd
    <2>2. CASE RxDropped(c)
      BY <1>1, <2>1, <2>2 DEF RxDropped, Settles
    <2>3. CASE x # NoProc /\ RxEnd(c, x)
      BY <1>1, <1>2, <1>4, <2>1, <2>3 DEF RxEnd
    <2>4. QED
      BY <1>4, <2>2, <2>3
  <1>5. CASE RxRsp(c)
    <2>1. /\ host.at = "idle" /\ wire[c] # <<>>
          /\ RxDropped(c) \/ (RspFor(c) # NoProc /\ RxEnd(c, RspFor(c)))
      BY <1>5 DEF RxRsp, Listening
    <2>2. RspFor(c) = NoProc \/ RspFor(c) \in Listed
      BY <1>0, RxFinds
    <2>3. QED
      BY <1>4, <2>1, <2>2
  <1>6. CASE RxErr(c)
    <2>1. host.at = "idle" /\ wire[c] # <<>>
      BY <1>6 DEF RxErr, Listening
    <2>2. ErrFor(c) = NoProc \/ ErrFor(c) \in Listed
      BY <1>0, RxFinds
    <2>3. CASE RxDropped(c) \/ (ErrFor(c) # NoProc /\ RxEnd(c, ErrFor(c)))
      BY <1>4, <2>1, <2>2, <2>3
    <2>4. CASE /\ ErrFor(c) # NoProc /\ EndSilently(ErrFor(c)) /\ Answered(c)
               /\ UNCHANGED <<link, resumeAt, task, host, conf, accepted, lost, used>>
      BY <1>1, <1>3, <2>1, <2>2, <2>4, <1>0, AnsweredTypes
    <2>5. QED
      BY <1>6, <2>3, <2>4 DEF RxErr
  <1>7. CASE RxIndicateRsp(c)
    <2> DEFINE x == First({y \in OfConn(c) : proc[y].op = "indicate"})
    <2>1. /\ host.at = "idle" /\ conf[c] > 0 /\ conf' = [conf EXCEPT ![c] = conf[c] - 1]
          /\ UNCHANGED <<link, resumeAt, task, host, wire, accepted, lost, used>>
          /\ \/ UNCHANGED <<proc, list, final, silent>>
             \/ x # NoProc /\ End({x}) /\ UNCHANGED silent
             \/ x # NoProc /\ EndSilently(x)
      BY <1>7 DEF RxIndicateRsp, Listening
    <2>2. x = NoProc \/ x \in Listed
      BY <1>0, RxFinds
    <2> HIDE DEF x
    <2>3. conf' \in [Conns -> Nat] /\ wire' \in [Conns -> Seq(Requests)]
      BY <1>1, <2>1
    <2>4. CASE UNCHANGED <<proc, list, final, silent>>
      BY <1>1, <2>1, <2>3, <2>4 DEF Settles
    <2>5. CASE x # NoProc /\ End({x}) /\ UNCHANGED silent
      BY <1>1, <1>2, <2>1, <2>2, <2>3, <2>5
    <2>6. CASE x # NoProc /\ EndSilently(x)
      BY <1>3, <2>1, <2>2, <2>3, <2>6
    <2>7. QED
      BY <2>1, <2>4, <2>5, <2>6
  <1>8. QED
    BY <1>5, <1>6, <1>7

LEMMA AnswerServes ==
    ASSUME Serving, NEW c \in Conns, RxRsp(c) \/ RxErr(c) \/ RxIndicateRsp(c)
    PROVE  Serving'
  <1>1. TypeOK /\ HostOK
    BY DEF Serving, Sound
  <1>2. /\ host.at = "idle" /\ Settles
        /\ UNCHANGED <<link, resumeAt, task, host, accepted, lost, used>>
        /\ wire' \in [Conns -> Seq(Requests)] /\ conf' \in [Conns -> Nat]
        /\ silent' \in SUBSET Calls
    BY <1>1, AnswerSettles
  <1>3. /\ ListOK' /\ TasksUse' /\ TasksOff' /\ CallsOK' /\ FinalOnce'
        /\ proc' \in [Procs -> Entry \cup {Free}] /\ final' \in [Calls -> Nat]
        /\ list' \in Seq(Procs)
    BY <1>2, SettlesServes
  <1>4. HostOK'
    BY <1>2 DEF HostOK, Holding
  <1>5. TypeOK'
    BY <1>1, <1>2, <1>3 DEF TypeOK
  <1>6. QED
    BY <1>3, <1>4, <1>5 DEF Serving, Sound

LEMMA ExpireServes == ASSUME Serving, NEW S \in SUBSET Listed, Expire(S) PROVE Serving' /\ Settles
  <1>1. TypeOK /\ HostOK
    BY DEF Serving, Sound
  <1>2. /\ host.at = "idle" /\ End(S) /\ Settles
        /\ UNCHANGED <<resumeAt, task, host, wire, conf, accepted, lost, silent, used>>
    BY DEF Expire, End, Ends, Settles
  <1>3. link' \in [Conns -> {"down", "up", "ending", "broken"}]
    BY <1>1 DEF Expire, TypeOK
  <1>4. /\ ListOK' /\ TasksUse' /\ TasksOff' /\ CallsOK' /\ FinalOnce'
        /\ proc' \in [Procs -> Entry \cup {Free}] /\ final' \in [Calls -> Nat]
        /\ list' \in Seq(Procs)
    BY <1>2, SettlesServes
  <1>5. HostOK'
    BY <1>2 DEF HostOK, Holding
  <1>6. TypeOK'
    BY <1>1, <1>2, <1>3, <1>4 DEF TypeOK
  <1>7. QED
    BY <1>2, <1>4, <1>5, <1>6 DEF Serving, Sound

LEMMA ConnectionBrokenServes ==
    ASSUME Serving, NEW c \in Conns, ConnectionBroken(c)
    PROVE  /\ Serving' /\ Settles /\ host.at = "idle" /\ host'.at = "broken"
           /\ host'.x = NoProc /\ host'.todo = <<>>
           /\ UNCHANGED <<task, accepted, lost, used>>
  <1>1. TypeOK
    BY DEF Serving, Sound
  <1>2. /\ End(OfConn(c)) /\ link' = [link EXCEPT ![c] = "broken"]
        /\ host' = [HostIdle EXCEPT !.at = "broken", !.c = c]
        /\ UNCHANGED <<resumeAt, task, wire, conf, accepted, lost, silent, used>>
        /\ host.at = "idle"
    BY DEF ConnectionBroken, Listening
  <1>3. OfConn(c) \in SUBSET Listed
    BY DEF OfConn
  <1>4. Settles
    BY <1>2, <1>3 DEF Settles, End, Ends
  <1>5. /\ ListOK' /\ TasksUse' /\ TasksOff' /\ CallsOK' /\ FinalOnce'
        /\ proc' \in [Procs -> Entry \cup {Free}] /\ final' \in [Calls -> Nat]
        /\ list' \in Seq(Procs)
    BY <1>2, <1>4, SettlesServes
  <1>6. host' = [at |-> "broken", x |-> NoProc, todo |-> <<>>, c |-> c]
    BY <1>2 DEF HostIdle
  <1>7. host' \in HostState /\ HostOK'
    <2>1. <<>> \in Seq(Procs)
      OBVIOUS
    <2>2. QED
      BY <1>6, <2>1 DEF HostState, HostOK, Holding
  <1>8. TypeOK'
    BY <1>1, <1>2, <1>5, <1>7 DEF TypeOK
  <1>9. Serving'
    BY <1>5, <1>7, <1>8 DEF Serving, Sound
  <1>10. host'.at = "broken" /\ host'.x = NoProc /\ host'.todo = <<>>
    BY <1>6
  <1>11. host.at = "idle" /\ UNCHANGED <<task, accepted, lost, used>>
    BY <1>2
  <1>12. QED
    BY <1>4, <1>9, <1>10, <1>11

LEMMA ConnectServes == ASSUME Serving, NEW c \in Conns, Connect(c) PROVE Serving'
  <1>1. TypeOK /\ HostOK
    BY DEF Serving, Sound
  <1>2. /\ host.at = "idle" /\ used' = [used EXCEPT !["link"] = used["link"] + 1]
        /\ link' = [link EXCEPT ![c] = "up"]
        /\ UNCHANGED <<proc, list, resumeAt, task, host, wire, conf, final, accepted, lost, silent>>
    BY DEF Connect, Use
  <1>3. used' \in [Bounded -> Nat] /\ used'["call"] = used["call"]
    BY <1>1, <1>2 DEF TypeOK, Bounded
  <1>4. TypeOK'
    BY <1>1, <1>2, <1>3 DEF TypeOK
  <1>5. SameCalls /\ HostOK'
    BY <1>2 DEF SameCalls, HostOK, Holding
  <1>6. QED
    BY <1>2, <1>3, <1>4, <1>5, SameServes DEF Serving, Sound

-----------------------------------------------------------------------------
(* Every step keeps the invariant.                                         *)

(* Once the host task is astray, only the other tasks go on.               *)
LEMMA AstrayStep == Astray /\ [Next]_vars => Astray'
  <1> SUFFICES ASSUME Astray, [Next]_vars PROVE Astray'
    OBVIOUS
  <1>1. Sound /\ host.at = "astray"
    BY DEF Astray
  <1>2. ASSUME NEW a \in Apps, NEW op \in Ops, NEW c \in Conns, Alloc(a, op, c) PROVE Astray'
    <2>1. UNCHANGED host
      BY <1>2 DEF Alloc
    <2>2. QED
      BY <1>1, <1>2, <2>1, AllocSound DEF Astray
  <1>3. ASSUME NEW a \in Apps, Tx(a) PROVE Astray'
    BY <1>1, <1>3, TxSound, TxFacts DEF Astray
  <1>4. ASSUME NEW a \in Apps, Insert(a) PROVE Astray'
    BY <1>1, <1>4, InsertSound, InsertFacts DEF Astray
  <1>5. ~HostStep
    BY <1>1 DEF HostStep, RxSend, RxInsert, ConnDelete, ResumeStart, Resume, ResumeNext, ResumeAgain
  <1>6. ~\E S \in SUBSET Listed : Expire(S)
    BY <1>1 DEF Expire
  <1>7. ASSUME NEW c \in Conns, \/ RxRsp(c) \/ RxMore(c) \/ RxErr(c) \/ RxIndicateRsp(c)
                                \/ Connect(c) \/ ConnectionBroken(c)
        PROVE  FALSE
    BY <1>1, <1>7 DEF RxRsp, RxMore, RxErr, RxIndicateRsp, Connect, ConnectionBroken, Listening
  <1>8. CASE UNCHANGED vars
    BY <1>1, <1>8 DEF vars, Astray, Sound, TypeOK, TasksUse, CallsOK, FinalOnce, InUse, Busy
  <1>9. QED
    BY <1>2, <1>3, <1>4, <1>5, <1>6, <1>7, <1>8 DEF Next, TaskStep

LEMMA ServingStep == Serving /\ [Next]_vars => Serving' \/ Astray'
  <1> SUFFICES ASSUME Serving, [Next]_vars PROVE Serving' \/ Astray'
    OBVIOUS
  <1>1. ASSUME NEW a \in Apps, TaskStep(a) \/ \E op \in Ops, c \in Conns : Alloc(a, op, c)
        PROVE  Serving'
    BY <1>1, AllocServes, TxServes, InsertServes DEF TaskStep
  <1>2. CASE HostStep
    BY <1>2, RxSendServes, RxInsertServes, ResumeStartServes, ResumeServes,
       ResumeNextServes, ResumeAgainLeads, ConnDeleteServes DEF HostStep
  <1>3. ASSUME NEW S \in SUBSET Listed, Expire(S) PROVE Serving'
    BY <1>3, ExpireServes
  <1>4. ASSUME NEW c \in Conns, \/ RxRsp(c) \/ RxMore(c) \/ RxErr(c) \/ RxIndicateRsp(c)
                                \/ Connect(c) \/ ConnectionBroken(c)
        PROVE  Serving'
    BY <1>4, AnswerServes, RxMoreServes, ConnectServes, ConnectionBrokenServes
  <1>5. CASE UNCHANGED vars
    BY <1>5 DEF vars, Serving, Sound, TypeOK, ListOK, TasksUse, TasksOff, HostOK, CallsOK,
                FinalOnce, InUse, Busy, Holding, Listed
  <1>6. QED
    BY <1>1, <1>2, <1>3, <1>4, <1>5 DEF Next

LEMMA SoundAlways == Spec => []Sound
  <1>1. Init => Serving \/ Astray
    BY ServingInit
  <1>2. (Serving \/ Astray) /\ [Next]_vars => (Serving \/ Astray)'
    BY ServingStep, AstrayStep
  <1>3. Serving \/ Astray => Sound
    BY DEF Serving, Astray
  <1>4. QED
    BY <1>1, <1>2, <1>3, PTL DEF Spec

(* The state of the client always has its type: the entries, the requests  *)
(* on the air and the calls they are for stay within their ranges.         *)
THEOREM TypeCorrect == Spec => []TypeOK
  <1>1. Sound => TypeOK
    BY DEF Sound
  <1>2. QED
    BY <1>1, SoundAlways, PTL

(* The callback of a procedure gets its last status at most once and only  *)
(* if the call returned 0, whichever of answer, error, timeout and broken  *)
(* connection comes first, and however often the entry is used again.      *)
THEOREM FinalOnceAlways == Spec => []FinalOnce
  <1>1. Sound => FinalOnce
    BY DEF Sound
  <1>2. QED
    BY <1>1, SoundAlways, PTL

-----------------------------------------------------------------------------
(* Every entry in use has its place.                                       *)

LEMMA KeepingInit == Init => Keeping
  BY ServingInit DEF Init, Keeping, Resting, AllPlaced, HostIdle, InUse

LEMMA TaskKeeps ==
    ASSUME Keeping, NEW a \in Apps,
           TaskStep(a) \/ \E op \in Ops, c \in Conns : Alloc(a, op, c)
    PROVE  Resting' /\ AllPlaced'
  <1>1. Sound /\ Resting /\ AllPlaced /\ TypeOK
    BY DEF Keeping, Serving, Sound
  <1>2. ASSUME UNCHANGED host PROVE Resting'
    BY <1>1, <1>2 DEF Resting
  <1>3. ASSUME NEW op \in Ops, NEW c \in Conns, Alloc(a, op, c) PROVE Resting' /\ AllPlaced'
    <2>0. PICK x \in Procs, e \in Entry : AllocTakes(a, x, e)
      BY <1>1, <1>3, AllocFacts
    <2>1. /\ proc[x] = Free
          /\ \A y \in Procs : proc'[y] = IF y = x THEN e ELSE proc[y]
          /\ \A b \in Apps : task'[b] = IF b = a THEN [at |-> "tx", x |-> x] ELSE task[b]
          /\ task[a].at = "idle" /\ UNCHANGED <<list, host, lost>>
      BY <2>0 DEF AllocTakes
    <2>2. AllPlaced'
      BY <1>1, <2>1 DEF AllPlaced, Placed, InUse, Busy, Listed
    <2>3. QED
      BY <1>2, <2>1, <2>2
  <1>4. CASE Tx(a)
    <2> DEFINE x == task[a].x
    <2>1. /\ task[a].at = "tx" /\ UNCHANGED <<list, host, lost>> /\ Listed' = Listed
          /\ \A b \in Apps : b # a => task'[b] = task[b]
          /\ \/ UNCHANGED proc /\ task'[a].at = "insert" /\ task'[a].x = x
             \/ /\ task'[a].at = "idle"
                /\ \A y \in Procs : proc'[y] = IF y = x THEN Free ELSE proc[y]
      BY <1>1, <1>4, TxFacts DEF Listed
    <2>2. AllPlaced'
      BY <1>1, <2>1 DEF AllPlaced, Placed, InUse, Busy
    <2>3. QED
      BY <1>2, <2>1, <2>2
  <1>5. CASE Insert(a)
    <2> DEFINE x == task[a].x
    <2>1. /\ list' = Append(list, x) /\ x \in Procs /\ UNCHANGED <<proc, host, lost>>
          /\ \A b \in Apps : b # a => task'[b] = task[b]
      BY <1>1, <1>5, InsertFacts
    <2>2. Listed' = Listed \cup {x}
      BY <1>1, <2>1, AppendFacts DEF TypeOK, Listed
    <2>3. AllPlaced'
      BY <1>1, <2>1, <2>2 DEF AllPlaced, Placed, InUse, Busy
    <2>4. QED
      BY <1>2, <2>1, <2>3
  <1>6. QED
    BY <1>3, <1>4, <1>5 DEF TaskStep

(* The host task puts its entry back.                                      *)
LEMMA PutBackKeeps ==
    ASSUME Keeping, Holding, SameCalls, list' = Append(list, host.x), UNCHANGED <<task, lost>>,
           Range(host'.todo) = Range(host.todo)
    PROVE  AllPlaced'
  <1>1. TypeOK /\ HostOK /\ AllPlaced
    BY DEF Keeping, Serving, Sound
  <1>2. host.x \in Procs
    BY <1>1 DEF HostOK
  <1>3. Listed' = Listed \cup {host.x}
    BY <1>1, <1>2, AppendFacts DEF TypeOK, Listed
  <1>4. QED
    BY <1>1, <1>3 DEF AllPlaced, Placed, InUse, Busy, SameCalls

(* The host task turns to something else; what it leaves has its place.    *)
LEMMA TurnKeeps ==
    ASSUME Keeping, UNCHANGED <<proc, list, task>>, lost \cup Range(host.todo) \subseteq lost',
           host.x \in Listed \/ host.x = NoProc
    PROVE  AllPlaced'
  <1>1. AllPlaced /\ Listed' = Listed
    BY DEF Keeping, Listed
  <1>2. QED
    BY <1>1, ProcsAssumption DEF AllPlaced, Placed, InUse, Busy

LEMMA HostKeeps ==
    ASSUME Keeping, HostStep, ~ResumeAgain
    PROVE  Resting' /\ AllPlaced'
  <1>1. /\ Serving /\ Resting /\ AllPlaced /\ TypeOK /\ HostOK /\ host \in HostState
    BY DEF Keeping, Serving, Sound, TypeOK
  <1>2. HostIdle.at = "idle" /\ HostIdle.x = NoProc /\ HostIdle.todo = <<>>
    BY DEF HostIdle
  <1>3. CASE RxSend
    <2>1. /\ host.at = "send" /\ host' = [host EXCEPT !.at = "insert"]
          /\ UNCHANGED <<list, task, lost>> /\ SameCalls /\ Listed' = Listed
      BY <1>1, <1>3, RxSendServes DEF RxSend, Listed
    <2>2. host'.at = "insert" /\ host'.x = host.x /\ host'.todo = host.todo /\ host.todo = <<>>
      BY <1>1, <2>1 DEF HostState, Resting
    <2>3. Resting'
      BY <2>2 DEF Resting
    <2>4. AllPlaced'
      BY <1>1, <2>1, <2>2 DEF AllPlaced, Placed, InUse, Busy, SameCalls
    <2>5. QED
      BY <2>3, <2>4
  <1>4. CASE RxInsert
    <2>1. /\ Holding /\ list' = Append(list, host.x) /\ host' = HostIdle /\ host.at = "insert"
          /\ UNCHANGED <<proc, task, lost>>
      BY <1>4 DEF RxInsert, Holding
    <2>2. SameCalls
      BY <2>1 DEF SameCalls
    <2>3. host'.todo = <<>> /\ host.todo = <<>> /\ host'.x = NoProc
      BY <1>1, <1>2, <2>1 DEF Resting
    <2>4. AllPlaced'
      BY <2>1, <2>2, <2>3, PutBackKeeps
    <2>5. QED
      BY <2>3, <2>4 DEF Resting
  <1>5. CASE ResumeStart
    <2>1. /\ Listed' = Listed \ Stalled /\ UNCHANGED <<proc, task, lost>> /\ host.at = "idle"
          /\ \/ Listed \cap Stalled = {} /\ host' = HostIdle
             \/ /\ host'.at = "resume"
                /\ Listed \cap Stalled = {host'.x} \cup Range(host'.todo)
      BY <1>1, <1>5, ResumeStartServes DEF ResumeStart
    <2>2. host.x = NoProc /\ host.todo = <<>> /\ Range(host.todo) = {}
      BY <1>1, <2>1 DEF Resting, Range
    <2>3. Resting'
      BY <1>2, <2>1 DEF Resting
    <2>4. AllPlaced'
      BY <1>1, <2>1, <2>2, ProcsAssumption DEF AllPlaced, Placed, InUse, Busy
    <2>5. QED
      BY <2>3, <2>4
  <1>6. CASE Resume
    <2>1. /\ Holding /\ list' = Append(list, host.x) /\ host' = [host EXCEPT !.at = "next"]
          /\ UNCHANGED <<task, lost>> /\ SameCalls
      BY <1>1, <1>6, ResumeServes DEF Resume, Holding
    <2>2. host'.at = "next" /\ host'.todo = host.todo
      BY <1>1, <2>1 DEF HostState
    <2>3. AllPlaced'
      BY <2>1, <2>2, PutBackKeeps
    <2>4. QED
      BY <2>2, <2>3 DEF Resting
  <1>7. CASE ResumeNext
    <2>1. /\ UNCHANGED <<proc, list, task>> /\ lost' = lost \cup Range(host.todo)
          /\ host.x \in Listed
          /\ host' = HostIdle \/ host' = [at |-> "again", x |-> Follower(host.x), todo |-> <<>>, c |-> NoProc]
      BY <1>1, <1>7 DEF ResumeNext, HostIdle, HostOK
    <2>2. AllPlaced'
      BY <2>1, TurnKeeps
    <2>3. QED
      BY <1>2, <2>1, <2>2 DEF Resting
  <1>8. CASE ConnDelete
    <2>1. UNCHANGED <<proc, list, task, lost>> /\ host.at = "broken" /\ host' = HostIdle
      BY <1>8 DEF ConnDelete
    <2>2. host.x = NoProc /\ host.todo = <<>> /\ Range(host.todo) = {}
      BY <1>1, <2>1 DEF Resting, Range
    <2>3. AllPlaced'
      BY <2>1, <2>2, TurnKeeps
    <2>4. QED
      BY <1>2, <2>1, <2>3 DEF Resting
  <1>9. QED
    BY <1>3, <1>4, <1>5, <1>6, <1>7, <1>8 DEF HostStep

LEMMA SettlesKeeps ==
    ASSUME Keeping, host.at = "idle", Settles, UNCHANGED <<task, accepted, lost, used>>
    PROVE  AllPlaced'
  <1>1. Serving /\ Resting /\ AllPlaced
    BY DEF Keeping
  <1>2. \A x \in Procs : proc'[x] # Free => proc'[x] = proc[x] /\ (x \in Listed' <=> x \in Listed)
    BY <1>1, SettlesServes
  <1>3. host.x = NoProc /\ Range(host.todo) = {}
    BY <1>1 DEF Resting, Range
  <1>4. QED
    BY <1>1, <1>2, <1>3, ProcsAssumption DEF AllPlaced, Placed, InUse, Busy

LEMMA RxKeeps ==
    ASSUME Keeping, NEW c \in Conns,
           \/ RxRsp(c) \/ RxMore(c) \/ RxErr(c) \/ RxIndicateRsp(c)
           \/ Connect(c) \/ ConnectionBroken(c)
    PROVE  Resting' /\ AllPlaced'
  <1>1. Serving /\ Resting /\ AllPlaced /\ TypeOK
    BY DEF Keeping, Serving, Sound
  <1>2. CASE RxRsp(c) \/ RxErr(c) \/ RxIndicateRsp(c)
    <2>1. /\ host.at = "idle" /\ Settles
          /\ UNCHANGED <<task, host, accepted, lost, used>>
      BY <1>1, <1>2, AnswerSettles
    <2>2. QED
      BY <1>1, <2>1, SettlesKeeps DEF Resting
  <1>3. CASE RxMore(c)
    <2>1. /\ host'.at = "send" /\ host'.todo = <<>> /\ host.at = "idle"
          /\ Listed' = Listed \ {host'.x} /\ UNCHANGED <<proc, task, lost>>
      BY <1>1, <1>3, RxMoreServes DEF RxMore, Listening
    <2>2. host.x = NoProc /\ Range(host.todo) = {}
      BY <1>1, <2>1 DEF Resting, Range
    <2>3. AllPlaced'
      BY <1>1, <2>1, <2>2, ProcsAssumption DEF AllPlaced, Placed, InUse, Busy
    <2>4. QED
      BY <2>1, <2>3 DEF Resting
  <1>4. CASE Connect(c)
    <2>1. UNCHANGED <<proc, list, task, host, lost>> /\ host.at = "idle"
      BY <1>4 DEF Connect
    <2>2. host.x = NoProc /\ Range(host.todo) = {}
      BY <1>1, <2>1 DEF Resting, Range
    <2>3. QED
      BY <1>1, <2>1, <2>2, TurnKeeps DEF Resting
  <1>5. CASE ConnectionBroken(c)
    <2>1. /\ Settles /\ host.at = "idle" /\ host'.at = "broken"
          /\ host'.x = NoProc /\ host'.todo = <<>>
          /\ UNCHANGED <<task, accepted, lost, used>>
      BY <1>1, <1>5, ConnectionBrokenServes
    <2>2. QED
      BY <2>1, SettlesKeeps DEF Resting
  <1>6. QED
    BY <1>2, <1>3, <1>4, <1>5

LEMMA KeepingStep == Keeping /\ [Next]_vars => Keeping' \/ Astray'
  <1> SUFFICES ASSUME Keeping, [Next]_vars, ~Astray' PROVE Keeping'
    OBVIOUS
  <1>1. Serving /\ Serving'
    BY ServingStep DEF Keeping
  <1>2. Resting' /\ AllPlaced'
    <2>1. ASSUME NEW S \in SUBSET Listed, Expire(S) PROVE Resting' /\ AllPlaced'
      <3>1. Settles /\ UNCHANGED <<task, host, accepted, lost, used>> /\ host.at = "idle"
        BY <1>1, <2>1, ExpireServes DEF Expire
      <3>2. QED
        BY <3>1, SettlesKeeps DEF Keeping, Resting
    <2>2. CASE UNCHANGED vars
      BY <2>2 DEF vars, Keeping, Resting, AllPlaced, Placed, InUse, Busy, Listed
    <2>3. ~ResumeAgain
      BY <1>1, ResumeAgainLeads
    <2>4. QED
      BY <2>1, <2>2, <2>3, TaskKeeps, HostKeeps, RxKeeps DEF Next
  <1>3. QED
    BY <1>1, <1>2 DEF Keeping

LEMMA KeepingIsEnough == Keeping => NoProcLost
  BY DEF Keeping, Serving, Sound, ListOK, TasksUse, TasksOff, AllPlaced, Placed, InUse, Busy,
         NoProcLost

(* However many procedures stall at once, an entry in use leaves the list  *)
(* and everybody's hands only where ble_gattc_resume_procs loses sight of  *)
(* the rest of its local list, and no entry is put on the list twice until *)
(* that loop takes a listed entry for a stalled one.                       *)
THEOREM NoProcLostAlways == Spec => []NoProcLost
  <1>1. Init => Keeping \/ Astray
    BY KeepingInit
  <1>2. (Keeping \/ Astray) /\ [Next]_vars => (Keeping \/ Astray)'
    BY KeepingStep, AstrayStep
  <1>3. Keeping \/ Astray => NoProcLost
    <2>1. Astray => NoProcLost
      BY DEF Astray, NoProcLost
    <2>2. QED
      BY <2>1, KeepingIsEnough
  <1>4. QED
    BY <1>1, <1>2, <1>3, PTL DEF Spec
=============================================================================
