--------------------------- MODULE BondStoreProofs --------------------------
(***************************************************************************)
(* For every set of tasks, peers and keys and every capacity: what a boot  *)
(* loads was written, a power failure keeps what the operation in progress *)
(* does not write, a write that returned 0 is durable, and a peer that was *)
(* unpaired is forgotten.                                                  *)
(***************************************************************************)
EXTENDS BondStore, SequenceTheorems, WellFoundedInduction, TLAPS

-----------------------------------------------------------------------------
(* The inductive invariants.                                               *)

Items == [list : Lists, rec : Recs]
Keys  == [list : {"cccd"}, rec : [peer : Peers, id : Handles]]

Contexts ==
    [job : {"bond", "cccd", "unpair", NoJob},
     at : {"idle", "write", "scan", "unpair", "delete", "persist"},
     todo : Seq(Items \cup Keys), forget : Peers \cup {AnyPeer, NoPeer},
     from : Lists, list : Lists, next : Nat,
     result : {"ok", "norecord", "noent", "error"}, alone : BOOLEAN]

(* A task writes records, or deletes one key.                              *)
Works(c) ==
    /\ c.job = NoJob => c.at = "idle"
    /\ \/ c.todo \in Seq(Items)
       \/ Len(c.todo) = 1 /\ c.at \in {"delete", "persist"} /\ c.forget = NoPeer
    /\ c.at \in {"write", "scan"} => c.todo # <<>> /\ c.forget = NoPeer
    /\ c.at = "delete" => c.todo # <<>>

(* The lists and their keys, and who holds the lock.                       *)
Memory ==
    /\ power \in {"on", "off"}
    /\ ram \in [Lists -> Seq(Recs)] /\ \A l \in Lists : Len(ram[l]) <= Cap(l)
    /\ power = "off" => lock = NoTask /\ \A l \in Lists : ram[l] = <<>>
    /\ linked \subseteq Peers /\ reported \in [Lists -> BOOLEAN]
    /\ jobs \in Nat /\ crashes \in Nat /\ failures \in Nat

Flash ==
    /\ kvNum \in [Lists -> Nat] /\ DOMAIN kvElem = Lists
    /\ \A l \in Lists : /\ kvNum[l] <= Cap(l)
                        /\ kvElem[l] \in [0 .. Cap(l) - 1 -> Recs \cup {NoRec}]

Control ==
    /\ ctx \in [Tasks -> Contexts] /\ lock \in Tasks \cup {NoTask}
    /\ \A t \in Tasks : Works(ctx[t]) /\ (lock = t <=> ctx[t].at = "persist")
    /\ power = "off" => \A t \in Tasks : ctx[t].job = NoJob

(* What has been persisted of a list, by the task that does so.            *)
Written(l, n) == n <= Len(ram[l]) /\ \A i \in 0 .. n - 1 : kvElem[l][i] = ram[l][i + 1]

Progress == lock # NoTask => Written(ctx[lock].list, ctx[lock].next)

Safe == Memory /\ Flash /\ Control /\ Progress /\ LoadsOnlyWritten

(* While a list is persisted, a record that is not being written is where  *)
(* it was, or one place further if a record before it was deleted.         *)
Kept(l, i) == i <= kvNum[l] /\ kvElem[l][i - 1] = ram[l][i]

Moved(l, i) == i < kvNum[l] /\ kvElem[l][i] = ram[l][i]

Copied(l, i) == i <= kvNum[l] \/ Writing(l, ram[l][i])

Ahead(l, i) == Kept(l, i) \/ Moved(l, i) \/ Writing(l, ram[l][i])

InFlight ==
    lock # NoTask =>
        LET l == ctx[lock].list
            n == ctx[lock].next
        IN  /\ \A i \in 1 .. n : Copied(l, i)
            /\ \A i \in n + 1 .. Len(ram[l]) : Ahead(l, i)

Same(l) == kvNum[l] = Len(ram[l]) /\ \A i \in 1 .. Len(ram[l]) : kvElem[l][i - 1] = ram[l][i]

AtRest ==
    power = "on" => \A l \in Lists : lock = NoTask \/ ctx[lock].list # l => Same(l)

Mirror == failures = 0 => InFlight /\ AtRest

(* A peer is forgotten list by list; nobody else is there to bond it.      *)
Gone(l, p) == \A i \in DOMAIN ram[l] : ~Matches(ram[l][i], p, AnyId)

Forgets(t) ==
    /\ \A u \in Tasks : u # t => ctx[u].job = NoJob
    /\ ctx[t].at \in {"unpair", "persist"} /\ ctx[t].todo = <<>> /\ ctx[t].forget # NoPeer
    /\ ctx[t].at = "persist" => ctx[t].list = ctx[t].from
    /\ ctx[t].from # "our" => Gone("our", ctx[t].forget)
    /\ ctx[t].from = "cccd" => Gone("peer", ctx[t].forget)

Forgetting == \A t \in Tasks : ctx[t].job = "unpair" /\ ctx[t].alone => Forgets(t)

-----------------------------------------------------------------------------
(* Lists.                                                                  *)

LEMMA MinIsIn ==
    ASSUME NEW S \in SUBSET Nat, S # {}
    PROVE  Min(S) \in S /\ \A y \in S : Min(S) <= y
  <1> DEFINE R == OpToRel(<, Nat)
  <1>1. IsWellFoundedOn(R, Nat)
    BY NatLessThanWellFounded
  <1>2. \A x, y \in Nat : y < x => <<y, x>> \in R
    BY DEF OpToRel
  <1> HIDE DEF R
  <1>3. PICK x \in S : \A y \in S : ~(<<y, x>> \in R)
    BY <1>1, WFMin
  <1>4. ASSUME NEW y \in S PROVE x <= y
    <2>1. x \in Nat /\ y \in Nat /\ ~(<<y, x>> \in R)
      BY <1>3
    <2>2. ~(y < x)
      BY <1>2, <2>1
    <2>3. QED
      BY <2>1, <2>2
  <1>5. QED
    BY <1>4 DEF Min

(* The search finds a match if there is one.                               *)
LEMMA FindFinds ==
    ASSUME NEW s \in Seq(Recs), NEW p, NEW id
    PROVE  /\ Find(s, p, id) \in 0 .. Len(s)
           /\ Find(s, p, id) = 0 <=> \A i \in DOMAIN s : ~Matches(s[i], p, id)
  <1> DEFINE I == {i \in 1 .. Len(s) : Matches(s[i], p, id)}
  <1>1. Find(s, p, id) = IF I # {} THEN Min(I) ELSE 0
    BY DEF Find, SelectInSeq
  <1>2. Len(s) \in Nat /\ DOMAIN s = 1 .. Len(s) /\ I \in SUBSET Nat /\ I \subseteq 1 .. Len(s)
    OBVIOUS
  <1>3. I # {} => Min(I) \in I
    BY <1>2, MinIsIn
  <1>4. I = {} <=> \A i \in DOMAIN s : ~Matches(s[i], p, id)
    BY <1>2
  <1> HIDE DEF I
  <1>5. I # {} => Min(I) \in 1 .. Len(s)
    BY <1>2, <1>3
  <1>6. CASE I = {}
    BY <1>1, <1>2, <1>4, <1>6
  <1>7. CASE I # {}
    <2>1. PICK n : n = Min(I)
      OBVIOUS
    <2>2. n \in 1 .. Len(s) /\ Find(s, p, id) = n
      BY <1>1, <1>5, <1>7, <2>1
    <2>3. n \in 0 .. Len(s) /\ n # 0
      BY <1>2, <2>2
    <2> QED  BY <1>4, <1>7, <2>2, <2>3
  <1> QED  BY <1>6, <1>7

LEMMA RemoveAtElements ==
    ASSUME NEW S, NEW s \in Seq(S), NEW n \in 1 .. Len(s)
    PROVE  /\ RemoveAt(s, n) \in Seq(S) /\ Len(RemoveAt(s, n)) = Len(s) - 1
           /\ \A i \in 1 .. Len(s) - 1 : RemoveAt(s, n)[i] = IF i < n THEN s[i] ELSE s[i + 1]
  <1> DEFINE lo == SubSeq(s, 1, n - 1)
             hi == SubSeq(s, n + 1, Len(s))
  <1>1. Len(s) \in Nat /\ \A i \in 1 .. Len(s) : s[i] \in S
    OBVIOUS
  <1>2. /\ lo \in Seq(S) /\ Len(lo) = n - 1
        /\ \A i \in 1 .. n - 1 : lo[i] = s[i]
    BY <1>1, SubSeqProperties
  <1>3. /\ hi \in Seq(S) /\ Len(hi) = Len(s) - n
        /\ \A i \in 1 .. Len(s) - n : hi[i] = s[n + i]
    BY <1>1, SubSeqProperties
  <1> HIDE DEF lo, hi
  <1>4. /\ lo \o hi \in Seq(S) /\ Len(lo \o hi) = Len(lo) + Len(hi)
        /\ \A i \in 1 .. Len(lo) + Len(hi) :
              (lo \o hi)[i] = IF i <= Len(lo) THEN lo[i] ELSE hi[i - Len(lo)]
    BY <1>2, <1>3, ConcatProperties
  <1>5. RemoveAt(s, n) = lo \o hi
    BY DEF RemoveAt, lo, hi
  <1>6. ASSUME NEW i \in 1 .. Len(s) - 1
        PROVE  RemoveAt(s, n)[i] = IF i < n THEN s[i] ELSE s[i + 1]
    <2>1. CASE i < n
      BY <1>1, <1>2, <1>3, <1>4, <1>5, <2>1
    <2>2. CASE i >= n
      <3>1. i - Len(lo) \in 1 .. Len(s) - n /\ n + (i - Len(lo)) = i + 1
        BY <1>1, <1>2, <2>2
      <3>2. (lo \o hi)[i] = hi[i - Len(lo)]
        BY <1>1, <1>2, <1>3, <1>4, <2>2
      <3>3. hi[i - Len(lo)] = s[n + (i - Len(lo))]
        BY <1>3, <3>1
      <3>4. QED
        BY <1>5, <2>2, <3>1, <3>2, <3>3
    <2>3. QED
      BY <1>1, <2>1, <2>2
  <1>7. RemoveAt(s, n) \in Seq(S)
    BY <1>4, <1>5
  <1>8. Len(RemoveAt(s, n)) = Len(s) - 1
    <2>1. (n - 1) + (Len(s) - n) = Len(s) - 1
      BY <1>1
    <2>2. Len(lo \o hi) = (n - 1) + (Len(s) - n)
      BY <1>2, <1>3, <1>4
    <2>3. QED
      BY <1>5, <2>1, <2>2
  <1>9. QED
    BY <1>6, <1>7, <1>8

(* ble_store_config_write: every record is the new one, or where it was.   *)
LEMMA PlacedRecords ==
    ASSUME NEW s \in Seq(Recs), NEW r \in Recs
    PROVE  /\ Placed(s, r) \in Seq(Recs)
           /\ Len(Placed(s, r)) = Len(s) \/ (Find(s, r.peer, r.id) = 0 /\ Len(Placed(s, r)) = Len(s) + 1)
           /\ \A i \in 1 .. Len(Placed(s, r)) :
                 Placed(s, r)[i] = r \/ (i <= Len(s) /\ Placed(s, r)[i] = s[i])
  <1>1. PICK n : n = Find(s, r.peer, r.id)
    OBVIOUS
  <1>2. n \in 0 .. Len(s) /\ Len(s) \in Nat
    BY <1>1, FindFinds
  <1>3. CASE n = 0
    <2>1. Placed(s, r) = Append(s, r)
      BY <1>1, <1>3 DEF Placed
    <2>2. PICK a : a = Append(s, r)
      OBVIOUS
    <2>3. /\ a \in Seq(Recs) /\ Len(a) = Len(s) + 1
          /\ \A i \in 1 .. Len(a) : a[i] = r \/ (i <= Len(s) /\ a[i] = s[i])
      BY <1>2, <2>2
    <2> QED  BY <1>1, <1>3, <2>1, <2>2, <2>3
  <1>4. CASE n # 0
    <2>1. Placed(s, r) = [s EXCEPT ![n] = r]
      BY <1>1, <1>4 DEF Placed
    <2>2. PICK a : a = [s EXCEPT ![n] = r]
      OBVIOUS
    <2>3. /\ a \in Seq(Recs) /\ Len(a) = Len(s)
          /\ \A i \in 1 .. Len(a) : a[i] = r \/ (i <= Len(s) /\ a[i] = s[i])
      BY <1>2, <1>4, <2>2
    <2> QED  BY <2>1, <2>2, <2>3
  <1> QED  BY <1>3, <1>4

(* ble_store_config_delete_obj: a record stays, or moves to the front.     *)
LEMMA RemovedRecords ==
    ASSUME NEW s \in Seq(Recs), NEW n \in 1 .. Len(s)
    PROVE  /\ Removed(s, n) \in Seq(Recs) /\ Len(Removed(s, n)) = Len(s) - 1
           /\ \A i \in 1 .. Len(s) - 1 : Removed(s, n)[i] = s[i] \/ Removed(s, n)[i] = s[i + 1]
  BY RemoveAtElements DEF Removed

-----------------------------------------------------------------------------
(* What a task may be doing.                                               *)

Results == {"ok", "norecord", "noent", "error"}

(* The job goes on, or ends.                                               *)
Continues(c, d) == c.job = NoJob \/ (c.job = d.job /\ c.alone = d.alone)

LEMMA IdleWorks == Idle \in Contexts /\ Works(Idle) /\ Idle.job = NoJob /\ Idle.at = "idle"
  BY DEF Idle, Contexts, Works, Lists

LEMMA EndedWorks ==
    ASSUME NEW result \in Results
    PROVE  /\ [Idle EXCEPT !.result = result] \in Contexts
           /\ Works([Idle EXCEPT !.result = result])
           /\ [Idle EXCEPT !.result = result].at = "idle"
           /\ [Idle EXCEPT !.result = result].job = NoJob
  <1>1. PICK c : c = [Idle EXCEPT !.result = result]
    OBVIOUS
  <1>2. c = [job |-> NoJob, at |-> "idle", todo |-> <<>>, forget |-> NoPeer, from |-> "our",
             list |-> "our", next |-> 0, result |-> result, alone |-> FALSE]
    BY <1>1 DEF Idle
  <1>3. c \in Contexts /\ c.at = "idle" /\ c.todo = <<>> /\ c.job = NoJob
    BY <1>2 DEF Contexts, Lists, Results
  <1>4. <<>> \in Seq(Items)
    OBVIOUS
  <1> QED  BY <1>1, <1>3, <1>4 DEF Works

LEMMA NextItemWorks ==
    ASSUME NEW c \in Contexts, Works(c), c.at # "idle", NEW result \in Results
    PROVE  /\ NextItem(c, result) \in Contexts /\ Works(NextItem(c, result))
           /\ NextItem(c, result).at \in {"idle", "write"} /\ Continues(NextItem(c, result), c)
  <1>1. c.todo \in Seq(Items \cup Keys) /\ c.result \in Results /\ c.job # NoJob
    BY DEF Contexts, Results, Works
  <1>2. CASE Len(c.todo) > 1
    <2>1. c.todo \in Seq(Items)
      <3>1. \A n : n > 1 => n # 1
        OBVIOUS
      <3>2. Len(c.todo) # 1
        BY <1>2, <3>1, Zenon
      <3> QED  BY <3>2 DEF Works
    <2>2. Tail(c.todo) \in Seq(Items) /\ Tail(c.todo) # <<>> /\ Tail(c.todo) \in Seq(Items \cup Keys)
      BY <1>1, <1>2, <2>1
    <2>3. PICK d, rest, res : /\ d = NextItem(c, result) /\ rest = Tail(c.todo)
                              /\ res = IF c.result = "ok" THEN result ELSE c.result
      OBVIOUS
    <2>4. d = [c EXCEPT !.at = "write", !.todo = rest, !.forget = NoPeer, !.from = "our",
                        !.next = 0, !.result = res]
      BY <1>2, <2>3 DEF NextItem
    <2>5. rest \in Seq(Items) /\ rest # <<>> /\ rest \in Seq(Items \cup Keys) /\ res \in Results
      BY <1>1, <2>2, <2>3
    <2>6. /\ d \in Contexts /\ d.at = "write" /\ d.todo = rest /\ d.forget = NoPeer /\ d.job = c.job
          /\ d.alone = c.alone
      BY <2>4, <2>5 DEF Contexts, Lists, Results
    <2>7. Works(d)
      BY <1>1, <2>5, <2>6 DEF Works
    <2> QED  BY <2>3, <2>6, <2>7 DEF Continues
  <1>3. CASE ~(Len(c.todo) > 1)
    <2>1. PICK res \in Results : res = IF c.result = "ok" THEN result ELSE c.result
      BY <1>1
    <2>2. NextItem(c, result) = [Idle EXCEPT !.result = res]
      BY <1>3, <2>1 DEF NextItem
    <2> QED  BY <2>2, EndedWorks DEF Continues
  <1> QED  BY <1>2, <1>3

-----------------------------------------------------------------------------
(* A step of one task.                                                     *)

Steps(t, c) ==
    /\ c \in Contexts /\ Works(c) /\ Continues(c, ctx[t])
    /\ ctx' = [ctx EXCEPT ![t] = c]
    /\ power' = "on" /\ lock' \in Tasks \cup {NoTask}
    /\ lock' = t <=> c.at = "persist"
    /\ \A u \in Tasks : u # t => (lock' = u <=> lock = u)

LEMMA ControlKept ==
    ASSUME Control, NEW t \in Tasks, NEW c, Steps(t, c)
    PROVE  Control' /\ ctx'[t] = c /\ \A u \in Tasks : u # t => ctx'[u] = ctx[u]
  <1>1. ctx'[t] = c /\ \A u \in Tasks : u # t => ctx'[u] = ctx[u]
    BY DEF Control, Steps
  <1>2. ctx' \in [Tasks -> Contexts]
    BY DEF Control, Steps
  <1>3. ASSUME NEW u \in Tasks PROVE Works(ctx'[u]) /\ (lock' = u <=> ctx'[u].at = "persist")
    BY <1>1 DEF Control, Steps
  <1>4. power' # "off" /\ lock' \in Tasks \cup {NoTask}
    BY DEF Steps
  <1> QED  BY <1>1, <1>2, <1>3, <1>4 DEF Control

(* A step that changes nothing but what the task is doing.                 *)
LEMMA QuietSafe ==
    ASSUME Safe, NEW t \in Tasks, NEW c, Steps(t, c), c.at # "persist", lock = NoTask,
           UNCHANGED <<power, storeVars, linked, counters>>
    PROVE  Safe'
  <1>1. Control'
    BY ControlKept DEF Safe
  <1> QED  BY <1>1 DEF Safe, Memory, Flash, Progress, LoadsOnlyWritten, storeVars, counters

(* A list is changed and begins to be persisted.                           *)
Begins(t, l, s) ==
    /\ power = "on" /\ lock = NoTask /\ ctx[t].at \in {"write", "delete", "unpair"}
    /\ ram' = [ram EXCEPT ![l] = s]
    /\ StartPersist(t, l)
    /\ UNCHANGED <<power, kvNum, kvElem, reported, linked, counters>>

LEMMA BeginsSteps ==
    ASSUME Safe, NEW t \in Tasks, NEW l \in Lists, NEW s, Begins(t, l, s)
    PROVE  \E c : /\ Steps(t, c) /\ c.list = l /\ c.next = 0 /\ c.todo = ctx[t].todo
                  /\ c.forget = ctx[t].forget /\ c.from = ctx[t].from /\ c.at = "persist"
                  /\ c.job = ctx[t].job /\ c.alone = ctx[t].alone
  <1>1. PICK c : c = [ctx[t] EXCEPT !.at = "persist", !.list = l, !.next = 0]
    OBVIOUS
  <1>2. ctx[t] \in Contexts /\ Works(ctx[t])
    BY DEF Safe, Control
  <1>3. /\ c \in Contexts /\ c.list = l /\ c.next = 0 /\ c.todo = ctx[t].todo
        /\ c.forget = ctx[t].forget /\ c.from = ctx[t].from /\ c.at = "persist"
        /\ c.job = ctx[t].job /\ c.alone = ctx[t].alone
    BY <1>1, <1>2 DEF Contexts
  <1>4. ctx[t].at \in {"write", "delete", "unpair"}
    BY DEF Begins
  <1>5. Works(c)
    BY <1>2, <1>3, <1>4 DEF Works
  <1>6. ctx' = [ctx EXCEPT ![t] = c]
    BY <1>1 DEF Begins, StartPersist, Safe, Control
  <1>7. power' = "on" /\ lock' = t /\ lock = NoTask /\ NoTask \notin Tasks
    BY NoneAssumption DEF Begins, StartPersist
  <1>8. Steps(t, c)
    BY <1>3, <1>5, <1>6, <1>7 DEF Steps, Continues
  <1> QED  BY <1>3, <1>8

LEMMA BeginsSafe ==
    ASSUME Safe, NEW t \in Tasks, NEW l \in Lists, NEW s \in Seq(Recs), Len(s) <= Cap(l),
           Begins(t, l, s)
    PROVE  Safe'
  <1>1. PICK c : Steps(t, c) /\ c.list = l /\ c.next = 0
    BY BeginsSteps
  <1>2. Control' /\ ctx'[t] = c
    BY <1>1, ControlKept DEF Safe
  <1>3. ram' \in [Lists -> Seq(Recs)] /\ ram'[l] = s /\ \A k \in Lists : k # l => ram'[k] = ram[k]
    BY DEF Begins, Safe, Memory
  <1>4. Memory'
    BY <1>3 DEF Begins, Safe, Memory, counters
  <1>5. Flash' /\ LoadsOnlyWritten'
    BY DEF Begins, Safe, Flash, LoadsOnlyWritten
  <1>6. Progress'
    <2>1. lock' = t
      BY DEF Begins, StartPersist
    <2>2. Len(s) \in Nat
      BY LenProperties
    <2> QED  BY <1>1, <1>2, <1>3, <2>1, <2>2 DEF Progress, Written
  <1> QED  BY <1>2, <1>4, <1>5, <1>6 DEF Safe

-----------------------------------------------------------------------------
(* A job begins: the task of nobody else is changed, but it is not alone.  *)

Alike(c, d) ==
    /\ c.job = d.job /\ c.at = d.at /\ c.todo = d.todo /\ c.forget = d.forget
    /\ c.from = d.from /\ c.list = d.list /\ c.next = d.next

LEMMA AloneAlike ==
    ASSUME NEW c \in Contexts, Works(c), NEW b \in BOOLEAN
    PROVE  /\ [c EXCEPT !.alone = b] \in Contexts /\ Works([c EXCEPT !.alone = b])
           /\ Alike(c, [c EXCEPT !.alone = b]) /\ [c EXCEPT !.alone = b].alone = b
  <1>1. PICK d : d = [c EXCEPT !.alone = b]
    OBVIOUS
  <1>2. d \in Contexts /\ Alike(c, d) /\ d.alone = b
    BY <1>1 DEF Contexts, Alike
  <1>3. Works(d)
    BY <1>2 DEF Works, Alike
  <1> QED  BY <1>1, <1>2, <1>3

Starts(c) == c \in Contexts /\ Works(c) /\ c.job # NoJob /\ c.at # "persist"

LEMMA StartKept ==
    ASSUME Control, NEW t \in Tasks, NEW c, Starts(c), StartJob(t, c)
    PROVE  /\ Control' /\ Alike(c, ctx'[t])
           /\ ctx'[t].alone => \A u \in Tasks : ctx[u].job = NoJob
           /\ \A u \in Tasks : u # t => Alike(ctx[u], ctx'[u]) /\ ~ctx'[u].alone
  <1>1. PICK b \in BOOLEAN : b <=> \A u \in Tasks : ctx[u].job = NoJob
    OBVIOUS
  <1>2. ctx' = [u \in Tasks |-> IF u = t THEN [c EXCEPT !.alone = b] ELSE [ctx[u] EXCEPT !.alone = FALSE]]
    <2>1. b = \A u \in Tasks : ctx[u].job = NoJob
      BY <1>1
    <2> QED  BY <2>1 DEF StartJob
  <1>3. PICK d : d = [c EXCEPT !.alone = b]
    OBVIOUS
  <1>4. d \in Contexts /\ Works(d) /\ Alike(c, d) /\ d.alone = b
    BY <1>3, AloneAlike DEF Starts
  <1>5. ctx'[t] = d
    BY <1>2, <1>3
  <1>6. ASSUME NEW u \in Tasks, u # t
        PROVE  /\ ctx'[u] \in Contexts /\ Works(ctx'[u]) /\ Alike(ctx[u], ctx'[u]) /\ ~ctx'[u].alone
    <2>1. ctx'[u] = [ctx[u] EXCEPT !.alone = FALSE]
      BY <1>2, <1>6
    <2>2. ctx[u] \in Contexts /\ Works(ctx[u])
      BY DEF Control
    <2> QED  BY <2>1, <2>2, AloneAlike
  <1>7. ctx' \in [Tasks -> Contexts]
    <2>1. \A u \in Tasks : ctx'[u] \in Contexts
      BY <1>4, <1>5, <1>6
    <2> QED  BY <1>2, <2>1
  <1>8. UNCHANGED <<lock, power>> /\ power = "on" /\ ctx[t].job = NoJob
    BY DEF StartJob, storeVars
  <1>9. ASSUME NEW u \in Tasks PROVE Works(ctx'[u]) /\ (lock' = u <=> ctx'[u].at = "persist")
    <2>1. CASE u = t
      <3>1. ctx[t].at = "idle" /\ lock # t
        BY <1>8 DEF Control, Works
      <3> QED  BY <1>4, <1>5, <1>8, <2>1, <3>1 DEF Starts, Alike
    <2>2. CASE u # t
      BY <1>6, <1>8, <2>2 DEF Control, Alike
    <2> QED  BY <2>1, <2>2
  <1>10. Control'
    BY <1>7, <1>8, <1>9 DEF Control
  <1> QED  BY <1>1, <1>4, <1>5, <1>6, <1>10

LEMMA StartSafe ==
    ASSUME Safe, NEW t \in Tasks, NEW c, Starts(c), StartJob(t, c), linked' \subseteq Peers
    PROVE  Safe'
  <1>1. /\ Control' /\ Alike(c, ctx'[t])
        /\ \A u \in Tasks : u # t => Alike(ctx[u], ctx'[u])
    BY StartKept DEF Safe
  <1>2. UNCHANGED <<power, ram, kvNum, kvElem, lock, reported, crashes, failures>> /\ jobs' = jobs + 1
    BY DEF StartJob, storeVars
  <1>3. Memory' /\ Flash' /\ LoadsOnlyWritten'
    BY <1>2 DEF Safe, Memory, Flash, LoadsOnlyWritten
  <1>4. Progress'
    <2>1. lock # t
      BY DEF StartJob, Safe, Control, Works
    <2> QED  BY <1>1, <1>2, <2>1 DEF Safe, Control, Progress, Written, Alike
  <1> QED  BY <1>1, <1>3, <1>4 DEF Safe

(* The jobs there are.                                                     *)
Job(j, at, todo, p) ==
    [job |-> j, at |-> at, todo |-> todo, forget |-> p, from |-> "our", list |-> "our",
     next |-> 0, result |-> "ok", alone |-> FALSE]

LEMMA JobStarts ==
    /\ \A j \in {"bond", "cccd"}, todo \in Seq(Items) :
         todo # <<>> => Starts(Job(j, "write", todo, NoPeer))
    /\ \A k \in Keys : Starts(Job("cccd", "delete", <<k>>, NoPeer))
    /\ \A p \in Peers \cup {AnyPeer} : Starts(Job("unpair", "unpair", <<>>, p))
  <1>1. ASSUME NEW j \in {"bond", "cccd"}, NEW todo \in Seq(Items), todo # <<>>
        PROVE  Starts(Job(j, "write", todo, NoPeer))
    <2>1. todo \in Seq(Items \cup Keys)
      OBVIOUS
    <2>2. PICK c : c = Job(j, "write", todo, NoPeer)
      OBVIOUS
    <2>3. /\ c \in Contexts /\ c.job = j /\ c.at = "write" /\ c.todo = todo /\ c.forget = NoPeer
      BY <2>1, <2>2 DEF Job, Contexts, Lists
    <2> QED  BY <1>1, <2>2, <2>3, NoneAssumption DEF Starts, Works
  <1>2. ASSUME NEW k \in Keys PROVE Starts(Job("cccd", "delete", <<k>>, NoPeer))
    <2>1. <<k>> \in Seq(Items \cup Keys) /\ Len(<<k>>) = 1 /\ <<k>> # <<>>
      OBVIOUS
    <2>2. PICK c, todo : todo = <<k>> /\ c = Job("cccd", "delete", todo, NoPeer)
      OBVIOUS
    <2>3. todo \in Seq(Items \cup Keys) /\ Len(todo) = 1 /\ todo # <<>>
      BY <2>1, <2>2
    <2>4. /\ c \in Contexts /\ c.job = "cccd" /\ c.at = "delete" /\ c.todo = todo /\ c.forget = NoPeer
      BY <2>2, <2>3 DEF Job, Contexts, Lists
    <2> QED  BY <2>2, <2>3, <2>4, NoneAssumption DEF Starts, Works
  <1>3. ASSUME NEW p \in Peers \cup {AnyPeer} PROVE Starts(Job("unpair", "unpair", <<>>, p))
    <2>1. <<>> \in Seq(Items \cup Keys) /\ <<>> \in Seq(Items)
      OBVIOUS
    <2>2. PICK c, todo : todo = <<>> /\ c = Job("unpair", "unpair", todo, p)
      OBVIOUS
    <2>3. /\ c \in Contexts /\ c.job = "unpair" /\ c.at = "unpair" /\ c.todo = todo
      BY <2>1, <2>2 DEF Job, Contexts, Lists
    <2> QED  BY <2>1, <2>2, <2>3, NoneAssumption DEF Starts, Works
  <1> QED  BY <1>1, <1>2, <1>3

(* Each call of the API begins one of them.                                *)
NewJob(t) ==
    \/ \E p \in Peers, e \in Edivs, d \in Data : Bond(t, p, e, d)
    \/ \E p \in Peers, h \in Handles, d \in Data : WriteCccd(t, p, h, d)
    \/ \E p \in Peers, h \in Handles : DeleteCccd(t, p, h)
    \/ \E p \in Peers \cup {AnyPeer} : Unpair(t, p)

LEMMA NewJobStarts ==
    ASSUME Safe, NEW t \in Tasks, NewJob(t)
    PROVE  /\ linked' \subseteq Peers
           /\ \E c : /\ Starts(c) /\ StartJob(t, c) /\ c.from = "our"
                     /\ c.job = "unpair" => c.at = "unpair" /\ c.todo = <<>> /\ c.forget # NoPeer
  <1>1. CASE \E p \in Peers, e \in Edivs, d \in Data : Bond(t, p, e, d)
    <2>1. PICK p \in Peers, e \in Edivs, d \in Data : Bond(t, p, e, d)
      BY <1>1
    <2>2. PICK r : r = [peer |-> p, id |-> e, data |-> d]
      OBVIOUS
    <2>3. r \in Recs
      BY <2>2 DEF Recs
    <2>4. Item("our", r) \in Items /\ Item("peer", r) \in Items
      BY <2>3 DEF Item, Items, Lists
    <2>5. PICK todo : todo = <<Item("our", r), Item("peer", r)>>
      OBVIOUS
    <2>6. todo \in Seq(Items) /\ todo # <<>>
      BY <2>4, <2>5
    <2>7. PICK c : c = Job("bond", "write", todo, NoPeer)
      OBVIOUS
    <2>8. Starts(c) /\ c.job = "bond" /\ c.from = "our"
      BY <2>6, <2>7, JobStarts DEF Job
    <2>9. StartJob(t, c) /\ linked' = linked \cup {p}
      <3>1. PICK x : x = [Idle EXCEPT !.job = "bond", !.at = "write", !.todo = todo]
        OBVIOUS
      <3>2. StartJob(t, x) /\ linked' = linked \cup {p}
        BY <2>1, <2>2, <2>5, <3>1 DEF Bond
      <3>3. x = Job("bond", "write", todo, NoPeer)
        BY <3>1 DEF Job, Idle
      <3> QED  BY <2>7, <3>2, <3>3
    <2> QED  BY <2>8, <2>9 DEF Safe, Memory
  <1>2. CASE \E p \in Peers, h \in Handles, d \in Data : WriteCccd(t, p, h, d)
    <2>1. PICK p \in Peers, h \in Handles, d \in Data : WriteCccd(t, p, h, d)
      BY <1>2
    <2>2. PICK r : r = [peer |-> p, id |-> h, data |-> d]
      OBVIOUS
    <2>3. r \in Recs
      BY <2>2 DEF Recs
    <2>4. Item("cccd", r) \in Items
      BY <2>3 DEF Item, Items, Lists
    <2>5. PICK todo : todo = <<Item("cccd", r)>>
      OBVIOUS
    <2>6. todo \in Seq(Items) /\ todo # <<>>
      BY <2>4, <2>5
    <2>7. PICK c : c = Job("cccd", "write", todo, NoPeer)
      OBVIOUS
    <2>8. Starts(c) /\ c.job = "cccd" /\ c.from = "our"
      BY <2>6, <2>7, JobStarts DEF Job
    <2>9. StartJob(t, c) /\ linked' = linked
      <3>1. PICK e : e = [Idle EXCEPT !.job = "cccd", !.at = "write", !.todo = todo]
        OBVIOUS
      <3>2. StartJob(t, e) /\ linked' = linked
        BY <2>1, <2>2, <2>5, <3>1 DEF WriteCccd
      <3>3. e = Job("cccd", "write", todo, NoPeer)
        BY <3>1 DEF Job, Idle
      <3> QED  BY <2>7, <3>2, <3>3
    <2> QED  BY <2>8, <2>9 DEF Safe, Memory
  <1>3. CASE \E p \in Peers, h \in Handles : DeleteCccd(t, p, h)
    <2>1. PICK p \in Peers, h \in Handles : DeleteCccd(t, p, h)
      BY <1>3
    <2>2. PICK k : k = Item("cccd", [peer |-> p, id |-> h])
      OBVIOUS
    <2>3. k \in Keys
      BY <2>2 DEF Item, Keys
    <2>4. PICK c : c = Job("cccd", "delete", <<k>>, NoPeer)
      OBVIOUS
    <2>5. Starts(c) /\ c.job = "cccd" /\ c.from = "our"
      BY <2>3, <2>4, JobStarts DEF Job
    <2>6. StartJob(t, c) /\ linked' = linked
      <3>1. PICK e : e = [Idle EXCEPT !.job = "cccd", !.at = "delete", !.todo = <<k>>]
        OBVIOUS
      <3>2. StartJob(t, e) /\ linked' = linked
        BY <2>1, <2>2, <3>1 DEF DeleteCccd
      <3>3. e = Job("cccd", "delete", <<k>>, NoPeer)
        BY <3>1 DEF Job, Idle
      <3> QED  BY <2>4, <3>2, <3>3
    <2> QED  BY <2>5, <2>6 DEF Safe, Memory
  <1>4. CASE \E p \in Peers \cup {AnyPeer} : Unpair(t, p)
    <2>1. PICK p \in Peers \cup {AnyPeer} : Unpair(t, p)
      BY <1>4
    <2>2. PICK c : c = Job("unpair", "unpair", <<>>, p)
      OBVIOUS
    <2>3. /\ Starts(c) /\ c.from = "our" /\ c.at = "unpair" /\ c.todo = <<>> /\ c.forget = p
      BY <2>2, JobStarts DEF Job
    <2>4. StartJob(t, c) /\ linked' = linked
      <3>1. PICK e : e = [Idle EXCEPT !.job = "unpair", !.at = "unpair", !.forget = p]
        OBVIOUS
      <3>2. StartJob(t, e) /\ linked' = linked
        BY <2>1, <3>1 DEF Unpair
      <3>3. e = Job("unpair", "unpair", <<>>, p)
        BY <3>1 DEF Job, Idle
      <3> QED  BY <2>2, <3>2, <3>3
    <2>5. p # NoPeer
      BY NoneAssumption
    <2> QED  BY <2>3, <2>4, <2>5 DEF Safe, Memory
  <1> QED  BY <1>1, <1>2, <1>3, <1>4 DEF NewJob

-----------------------------------------------------------------------------
(* A task changes a list.                                                  *)

LEMMA InTask ==
    ASSUME Safe, NEW t \in Tasks
    PROVE  /\ ctx[t] \in Contexts /\ Works(ctx[t]) /\ ctx[t].from \in Lists /\ ctx[t].next \in Nat
           /\ ctx[t].result \in Results /\ ctx[t].todo \in Seq(Items \cup Keys)
           /\ \A l \in Lists : ram[l] \in Seq(Recs) /\ Len(ram[l]) <= Cap(l)
  BY DEF Safe, Control, Memory, Contexts, Results

Fits(l, s) == l \in Lists /\ s \in Seq(Recs) /\ Len(s) <= Cap(l)

LEMMA TryWriteBegins ==
    ASSUME Safe, NEW t \in Tasks, TryWrite(t)
    PROVE  \E l \in Lists, r \in Recs :
              /\ Begins(t, l, Placed(ram[l], r)) /\ Fits(l, Placed(ram[l], r))
              /\ ctx[t].todo # <<>> /\ Head(ctx[t].todo) = Item(l, r)
              /\ ctx[t].forget = NoPeer /\ ctx[t].at = "write"
  <1>1. /\ ctx[t].at = "write" /\ ctx[t].todo # <<>> /\ ctx[t].forget = NoPeer
        /\ ctx[t].todo \in Seq(Items)
    BY InTask DEF TryWrite, Works
  <1>2. PICK q \in Items : q = Head(ctx[t].todo)
    BY <1>1
  <1>3. PICK l \in Lists, r \in Recs : l = q.list /\ r = q.rec /\ q = Item(l, r)
    BY DEF Items, Item
  <1>4. ram[l] \in Seq(Recs) /\ Len(ram[l]) <= Cap(l) /\ Len(ram[l]) \in Nat /\ Cap(l) \in Nat
    BY InTask, CapsAssumption DEF Cap
  <1>5. /\ Find(ram[l], r.peer, r.id) # 0 \/ Len(ram[l]) < Cap(l)
        /\ ram' = [ram EXCEPT ![l] = Placed(@, r)] /\ StartPersist(t, l)
        /\ power = "on" /\ lock = NoTask /\ UNCHANGED <<power, kvNum, kvElem, reported, linked, counters>>
    BY <1>2, <1>3 DEF TryWrite
  <1>6. ram' = [ram EXCEPT ![l] = Placed(ram[l], r)]
    BY <1>5
  <1>7. Fits(l, Placed(ram[l], r))
    <2>1. PICK s : s = Placed(ram[l], r)
      OBVIOUS
    <2>2. s \in Seq(Recs) /\ (Len(s) = Len(ram[l]) \/ (Find(ram[l], r.peer, r.id) = 0 /\ Len(s) = Len(ram[l]) + 1))
      BY <1>4, <2>1, PlacedRecords
    <2>3. Len(s) <= Cap(l)
      BY <1>4, <1>5, <2>2
    <2> QED  BY <2>1, <2>2, <2>3 DEF Fits
  <1>8. Begins(t, l, Placed(ram[l], r))
    BY <1>1, <1>5, <1>6 DEF Begins
  <1> QED  BY <1>1, <1>2, <1>3, <1>7, <1>8

(* Deletions: of one key, or of a peer's records in the list at hand.      *)
Deletes(t) ==
    \/ DeleteKey(t) /\ lock' = t
    \/ DeleteOne(t)

LEMMA DeletesBegins ==
    ASSUME Safe, NEW t \in Tasks, Deletes(t)
    PROVE  \E l \in Lists : \E n \in 1 .. Len(ram[l]) :
              /\ Begins(t, l, Removed(ram[l], n)) /\ Fits(l, Removed(ram[l], n))
              /\ ctx[t].at = "unpair" => l = ctx[t].from
  <1>1. ASSUME NEW l \in Lists, NEW p, NEW id, NEW n, n = Find(ram[l], p, id), n # 0
        PROVE  n \in 1 .. Len(ram[l]) /\ Fits(l, Removed(ram[l], n))
    <2>1. ram[l] \in Seq(Recs) /\ Len(ram[l]) <= Cap(l) /\ Len(ram[l]) \in Nat /\ Cap(l) \in Nat
      BY InTask, CapsAssumption DEF Cap
    <2>2. n \in 1 .. Len(ram[l])
      BY <1>1, <2>1, FindFinds
    <2>3. PICK s : s = Removed(ram[l], n)
      OBVIOUS
    <2>4. s \in Seq(Recs) /\ Len(s) <= Cap(l)
      BY <2>1, <2>2, <2>3, RemovedRecords
    <2> QED  BY <2>2, <2>3, <2>4 DEF Fits
  <1>2. CASE DeleteKey(t) /\ lock' = t
    <2>1. PICK n : n = Find(ram["cccd"], Head(ctx[t].todo).rec.peer, Head(ctx[t].todo).rec.id)
      OBVIOUS
    <2>2. lock = NoTask /\ lock' # lock
      BY <1>2, NoneAssumption DEF DeleteKey
    <2>3. /\ n # 0 /\ power = "on" /\ ctx[t].at = "delete"
          /\ ram' = [ram EXCEPT !["cccd"] = Removed(@, n)] /\ StartPersist(t, "cccd")
          /\ UNCHANGED <<power, kvNum, kvElem, reported, linked, counters>>
      BY <1>2, <2>1, <2>2 DEF DeleteKey
    <2>4. "cccd" \in Lists
      BY DEF Lists
    <2>5. Begins(t, "cccd", Removed(ram["cccd"], n))
      BY <2>2, <2>3 DEF Begins
    <2> QED  BY <1>1, <2>1, <2>3, <2>4, <2>5
  <1>3. CASE DeleteOne(t)
    <2>1. PICK l \in Lists : l = ctx[t].from
      BY InTask
    <2>2. PICK n : n = Find(ram[l], ctx[t].forget, AnyId)
      OBVIOUS
    <2>3. /\ n # 0 /\ power = "on" /\ lock = NoTask /\ ctx[t].at = "unpair"
          /\ ram' = [ram EXCEPT ![l] = Removed(@, n)] /\ StartPersist(t, l)
          /\ UNCHANGED <<power, kvNum, kvElem, reported, linked, counters>>
      BY <1>3, <2>1, <2>2 DEF DeleteOne
    <2>4. Begins(t, l, Removed(ram[l], n))
      BY <2>3 DEF Begins
    <2> QED  BY <1>1, <2>1, <2>2, <2>3, <2>4
  <1> QED  BY <1>2, <1>3 DEF Deletes

-----------------------------------------------------------------------------
(* A task goes on without changing a list.                                 *)

Quiet(t, c) ==
    /\ power = "on" /\ lock = NoTask /\ ctx[t].at # "idle"
    /\ Steps(t, c) /\ c.at # "persist"
    /\ UNCHANGED <<power, storeVars, linked, counters>>

LEMMA QuietSteps ==
    ASSUME Safe, NEW t \in Tasks, NEW c, c \in Contexts, Works(c), Continues(c, ctx[t]),
           c.at # "persist",
           ctx' = [ctx EXCEPT ![t] = c], power = "on", lock = NoTask, ctx[t].at # "idle",
           UNCHANGED <<power, storeVars, linked, counters>>
    PROVE  Quiet(t, c)
  <1>1. lock' = NoTask /\ NoTask \notin Tasks /\ power' = "on"
    BY NoneAssumption DEF storeVars
  <1>2. Steps(t, c)
    BY <1>1 DEF Steps
  <1> QED  BY <1>2 DEF Quiet

LEMMA OverflowQuiet ==
    ASSUME Safe, NEW t \in Tasks, Overflow(t)
    PROVE  \E c : Quiet(t, c)
  <1>1. PICK c : c = [ctx[t] EXCEPT !.at = "scan", !.next = 0]
    OBVIOUS
  <1>2. /\ c \in Contexts /\ c.at = "scan" /\ c.todo = ctx[t].todo /\ c.forget = ctx[t].forget
        /\ c.job = ctx[t].job /\ c.alone = ctx[t].alone
    BY <1>1, InTask DEF Contexts
  <1>3. ctx[t].at = "write" /\ Works(ctx[t])
    BY InTask DEF Overflow
  <1>4. Works(c)
    BY <1>2, <1>3 DEF Works
  <1>5. ctx' = [ctx EXCEPT ![t] = c] /\ UNCHANGED <<power, storeVars, linked, counters>>
    BY <1>1 DEF Overflow, Safe, Control
  <1> QED  BY <1>2, <1>3, <1>4, <1>5, QuietSteps DEF Overflow, Continues

LEMMA ScanVictimQuiet ==
    ASSUME Safe, NEW t \in Tasks, ScanVictim(t)
    PROVE  \E c : Quiet(t, c)
  <1>1. PICK d, our : d = ctx[t] /\ our = ram["our"]
    OBVIOUS
  <1>2. /\ d \in Contexts /\ Works(d) /\ d.next \in Nat /\ our \in Seq(Recs) /\ Len(our) \in Nat
        /\ d.at = "scan"
    BY <1>1, InTask DEF Lists, ScanVictim
  <1>3. d.todo # <<>> /\ d.forget = NoPeer /\ d.todo \in Seq(Items) /\ d.job # NoJob
    BY <1>2 DEF Works
  <1>4. PICK c : c = CASE d.next >= Len(our) -> NextItem(d, "norecord")
                       [] d.next < Len(our) /\ MayDrop(d, our[d.next + 1].peer) ->
                            [d EXCEPT !.at = "unpair", !.forget = our[d.next + 1].peer, !.from = "our"]
                       [] OTHER -> [d EXCEPT !.next = @ + 1]
    OBVIOUS
  <1>5. ctx' = [ctx EXCEPT ![t] = c] /\ UNCHANGED <<power, storeVars, linked, counters>>
    BY <1>1, <1>4 DEF ScanVictim
  <1>6. c \in Contexts /\ Works(c) /\ c.at # "persist" /\ Continues(c, d)
    <2>1. CASE d.next >= Len(our)
      <3>1. c = NextItem(d, "norecord")
        <4>1. ~(d.next < Len(our))
          BY <1>2, <2>1
        <4> QED  BY <1>4, <2>1, <4>1
      <3>2. "norecord" \in Results
        BY DEF Results
      <3> QED  BY <1>2, <3>1, <3>2, NextItemWorks
    <2>2. CASE ~(d.next >= Len(our)) /\ MayDrop(d, our[d.next + 1].peer)
      <3>1. PICK p \in Peers : p = our[d.next + 1].peer
        <4>1. d.next + 1 \in 1 .. Len(our)
          BY <1>2, <2>2
        <4>2. our[d.next + 1] \in Recs
          BY <1>2, <4>1
        <4> QED  BY <4>2 DEF Recs
      <3>2. d.next < Len(our) /\ ~(d.next >= Len(our))
        BY <1>2, <2>2
      <3>3. c = [d EXCEPT !.at = "unpair", !.forget = p, !.from = "our"]
        BY <1>4, <2>2, <3>1, <3>2
      <3>4. /\ c \in Contexts /\ c.at = "unpair" /\ c.todo = d.todo /\ c.job = d.job
            /\ c.alone = d.alone
        BY <1>2, <3>3 DEF Contexts, Lists
      <3> QED  BY <1>3, <3>4 DEF Works, Continues
    <2>3. CASE ~(d.next >= Len(our)) /\ ~MayDrop(d, our[d.next + 1].peer)
      <3>1. c = [d EXCEPT !.next = d.next + 1]
        BY <1>4, <2>3
      <3>2. /\ c \in Contexts /\ c.at = d.at /\ c.todo = d.todo /\ c.job = d.job
            /\ c.forget = d.forget /\ c.alone = d.alone
        BY <1>2, <3>1 DEF Contexts
      <3> QED  BY <1>2, <1>3, <3>2 DEF Works, Continues
    <2> QED  BY <2>1, <2>2, <2>3
  <1> QED  BY <1>1, <1>2, <1>5, <1>6, QuietSteps DEF ScanVictim

(* The end of a list: what matters of it when a peer is forgotten.         *)
Follows(c, d) ==
    \/ d.from = "our" /\ c.from = "peer"
    \/ d.from = "peer" /\ c.from = "cccd"

LEMMA DeletedAllQuiet ==
    ASSUME Safe, NEW t \in Tasks, DeletedAll(t)
    PROVE  \E c : /\ Quiet(t, c)
                  /\ \/ /\ Follows(c, ctx[t]) /\ c.at = "unpair" /\ c.job = ctx[t].job
                        /\ c.todo = ctx[t].todo /\ c.forget = ctx[t].forget /\ c.alone = ctx[t].alone
                     \/ ctx[t].from = "cccd" /\ (ctx[t].todo = <<>> => c.job = NoJob)
  <1>1. PICK d : d = ctx[t]
    OBVIOUS
  <1>2. /\ d \in Contexts /\ Works(d) /\ d.at = "unpair" /\ d.from \in Lists /\ d.result \in Results
    BY <1>1, InTask DEF DeletedAll
  <1>3. d.todo \in Seq(Items) /\ d.job # NoJob
    BY <1>2 DEF Works
  <1>4. PICK c : c = CASE After[d.from] # "done" -> [d EXCEPT !.from = After[d.from]]
                       [] After[d.from] = "done" /\ d.todo # <<>> ->
                            [d EXCEPT !.at = "write", !.forget = NoPeer, !.from = "our", !.next = 0]
                       [] OTHER -> [Idle EXCEPT !.result = d.result]
    OBVIOUS
  <1>5. ctx' = [ctx EXCEPT ![t] = c] /\ UNCHANGED <<power, storeVars, linked, counters>>
    BY <1>1, <1>4 DEF DeletedAll
  <1>6. /\ c \in Contexts /\ Works(c) /\ c.at # "persist" /\ Continues(c, d)
        /\ \/ /\ Follows(c, d) /\ c.at = "unpair" /\ c.job = d.job
              /\ c.todo = d.todo /\ c.forget = d.forget /\ c.alone = d.alone
           \/ d.from = "cccd" /\ (d.todo = <<>> => c.job = NoJob)
    <2>1. /\ After["our"] = "peer" /\ After["peer"] = "cccd" /\ After["cccd"] = "done"
      BY DEF After
    <2>2. CASE d.from \in {"our", "peer"}
      <3>1. PICK l \in Lists : l = After[d.from] /\ l # "done"
        BY <2>1, <2>2 DEF Lists
      <3>2. c = [d EXCEPT !.from = l]
        BY <1>4, <3>1
      <3>3. /\ c \in Contexts /\ c.from = l /\ c.at = d.at /\ c.todo = d.todo /\ c.job = d.job
            /\ c.forget = d.forget /\ c.alone = d.alone
        BY <1>2, <3>2 DEF Contexts
      <3>4. Follows(c, d)
        BY <2>1, <2>2, <3>1, <3>3 DEF Follows
      <3> QED  BY <1>2, <1>3, <3>3, <3>4 DEF Works, Continues
    <2>3. CASE d.from = "cccd" /\ d.todo # <<>>
      <3>1. c = [d EXCEPT !.at = "write", !.forget = NoPeer, !.from = "our", !.next = 0]
        BY <1>4, <2>1, <2>3
      <3>2. /\ c \in Contexts /\ c.at = "write" /\ c.todo = d.todo /\ c.job = d.job
            /\ c.forget = NoPeer /\ c.alone = d.alone
        BY <1>2, <3>1 DEF Contexts, Lists
      <3> QED  BY <1>3, <2>3, <3>2 DEF Works, Continues
    <2>4. CASE d.from = "cccd" /\ d.todo = <<>>
      <3>1. c = [Idle EXCEPT !.result = d.result]
        BY <1>4, <2>1, <2>4
      <3>2. c.job = NoJob
        BY <3>1 DEF Idle
      <3> QED  BY <1>2, <2>4, <3>1, <3>2, EndedWorks DEF Continues
    <2> QED  BY <1>2, <2>2, <2>3, <2>4 DEF Lists
  <1>7. Quiet(t, c)
    BY <1>1, <1>2, <1>5, <1>6, QuietSteps DEF DeletedAll
  <1> QED  BY <1>1, <1>6, <1>7

LEMMA DeleteKeyQuiet ==
    ASSUME Safe, NEW t \in Tasks, DeleteKey(t), lock' # t
    PROVE  \E c : Quiet(t, c)
  <1>1. PICK c : c = [Idle EXCEPT !.result = "noent"]
    OBVIOUS
  <1>2. /\ ctx' = [ctx EXCEPT ![t] = c] /\ UNCHANGED <<power, storeVars, linked, counters>>
        /\ power = "on" /\ lock = NoTask /\ ctx[t].at = "delete"
    BY <1>1 DEF DeleteKey, StartPersist, storeVars
  <1>3. "noent" \in Results
    BY DEF Results
  <1>4. c \in Contexts /\ Works(c) /\ c.at # "persist" /\ Continues(c, ctx[t])
    BY <1>1, <1>3, EndedWorks DEF Continues
  <1> QED  BY <1>2, <1>4, QuietSteps

-----------------------------------------------------------------------------
(* Persisting a list.                                                      *)

LEMMA ReturnedWorks ==
    ASSUME NEW c \in Contexts, Works(c), c.at = "persist"
    PROVE  /\ Returned(c) \in Contexts /\ Works(Returned(c)) /\ Returned(c).at # "persist"
           /\ Continues(Returned(c), c)
           /\ c.forget # NoPeer =>
                /\ Returned(c).at = "unpair" /\ Returned(c).job = c.job /\ Returned(c).todo = c.todo
                /\ Returned(c).forget = c.forget /\ Returned(c).from = c.from
                /\ Returned(c).alone = c.alone
  <1>1. c.job # NoJob /\ "ok" \in Results
    BY DEF Works, Results
  <1>2. CASE c.forget = NoPeer
    BY <1>1, <1>2, NextItemWorks DEF Returned
  <1>3. CASE c.forget # NoPeer
    <2>1. PICK d : d = [c EXCEPT !.at = "unpair"]
      OBVIOUS
    <2>2. /\ d \in Contexts /\ d.at = "unpair" /\ d.job = c.job /\ d.todo = c.todo
          /\ d.forget = c.forget /\ d.from = c.from /\ d.alone = c.alone
      BY <2>1 DEF Contexts
    <2>3. Works(d)
      BY <1>1, <1>3, <2>2 DEF Works
    <2>4. Returned(c) = d
      BY <1>3, <2>1 DEF Returned
    <2> QED  BY <2>2, <2>3, <2>4 DEF Continues
  <1> QED  BY <1>2, <1>3

LEMMA ReturnedErrorWorks ==
    ASSUME NEW c \in Contexts, Works(c), c.at = "persist"
    PROVE  /\ ReturnedError(c) \in Contexts /\ Works(ReturnedError(c))
           /\ ReturnedError(c).at # "persist" /\ Continues(ReturnedError(c), c)
           /\ c.todo = <<>> => ReturnedError(c).job = NoJob
  <1>1. "error" \in Results
    BY DEF Results
  <1>2. CASE c.todo # <<>>
    BY <1>1, <1>2, NextItemWorks DEF ReturnedError
  <1>3. CASE c.todo = <<>>
    <2>1. ReturnedError(c) = [Idle EXCEPT !.result = "error"]
      BY <1>3 DEF ReturnedError
    <2> QED  BY <1>1, <2>1, EndedWorks DEF Continues
  <1> QED  BY <1>2, <1>3

LEMMA Holder ==
    ASSUME Safe, NEW t \in Tasks, lock = t
    PROVE  /\ ctx[t] \in Contexts /\ Works(ctx[t]) /\ ctx[t].at = "persist"
           /\ ctx[t].list \in Lists /\ ctx[t].next \in Nat
           /\ Written(ctx[t].list, ctx[t].next) /\ t # NoTask
  BY NoneAssumption DEF Safe, Control, Progress, Contexts

LEMMA PersistElemSteps ==
    ASSUME Safe, NEW t \in Tasks, PersistElem(t)
    PROVE  \E c : /\ Steps(t, c) /\ c.next = ctx[t].next + 1 /\ c.list = ctx[t].list
                  /\ c.todo = ctx[t].todo /\ c.forget = ctx[t].forget /\ c.from = ctx[t].from
                  /\ c.job = ctx[t].job /\ c.alone = ctx[t].alone /\ c.at = "persist"
  <1>1. PICK c : c = [ctx[t] EXCEPT !.next = @ + 1]
    OBVIOUS
  <1>2. lock = t /\ lock' = t /\ power' = "on"
    BY DEF PersistElem
  <1>3. ctx[t] \in Contexts /\ Works(ctx[t]) /\ ctx[t].at = "persist" /\ ctx[t].next \in Nat
    BY <1>2, Holder
  <1>4. /\ c \in Contexts /\ c.next = ctx[t].next + 1 /\ c.list = ctx[t].list
        /\ c.todo = ctx[t].todo /\ c.forget = ctx[t].forget /\ c.from = ctx[t].from
        /\ c.job = ctx[t].job /\ c.alone = ctx[t].alone /\ c.at = "persist"
    BY <1>1, <1>3 DEF Contexts
  <1>5. Works(c)
    BY <1>3, <1>4 DEF Works
  <1>6. ctx' = [ctx EXCEPT ![t] = c]
    BY <1>1 DEF PersistElem, Safe, Control
  <1>7. Steps(t, c)
    BY <1>2, <1>4, <1>5, <1>6 DEF Steps, Continues
  <1> QED  BY <1>4, <1>7

LEMMA ElemWritten ==
    ASSUME Safe, NEW t \in Tasks, PersistElem(t)
    PROVE  /\ DOMAIN kvElem' = Lists
           /\ \A l \in Lists, i \in Nat :
                kvElem'[l][i] = IF l = ctx[t].list /\ i = ctx[t].next THEN ram[l][i + 1] ELSE kvElem[l][i]
           /\ \A l \in Lists : kvElem'[l] \in [0 .. Cap(l) - 1 -> Recs \cup {NoRec}]
  <1>1. PICK k, n : k = ctx[t].list /\ n = ctx[t].next
    OBVIOUS
  <1>2. /\ k \in Lists /\ n \in Nat /\ n < Len(ram[k])
        /\ kvElem' = [kvElem EXCEPT ![k][n] = ram[k][n + 1]]
    BY <1>1, Holder DEF PersistElem
  <1>3. /\ ram[k] \in Seq(Recs) /\ Len(ram[k]) \in Nat /\ Len(ram[k]) <= Cap(k) /\ Cap(k) \in Nat
    BY <1>2, InTask, CapsAssumption DEF Cap
  <1>4. n \in 0 .. Cap(k) - 1 /\ n + 1 \in 1 .. Len(ram[k])
    BY <1>2, <1>3
  <1>5. PICK r \in Recs : r = ram[k][n + 1]
    BY <1>3, <1>4
  <1>6. DOMAIN kvElem = Lists /\ \A l \in Lists : kvElem[l] \in [0 .. Cap(l) - 1 -> Recs \cup {NoRec}]
    BY DEF Safe, Flash
  <1>7. DOMAIN kvElem' = Lists /\ kvElem'[k] = [kvElem[k] EXCEPT ![n] = r]
        /\ \A l \in Lists : l # k => kvElem'[l] = kvElem[l]
    BY <1>2, <1>5, <1>6
  <1>8. kvElem'[k] \in [0 .. Cap(k) - 1 -> Recs \cup {NoRec}]
        /\ kvElem'[k][n] = r /\ \A i \in Nat : i # n => kvElem'[k][i] = kvElem[k][i]
    <2>1. PICK f, D : f = kvElem[k] /\ D = 0 .. Cap(k) - 1
      OBVIOUS
    <2>2. f \in [D -> Recs \cup {NoRec}] /\ n \in D /\ kvElem'[k] = [f EXCEPT ![n] = r]
      BY <1>2, <1>4, <1>6, <1>7, <2>1
    <2>3. kvElem'[k] \in [D -> Recs \cup {NoRec}] /\ kvElem'[k][n] = r
      BY <2>2
    <2>4. ASSUME NEW i \in Nat, i # n PROVE kvElem'[k][i] = f[i]
      BY <2>2, <2>4
    <2> QED  BY <2>1, <2>3, <2>4
  <1> QED  BY <1>1, <1>2, <1>5, <1>6, <1>7, <1>8

LEMMA PersistElemSafe ==
    ASSUME Safe, NEW t \in Tasks, PersistElem(t)
    PROVE  Safe'
  <1>1. PICK c : Steps(t, c) /\ c.next = ctx[t].next + 1 /\ c.list = ctx[t].list
    BY PersistElemSteps
  <1>2. Control' /\ ctx'[t] = c
    BY <1>1, ControlKept DEF Safe
  <1>3. /\ lock = t /\ lock' = t /\ UNCHANGED <<power, ram, kvNum, lock, reported, linked, counters>>
        /\ ctx[t].next < Len(ram[ctx[t].list])
    BY DEF PersistElem
  <1>4. Memory'
    BY <1>3 DEF Safe, Memory, counters
  <1>5. Flash'
    BY <1>3, ElemWritten DEF Safe, Flash
  <1>6. PICK l \in Lists, n \in Nat : l = ctx[t].list /\ n = ctx[t].next /\ Written(l, n)
    BY <1>3, Holder
  <1>7. ram[l] \in Seq(Recs) /\ Len(ram[l]) \in Nat /\ n < Len(ram[l])
    BY <1>3, <1>6, InTask
  <1>8. Progress'
    <2>1. n + 1 <= Len(ram[l])
      BY <1>7
    <2>2. ASSUME NEW i \in 0 .. (n + 1) - 1 PROVE kvElem'[l][i] = ram[l][i + 1]
      <3>1. i \in Nat /\ (i = n \/ i \in 0 .. n - 1)
        BY <1>6
      <3>2. kvElem'[l][i] = IF i = n THEN ram[l][i + 1] ELSE kvElem[l][i]
        BY <1>6, <3>1, ElemWritten
      <3> QED  BY <1>6, <3>1, <3>2 DEF Written
    <2>3. ctx'[t].list = l /\ ctx'[t].next = n + 1
      BY <1>1, <1>2, <1>6
    <2> QED  BY <1>3, <2>1, <2>2, <2>3 DEF Progress, Written
  <1>9. LoadsOnlyWritten'
    <2>1. ASSUME NEW k \in Lists, NEW i \in 0 .. kvNum[k] - 1 PROVE kvElem'[k][i] # NoRec
      <3>1. kvElem[k][i] # NoRec /\ kvNum[k] \in Nat
        BY DEF Safe, LoadsOnlyWritten, Flash
      <3>2. ram[l][n + 1] \in Recs
        BY <1>7
      <3> QED  BY <1>6, <3>1, <3>2, ElemWritten, NoRecAssumption
    <2> QED  BY <1>3, <2>1 DEF LoadsOnlyWritten
  <1> QED  BY <1>2, <1>4, <1>5, <1>8, <1>9 DEF Safe

(* The end of persisting: the task returns, and the lock is free.          *)
Ends(t, c) ==
    /\ Steps(t, c) /\ lock = t /\ lock' = NoTask
    /\ UNCHANGED <<power, ram, kvElem, linked, jobs, crashes>>

LEMMA EndsSafe ==
    ASSUME Safe, NEW t \in Tasks, NEW c, Ends(t, c), Flash', LoadsOnlyWritten',
           reported' \in [Lists -> BOOLEAN], failures' \in Nat
    PROVE  Safe'
  <1>1. Control'
    BY ControlKept DEF Safe, Ends
  <1>2. Memory' /\ Progress'
    BY DEF Ends, Safe, Memory, Progress
  <1> QED  BY <1>1, <1>2 DEF Safe

LEMMA PersistNumEnds ==
    ASSUME Safe, NEW t \in Tasks, PersistNum(t)
    PROVE  /\ Ends(t, Returned(ctx[t])) /\ reported' = [reported EXCEPT ![ctx[t].list] = FALSE]
           /\ ctx[t].next = Len(ram[ctx[t].list]) /\ ctx[t].list \in Lists
           /\ \/ kvNum' = [kvNum EXCEPT ![ctx[t].list] = Len(ram[ctx[t].list])] /\ failures' = failures
              \/ kvNum' = kvNum /\ failures' = failures + 1
  <1>1. lock = t /\ lock' = NoTask /\ power' = "on" /\ NoTask \notin Tasks
    BY NoneAssumption DEF PersistNum
  <1>2. PICK c : c = Returned(ctx[t])
    OBVIOUS
  <1>3. c \in Contexts /\ Works(c) /\ c.at # "persist" /\ Continues(c, ctx[t])
    BY <1>1, <1>2, Holder, ReturnedWorks
  <1>4. ctx' = [ctx EXCEPT ![t] = c]
    BY <1>2 DEF PersistNum, Safe, Control
  <1>5. Steps(t, c)
    BY <1>1, <1>3, <1>4 DEF Steps
  <1>6. Ends(t, c)
    BY <1>1, <1>5 DEF Ends, PersistNum
  <1> QED  BY <1>1, <1>2, <1>6, Holder DEF PersistNum, CountIsNext, CountToSave

LEMMA PersistNumSafe ==
    ASSUME Safe, NEW t \in Tasks, PersistNum(t)
    PROVE  Safe'
  <1>1. PICK l \in Lists : l = ctx[t].list
    BY PersistNumEnds
  <1>2. /\ reported' = [reported EXCEPT ![l] = FALSE] /\ ctx[t].next = Len(ram[l])
        /\ \/ kvNum' = [kvNum EXCEPT ![l] = Len(ram[l])] /\ failures' = failures
           \/ kvNum' = kvNum /\ failures' = failures + 1
        /\ Ends(t, Returned(ctx[t]))
    BY <1>1, PersistNumEnds
  <1>3. /\ ram[l] \in Seq(Recs) /\ Len(ram[l]) \in Nat /\ Len(ram[l]) <= Cap(l) /\ kvElem' = kvElem
        /\ lock = t
    BY <1>2, InTask DEF Ends
  <1>4. Flash'
    BY <1>2, <1>3 DEF Safe, Flash
  <1>5. LoadsOnlyWritten'
    <2>1. Written(l, Len(ram[l]))
      BY <1>1, <1>2, <1>3, Holder
    <2>2. \A i \in 0 .. Len(ram[l]) - 1 : kvElem[l][i] # NoRec
      <3>1. ASSUME NEW i \in 0 .. Len(ram[l]) - 1 PROVE kvElem[l][i] # NoRec
        <4>1. i + 1 \in 1 .. Len(ram[l])
          BY <1>3
        <4>2. ram[l][i + 1] \in Recs
          BY <1>3, <4>1
        <4>3. kvElem[l][i] = ram[l][i + 1]
          BY <2>1 DEF Written
        <4> QED  BY <4>2, <4>3, NoRecAssumption
      <3> QED  BY <3>1
    <2>3. kvNum'[l] \in {Len(ram[l]), kvNum[l]} /\ \A k \in Lists : k # l => kvNum'[k] = kvNum[k]
      BY <1>2 DEF Safe, Flash
    <2> QED  BY <1>3, <2>2, <2>3 DEF Safe, LoadsOnlyWritten
  <1>6. reported' \in [Lists -> BOOLEAN] /\ failures' \in Nat
    BY <1>2 DEF Safe, Memory
  <1> QED  BY <1>2, <1>4, <1>5, <1>6, EndsSafe

LEMMA PersistFailsEnds ==
    ASSUME Safe, NEW t \in Tasks, PersistFails(t)
    PROVE  /\ Ends(t, ReturnedError(ctx[t])) /\ UNCHANGED kvNum
           /\ reported' = [reported EXCEPT ![ctx[t].list] = TRUE] /\ failures' = failures + 1
  <1>1. lock = t /\ lock' = NoTask /\ power' = "on" /\ NoTask \notin Tasks
    BY NoneAssumption DEF PersistFails
  <1>2. PICK c : c = ReturnedError(ctx[t])
    OBVIOUS
  <1>3. c \in Contexts /\ Works(c) /\ c.at # "persist" /\ Continues(c, ctx[t])
    BY <1>1, <1>2, Holder, ReturnedErrorWorks
  <1>4. ctx' = [ctx EXCEPT ![t] = c]
    BY <1>2 DEF PersistFails, Safe, Control
  <1>5. Steps(t, c)
    BY <1>1, <1>3, <1>4 DEF Steps
  <1>6. Ends(t, c)
    BY <1>1, <1>5 DEF Ends, PersistFails
  <1> QED  BY <1>2, <1>6 DEF PersistFails

LEMMA PersistFailsSafe ==
    ASSUME Safe, NEW t \in Tasks, PersistFails(t)
    PROVE  Safe'
  <1>1. /\ Ends(t, ReturnedError(ctx[t])) /\ UNCHANGED <<kvNum, kvElem>>
        /\ reported' = [reported EXCEPT ![ctx[t].list] = TRUE] /\ failures' = failures + 1
    BY PersistFailsEnds DEF Ends
  <1>2. Flash' /\ LoadsOnlyWritten'
    BY <1>1 DEF Safe, Flash, LoadsOnlyWritten
  <1>3. reported' \in [Lists -> BOOLEAN] /\ failures' \in Nat
    <2>1. PICK l, f : l = ctx[t].list /\ f = reported
      OBVIOUS
    <2>2. reported' = [f EXCEPT ![l] = TRUE] /\ f \in [Lists -> BOOLEAN] /\ failures \in Nat
      BY <1>1, <2>1 DEF Safe, Memory
    <2>3. [f EXCEPT ![l] = TRUE] \in [Lists -> BOOLEAN]
      BY <2>2, Zenon
    <2>4. failures' \in Nat
      BY <1>1, <2>2
    <2> QED  BY <2>2, <2>3, <2>4, Zenon
  <1> QED  BY <1>1, <1>2, <1>3, EndsSafe

-----------------------------------------------------------------------------
(* Power.                                                                  *)

LEMMA BootSafe ==
    ASSUME Safe, Boot
    PROVE  Safe' /\ (\A l \in Lists : Same(l)') /\ lock' = NoTask
  <1>1. /\ power = "off" /\ power' = "on" /\ lock = NoTask
        /\ ram' = [l \in Lists |-> Loaded(l)]
        /\ UNCHANGED <<kvNum, kvElem, lock, reported, ctx, linked, counters>>
    BY DEF Boot, Safe, Memory
  <1>2. ASSUME NEW l \in Lists
        PROVE  /\ ram'[l] \in Seq(Recs) /\ Len(ram'[l]) = kvNum[l]
               /\ \A i \in 1 .. kvNum[l] : ram'[l][i] = kvElem[l][i - 1]
    <2>1. PICK n, f : n = kvNum[l] /\ f = kvElem[l]
      OBVIOUS
    <2>2. n \in Nat /\ n <= Cap(l) /\ Cap(l) \in Nat /\ f \in [0 .. Cap(l) - 1 -> Recs \cup {NoRec}]
      BY <2>1, CapsAssumption DEF Safe, Flash, Cap
    <2>3. \A i \in 0 .. n - 1 : f[i] # NoRec
      BY <2>1 DEF Safe, LoadsOnlyWritten
    <2>4. ram'[l] = [i \in 1 .. n |-> f[i - 1]]
      BY <1>1, <2>1 DEF Loaded
    <2>5. \A i \in 1 .. n : f[i - 1] \in Recs
      <3>1. ASSUME NEW i \in 1 .. n PROVE f[i - 1] \in Recs
        <4>1. i - 1 \in 0 .. n - 1 /\ i - 1 \in 0 .. Cap(l) - 1
          BY <2>2
        <4> QED  BY <2>2, <2>3, <4>1
      <3> QED  BY <3>1
    <2>6. ram'[l] \in [1 .. n -> Recs]
      BY <2>4, <2>5
    <2>7. ram'[l] \in Seq(Recs)
      BY <2>2, <2>6
    <2>8. Len(ram'[l]) = n
      BY <2>2, <2>6, <2>7
    <2> QED  BY <2>1, <2>4, <2>7, <2>8
  <1>3. Memory'
    <2>1. ram' \in [Lists -> Seq(Recs)]
      BY <1>1, <1>2
    <2>2. \A l \in Lists : Len(ram'[l]) <= Cap(l)
      BY <1>2 DEF Safe, Flash
    <2> QED  BY <1>1, <2>1, <2>2 DEF Safe, Memory, counters
  <1>4. Flash' /\ LoadsOnlyWritten' /\ Control'
    BY <1>1 DEF Safe, Flash, LoadsOnlyWritten, Control
  <1>5. Progress'
    BY <1>1 DEF Progress
  <1>6. ASSUME NEW l \in Lists PROVE Same(l)'
    BY <1>1, <1>2 DEF Same
  <1> QED  BY <1>1, <1>3, <1>4, <1>5, <1>6 DEF Safe

LEMMA PowerFailSafe ==
    ASSUME Safe, PowerFail
    PROVE  Safe' /\ power' = "off" /\ lock' = NoTask /\ \A t \in Tasks : ctx'[t].job = NoJob
  <1>1. /\ power' = "off" /\ ram' = [l \in Lists |-> <<>>] /\ lock' = NoTask
        /\ ctx' = [t \in Tasks |-> Idle] /\ linked' = {} /\ reported' = [l \in Lists |-> FALSE]
        /\ crashes' = crashes + 1 /\ UNCHANGED <<kvNum, kvElem, jobs, failures>>
    BY DEF PowerFail
  <1>2. Memory'
    <2>1. <<>> \in Seq(Recs) /\ Len(<<>>) = 0
      OBVIOUS
    <2>2. \A l \in Lists : Cap(l) \in Nat
      BY CapsAssumption DEF Cap
    <2>3. ram' \in [Lists -> Seq(Recs)] /\ \A l \in Lists : ram'[l] = <<>> /\ Len(ram'[l]) <= Cap(l)
      BY <1>1, <2>1, <2>2
    <2>4. reported' \in [Lists -> BOOLEAN]
      BY <1>1
    <2> QED  BY <1>1, <2>3, <2>4 DEF Safe, Memory
  <1>3. Flash' /\ LoadsOnlyWritten'
    BY <1>1 DEF Safe, Flash, LoadsOnlyWritten
  <1>4. Control' /\ \A t \in Tasks : ctx'[t].job = NoJob
    <2>1. ctx' \in [Tasks -> Contexts] /\ \A t \in Tasks : ctx'[t] = Idle
      BY <1>1, IdleWorks
    <2> QED  BY <1>1, <2>1, IdleWorks, NoneAssumption DEF Control
  <1>5. Progress'
    BY <1>1 DEF Progress
  <1> QED  BY <1>1, <1>2, <1>3, <1>4, <1>5 DEF Safe

LEMMA SafeInit == Init => Safe
  <1> SUFFICES ASSUME Init PROVE Safe
    OBVIOUS
  <1>1. \A l \in Lists : Cap(l) \in Nat
    BY CapsAssumption DEF Cap
  <1>2. <<>> \in Seq(Recs) /\ Len(<<>>) = 0
    OBVIOUS
  <1>3. Memory
    <2>1. ram \in [Lists -> Seq(Recs)] /\ \A l \in Lists : ram[l] = <<>> /\ Len(ram[l]) <= Cap(l)
      BY <1>1, <1>2 DEF Init
    <2>2. reported \in [Lists -> BOOLEAN]
      BY DEF Init
    <2> QED  BY <2>1, <2>2 DEF Init, Memory
  <1>4. Flash /\ LoadsOnlyWritten
    BY <1>1 DEF Init, Flash, LoadsOnlyWritten
  <1>5. Control
    <2>1. ctx \in [Tasks -> Contexts] /\ \A t \in Tasks : ctx[t] = Idle
      BY IdleWorks DEF Init
    <2> QED  BY <2>1, IdleWorks, NoneAssumption DEF Init, Control
  <1>6. Progress
    BY DEF Init, Progress
  <1> QED  BY <1>3, <1>4, <1>5, <1>6 DEF Safe

(* Every step of a task is one of these.                                   *)
LEMMA TaskSteps ==
    ASSUME Safe, NEW t \in Tasks, TaskStep(t)
    PROVE  \/ TryWrite(t) \/ Deletes(t) \/ (\E c : Quiet(t, c))
           \/ PersistElem(t) \/ PersistNum(t) \/ PersistFails(t)
  BY OverflowQuiet, ScanVictimQuiet, DeletedAllQuiet, DeleteKeyQuiet DEF TaskStep, Deletes

LEMMA NextSteps ==
    ASSUME Next
    PROVE  Boot \/ PowerFail \/ \E t \in Tasks : NewJob(t) \/ TaskStep(t)
  BY DEF Next, NewJob

LEMMA SafeStep == Safe /\ [Next]_vars => Safe'
  <1> SUFFICES ASSUME Safe, [Next]_vars PROVE Safe'
    OBVIOUS
  <1>1. CASE UNCHANGED vars
    BY <1>1 DEF vars, storeVars, counters, Safe, Memory, Flash, Control, Progress, Written, LoadsOnlyWritten
  <1>2. CASE Boot \/ PowerFail
    BY <1>2, BootSafe, PowerFailSafe
  <1>3. ASSUME NEW t \in Tasks, NewJob(t) PROVE Safe'
    BY <1>3, NewJobStarts, StartSafe
  <1>4. ASSUME NEW t \in Tasks, TaskStep(t) PROVE Safe'
    <2>1. CASE TryWrite(t)
      BY <2>1, TryWriteBegins, BeginsSafe DEF Fits
    <2>2. CASE Deletes(t)
      BY <2>2, DeletesBegins, BeginsSafe DEF Fits
    <2>3. CASE \E c : Quiet(t, c)
      BY <2>3, QuietSafe DEF Quiet
    <2> QED  BY <1>4, <2>1, <2>2, <2>3, TaskSteps, PersistElemSafe, PersistNumSafe, PersistFailsSafe
  <1> QED  BY <1>1, <1>2, <1>3, <1>4, NextSteps

LEMMA SafeAlways == Spec => []Safe
  BY SafeInit, SafeStep, PTL DEF Spec

(* The lists and the counts on flash stay within their capacities          *)
(* (BLE_STORE_MAX_BONDS, BLE_STORE_MAX_CCCDS) and the state keeps its      *)
(* types, over any number of jobs, failed writes and power failures.       *)
THEOREM TypeCorrect == Spec => []TypeOK
  <1>1. Safe => TypeOK
    <2> SUFFICES ASSUME Safe PROVE TypeOK
      OBVIOUS
    <2>1. ram \in [Lists -> Seq(Recs \cup {NoRec})]
      BY DEF Safe, Memory
    <2>2. \A l \in Lists : Len(ram[l]) <= Cap(l) /\ kvNum[l] \in 0 .. Cap(l)
      BY CapsAssumption DEF Safe, Memory, Flash, Cap
    <2> QED  BY <2>1, <2>2 DEF Safe, Memory, Flash, Control, TypeOK
  <1> QED  BY <1>1, SafeAlways, PTL

(* The count on flash never runs ahead of the elements:                    *)
(* ble_store_config_conf_load, which ignores a failed read, never meets a  *)
(* missing key, whatever writes failed and whenever power did.             *)
THEOREM LoadsOnlyWrittenAlways == Spec => []LoadsOnlyWritten
  <1>1. Safe => LoadsOnlyWritten
    BY DEF Safe
  <1> QED  BY <1>1, SafeAlways, PTL

-----------------------------------------------------------------------------
(* RAM and flash, as long as no write fails.                               *)

LEMMA ListFacts ==
    ASSUME Safe, NEW l \in Lists
    PROVE  ram[l] \in Seq(Recs) /\ Len(ram[l]) \in Nat /\ kvNum[l] \in Nat
  BY DEF Safe, Memory, Flash

LEMMA StartMirror ==
    ASSUME Safe, InFlight, AtRest, NEW t \in Tasks, NEW c, Starts(c), StartJob(t, c)
    PROVE  InFlight' /\ AtRest'
  <1>1. /\ UNCHANGED <<power, ram, kvNum, kvElem, lock>> /\ lock # t
    BY DEF StartJob, storeVars, Safe, Control, Works
  <1>2. lock # NoTask => Alike(ctx[lock], ctx'[lock])
    BY <1>1, StartKept DEF Safe, Control
  <1>3. ASSUME NEW l, NEW r, Writing(l, r) PROVE Writing(l, r)'
    BY <1>1, <1>2, <1>3 DEF Writing, Alike
  <1>4. \A l, i : Copied(l, i) => Copied(l, i)'
    BY <1>1, <1>3 DEF Copied
  <1>5. \A l, i : Ahead(l, i) => Ahead(l, i)'
    BY <1>1, <1>3 DEF Ahead, Kept, Moved
  <1>6. \A l : Same(l) => Same(l)'
    BY <1>1 DEF Same
  <1>7. InFlight'
    BY <1>1, <1>2, <1>4, <1>5 DEF InFlight, Alike
  <1>8. AtRest'
    BY <1>1, <1>2, <1>6 DEF AtRest, Alike
  <1> QED  BY <1>7, <1>8

LEMMA BeginsFlight ==
    ASSUME Safe, AtRest, NEW t \in Tasks, NEW l \in Lists, NEW s \in Seq(Recs), Begins(t, l, s)
    PROVE  /\ AtRest' /\ Same(l) /\ lock' = t /\ UNCHANGED <<kvNum, kvElem>>
           /\ ram'[l] = s /\ ctx'[t].list = l /\ ctx'[t].next = 0
           /\ ctx'[t].todo = ctx[t].todo /\ ctx'[t].forget = ctx[t].forget
           /\ (\A i \in 1 .. Len(s) : Ahead(l, i)') => InFlight'
  <1>1. PICK c : /\ Steps(t, c) /\ c.list = l /\ c.next = 0 /\ c.todo = ctx[t].todo
                 /\ c.forget = ctx[t].forget
    BY BeginsSteps
  <1>2. ctx'[t] = c
    BY <1>1, ControlKept DEF Safe
  <1>3. /\ power = "on" /\ lock = NoTask /\ lock' = t /\ UNCHANGED <<kvNum, kvElem>>
        /\ ram' = [ram EXCEPT ![l] = s]
    BY DEF Begins, StartPersist
  <1>4. ram'[l] = s /\ \A k \in Lists : k # l => ram'[k] = ram[k]
    BY <1>3 DEF Safe, Memory
  <1>5. \A k \in Lists : Same(k)
    BY <1>3 DEF AtRest
  <1>6. \A k \in Lists : k # l => Same(k)'
    BY <1>3, <1>4, <1>5 DEF Same
  <1>7. AtRest'
    BY <1>1, <1>2, <1>3, <1>6, NoneAssumption DEF AtRest
  <1>8. ASSUME \A i \in 1 .. Len(s) : Ahead(l, i)' PROVE InFlight'
    <2>1. lock' = t /\ ctx'[lock'].list = l /\ ctx'[lock'].next = 0 /\ ram'[l] = s
      BY <1>1, <1>2, <1>3, <1>4
    <2>2. /\ \A i \in 1 .. 0 : Copied(l, i)'
          /\ \A i \in 0 + 1 .. Len(s) : Ahead(l, i)'
      BY <1>8
    <2> QED  BY <2>1, <2>2 DEF InFlight
  <1> QED  BY <1>1, <1>2, <1>3, <1>4, <1>5, <1>7, <1>8

LEMMA TryWriteMirror ==
    ASSUME Safe, AtRest, NEW t \in Tasks, TryWrite(t)
    PROVE  InFlight' /\ AtRest'
  <1>1. PICK l \in Lists, r \in Recs :
              /\ Begins(t, l, Placed(ram[l], r)) /\ Fits(l, Placed(ram[l], r))
              /\ ctx[t].todo # <<>> /\ Head(ctx[t].todo) = Item(l, r) /\ ctx[t].forget = NoPeer
    BY TryWriteBegins
  <1>2. PICK s : s = Placed(ram[l], r)
    OBVIOUS
  <1>3. /\ s \in Seq(Recs) /\ Begins(t, l, s)
        /\ \A i \in 1 .. Len(s) : s[i] = r \/ (i <= Len(ram[l]) /\ s[i] = ram[l][i])
    BY <1>1, <1>2, PlacedRecords, ListFacts DEF Fits
  <1>4. /\ AtRest' /\ Same(l) /\ lock' = t /\ UNCHANGED <<kvNum, kvElem>>
        /\ ram'[l] = s /\ ctx'[t].list = l /\ ctx'[t].todo = ctx[t].todo /\ ctx'[t].forget = ctx[t].forget
        /\ (\A i \in 1 .. Len(s) : Ahead(l, i)') => InFlight'
    BY <1>3, BeginsFlight
  <1>5. Writing(l, r)'
    BY <1>1, <1>4, NoneAssumption DEF Writing
  <1>6. ASSUME NEW i \in 1 .. Len(s) PROVE Ahead(l, i)'
    <2>1. CASE s[i] = r
      BY <1>4, <1>5, <2>1 DEF Ahead
    <2>2. CASE i <= Len(ram[l]) /\ s[i] = ram[l][i]
      <3>1. i \in 1 .. Len(ram[l])
        BY <2>2, ListFacts
      <3> QED  BY <1>4, <2>2, <3>1 DEF Ahead, Kept, Same
    <2> QED  BY <1>3, <2>1, <2>2
  <1> QED  BY <1>4, <1>6

LEMMA DeletesMirror ==
    ASSUME Safe, AtRest, NEW t \in Tasks, Deletes(t)
    PROVE  InFlight' /\ AtRest'
  <1>1. PICK l \in Lists : \E n \in 1 .. Len(ram[l]) :
              Begins(t, l, Removed(ram[l], n)) /\ Fits(l, Removed(ram[l], n))
    BY DeletesBegins
  <1>2. PICK n \in 1 .. Len(ram[l]) :
              Begins(t, l, Removed(ram[l], n)) /\ Fits(l, Removed(ram[l], n))
    BY <1>1
  <1>3. PICK s : s = Removed(ram[l], n)
    OBVIOUS
  <1>4. ram[l] \in Seq(Recs) /\ Len(ram[l]) \in Nat
    BY ListFacts
  <1>5. /\ s \in Seq(Recs) /\ Begins(t, l, s) /\ Len(s) = Len(ram[l]) - 1
        /\ \A i \in 1 .. Len(ram[l]) - 1 : s[i] = ram[l][i] \/ s[i] = ram[l][i + 1]
    BY <1>2, <1>3, <1>4, RemovedRecords DEF Fits
  <1>6. /\ AtRest' /\ Same(l) /\ UNCHANGED <<kvNum, kvElem>> /\ ram'[l] = s
        /\ (\A i \in 1 .. Len(s) : Ahead(l, i)') => InFlight'
    BY <1>5, BeginsFlight
  <1>7. ASSUME NEW i \in 1 .. Len(s) PROVE Ahead(l, i)'
    <2>1. /\ i \in 1 .. Len(ram[l]) /\ i + 1 \in 1 .. Len(ram[l]) /\ i < Len(ram[l])
          /\ i \in 1 .. Len(ram[l]) - 1 /\ (i + 1) - 1 = i
      BY <1>4, <1>5
    <2>2. kvNum[l] = Len(ram[l]) /\ kvElem[l][i - 1] = ram[l][i] /\ kvElem[l][i] = ram[l][i + 1]
      <3>1. kvElem[l][(i + 1) - 1] = ram[l][i + 1]
        BY <1>6, <2>1 DEF Same
      <3> QED  BY <1>6, <2>1, <3>1 DEF Same
    <2>3. CASE s[i] = ram[l][i]
      BY <1>6, <2>1, <2>2, <2>3 DEF Ahead, Kept
    <2>4. CASE s[i] = ram[l][i + 1]
      BY <1>6, <2>1, <2>2, <2>4 DEF Ahead, Moved
    <2> QED  BY <1>5, <2>1, <2>3, <2>4
  <1> QED  BY <1>6, <1>7

LEMMA PersistElemMirror ==
    ASSUME Safe, InFlight, AtRest, NEW t \in Tasks, PersistElem(t)
    PROVE  InFlight' /\ AtRest'
  <1>1. PICK c : /\ Steps(t, c) /\ c.next = ctx[t].next + 1 /\ c.list = ctx[t].list
                 /\ c.todo = ctx[t].todo /\ c.forget = ctx[t].forget
    BY PersistElemSteps
  <1>2. ctx'[t] = c
    BY <1>1, ControlKept DEF Safe
  <1>3. /\ lock = t /\ lock' = t /\ power = "on" /\ UNCHANGED <<ram, kvNum>> /\ t # NoTask
        /\ ctx[t].next < Len(ram[ctx[t].list])
    BY NoneAssumption DEF PersistElem
  <1>4. PICK l \in Lists, n \in Nat : l = ctx[t].list /\ n = ctx[t].next
    BY <1>3, Holder
  <1>5. \A k \in Lists, i \in Nat :
           kvElem'[k][i] = IF k = l /\ i = n THEN ram[k][i + 1] ELSE kvElem[k][i]
    BY <1>4, ElemWritten
  <1>6. Len(ram[l]) \in Nat /\ n < Len(ram[l]) /\ kvNum[l] \in Nat
    BY <1>3, <1>4, ListFacts
  <1>7. \A r : Writing(l, r) => Writing(l, r)'
    BY <1>1, <1>2, <1>3 DEF Writing
  <1>8. /\ \A i \in 1 .. n : Copied(l, i)
        /\ \A i \in n + 1 .. Len(ram[l]) : Ahead(l, i)
    BY <1>3, <1>4 DEF InFlight
  <1>9. ASSUME NEW i \in 1 .. n + 1 PROVE Copied(l, i)'
    <2>1. Copied(l, i)
      <3>1. CASE i \in 1 .. n
        BY <1>8, <3>1
      <3>2. CASE i = n + 1
        <4>1. Ahead(l, i)
          BY <1>6, <1>8, <3>2
        <4> QED  BY <1>6, <4>1 DEF Ahead, Copied, Kept, Moved
      <3> QED  BY <3>1, <3>2
    <2> QED  BY <1>3, <1>7, <2>1 DEF Copied
  <1>10. ASSUME NEW i \in (n + 1) + 1 .. Len(ram[l]) PROVE Ahead(l, i)'
    <2>1. i \in Nat /\ i - 1 \in Nat /\ i - 1 # n /\ i # n /\ i \in n + 1 .. Len(ram[l])
      BY <1>6
    <2>2. kvElem'[l][i] = kvElem[l][i] /\ kvElem'[l][i - 1] = kvElem[l][i - 1]
      BY <1>5, <2>1
    <2>3. Ahead(l, i)
      BY <1>8, <2>1
    <2> QED  BY <1>3, <1>7, <2>2, <2>3 DEF Ahead, Kept, Moved
  <1>11. InFlight'
    <2>1. lock' = t /\ ctx'[lock'].list = l /\ ctx'[lock'].next = n + 1 /\ ram' = ram
      BY <1>1, <1>2, <1>3, <1>4
    <2> QED  BY <1>9, <1>10, <2>1 DEF InFlight
  <1>12. AtRest'
    <2>1. ASSUME NEW k \in Lists, k # l PROVE Same(k)'
      <3>1. Same(k) /\ Len(ram[k]) \in Nat
        BY <1>3, <1>4, <2>1, ListFacts DEF AtRest
      <3>2. \A i \in 1 .. Len(ram[k]) : kvElem'[k][i - 1] = kvElem[k][i - 1]
        BY <1>5, <2>1, <3>1
      <3> QED  BY <1>3, <3>1, <3>2 DEF Same
    <2> QED  BY <1>1, <1>2, <1>3, <1>4, <2>1 DEF AtRest
  <1> QED  BY <1>11, <1>12

LEMMA PersistNumMirror ==
    ASSUME Safe, AtRest, NEW t \in Tasks, PersistNum(t), failures' = failures
    PROVE  InFlight' /\ AtRest'
  <1>1. PICK l \in Lists : l = ctx[t].list
    BY PersistNumEnds
  <1>2. /\ kvNum' = [kvNum EXCEPT ![l] = Len(ram[l])] /\ ctx[t].next = Len(ram[l])
        /\ lock = t /\ lock' = NoTask /\ UNCHANGED <<ram, kvElem>> /\ t # NoTask /\ power = "on"
    <2>1. failures' # failures + 1
      BY DEF Safe, Memory
    <2> QED  BY <1>1, <2>1, PersistNumEnds, NoneAssumption DEF Ends, PersistNum
  <1>3. Written(l, Len(ram[l])) /\ Len(ram[l]) \in Nat
    BY <1>1, <1>2, Holder, ListFacts
  <1>4. kvNum'[l] = Len(ram[l]) /\ \A k \in Lists : k # l => kvNum'[k] = kvNum[k]
    BY <1>2 DEF Safe, Flash
  <1>5. Same(l)'
    <2>1. ASSUME NEW i \in 1 .. Len(ram[l]) PROVE kvElem[l][i - 1] = ram[l][i]
      <3>1. i - 1 \in 0 .. Len(ram[l]) - 1 /\ (i - 1) + 1 = i
        BY <1>3
      <3> QED  BY <1>3, <3>1 DEF Written
    <2> QED  BY <1>2, <1>4, <2>1 DEF Same
  <1>6. ASSUME NEW k \in Lists, k # l PROVE Same(k)'
    BY <1>1, <1>2, <1>4, <1>6 DEF AtRest, Same
  <1> QED  BY <1>2, <1>5, <1>6 DEF InFlight, AtRest

LEMMA MirrorStep == Safe /\ Mirror /\ [Next]_vars => Mirror'
  <1> SUFFICES ASSUME Safe, Mirror, [Next]_vars, failures' = 0 PROVE InFlight' /\ AtRest'
    BY DEF Mirror
  <1>0. failures \in Nat
    BY DEF Safe, Memory
  <1>1. CASE UNCHANGED vars
    <2>1. UNCHANGED <<power, ram, kvNum, kvElem, lock, ctx, failures>>
      BY <1>1 DEF vars, storeVars, counters
    <2>2. InFlight /\ AtRest
      BY <2>1 DEF Mirror
    <2> QED  BY <2>1, <2>2 DEF InFlight, AtRest, Copied, Ahead, Kept, Moved, Same, Writing
  <1>2. CASE Boot
    BY <1>2, BootSafe DEF InFlight, AtRest
  <1>3. CASE PowerFail
    BY <1>3, PowerFailSafe DEF InFlight, AtRest
  <1>4. ASSUME NEW t \in Tasks, NewJob(t) PROVE InFlight' /\ AtRest'
    <2>1. PICK c : Starts(c) /\ StartJob(t, c)
      BY <1>4, NewJobStarts
    <2>2. failures = 0
      BY <2>1 DEF StartJob
    <2> QED  BY <2>1, <2>2, StartMirror DEF Mirror
  <1>5. ASSUME NEW t \in Tasks, TaskStep(t) PROVE InFlight' /\ AtRest'
    <2>1. CASE TryWrite(t)
      <3>1. failures = 0
        BY <2>1 DEF TryWrite, counters
      <3> QED  BY <2>1, <3>1, TryWriteMirror DEF Mirror
    <2>2. CASE Deletes(t)
      <3>1. failures = 0
        BY <2>2 DEF Deletes, DeleteKey, DeleteOne, counters
      <3> QED  BY <2>2, <3>1, DeletesMirror DEF Mirror
    <2>3. CASE \E c : Quiet(t, c)
      <3>1. /\ UNCHANGED <<power, ram, kvNum, kvElem, lock, failures>> /\ lock = NoTask
        BY <2>3 DEF Quiet, storeVars, counters
      <3>2. \A l : Same(l) => Same(l)'
        BY <3>1 DEF Same
      <3> QED  BY <3>1, <3>2 DEF Mirror, InFlight, AtRest
    <2>4. CASE PersistElem(t)
      <3>1. failures = 0
        BY <2>4 DEF PersistElem, counters
      <3> QED  BY <2>4, <3>1, PersistElemMirror DEF Mirror
    <2>5. CASE PersistNum(t)
      <3>1. failures' = failures
        BY <1>0, <2>5, PersistNumEnds
      <3> QED  BY <2>5, <3>1, PersistNumMirror DEF Mirror
    <2>6. CASE PersistFails(t)
      BY <1>0, <2>6, PersistFailsEnds
    <2> QED  BY <1>5, <2>1, <2>2, <2>3, <2>4, <2>5, <2>6, TaskSteps
  <1> QED  BY <1>1, <1>2, <1>3, <1>4, <1>5, NextSteps

LEMMA MirrorAlways == Spec => [](Safe /\ Mirror)
  <1>1. Init => Mirror
    BY DEF Init, Mirror, InFlight, AtRest
  <1>2. Safe /\ Mirror /\ [Next]_vars => (Safe /\ Mirror)'
    BY SafeStep, MirrorStep
  <1> QED  BY <1>1, <1>2, SafeInit, PTL DEF Spec

LEMMA SameLoaded ==
    ASSUME Safe, NEW l \in Lists, Same(l)
    PROVE  Loaded(l) = ram[l]
  <1>1. PICK n, s, f : n = kvNum[l] /\ s = ram[l] /\ f = kvElem[l]
    OBVIOUS
  <1>2. s \in Seq(Recs) /\ n = Len(s) /\ \A i \in 1 .. n : f[i - 1] = s[i]
    BY <1>1, ListFacts DEF Same
  <1>3. s = [i \in 1 .. n |-> s[i]]
    BY <1>2
  <1>4. [i \in 1 .. n |-> f[i - 1]] = s
    BY <1>2, <1>3
  <1> QED  BY <1>1, <1>4 DEF Loaded

(* When ble_store_config_write and _delete have returned 0, with no failed *)
(* write, a reboot loads exactly what is in RAM.                           *)
THEOREM AckMeansDurableAlways == Spec => []AckMeansDurable
  <1>1. Safe /\ Mirror => AckMeansDurable
    BY SameLoaded DEF Mirror, AtRest, AckMeansDurable
  <1> QED  BY <1>1, MirrorAlways, PTL

(* A power failure at any moment, between any two of the writes that       *)
(* persist a list, keeps every record that the operation in progress does  *)
(* not write: shorter and longer lists alike, and no failed write.         *)
THEOREM SurvivesCrashAlways == Spec => []SurvivesCrash
  <1>1. Safe /\ Mirror => SurvivesCrash
    <2> SUFFICES ASSUME Safe, Mirror, failures = 0, NEW l \in Lists, NEW i \in DOMAIN ram[l]
                 PROVE  ram[l][i] \in Range(Loaded(l)) \/ Writing(l, ram[l][i])
      BY DEF SurvivesCrash
    <2>1. /\ ram[l] \in Seq(Recs) /\ Len(ram[l]) \in Nat /\ i \in 1 .. Len(ram[l]) /\ kvNum[l] \in Nat
          /\ InFlight /\ AtRest
      BY ListFacts DEF Mirror
    <2>2. power = "on"
      BY DEF Safe, Memory
    <2>3. DOMAIN Loaded(l) = 1 .. kvNum[l] /\ \A j \in 1 .. kvNum[l] : Loaded(l)[j] = kvElem[l][j - 1]
      BY DEF Loaded
    <2>4. ASSUME NEW j \in 1 .. kvNum[l], kvElem[l][j - 1] = ram[l][i] PROVE ram[l][i] \in Range(Loaded(l))
      BY <2>3, <2>4 DEF Range
    <2>5. CASE lock = NoTask \/ ctx[lock].list # l
      BY <2>1, <2>2, <2>4, <2>5 DEF AtRest, Same
    <2>6. CASE lock # NoTask /\ ctx[lock].list = l
      <3>1. lock \in Tasks
        BY <2>6 DEF Safe, Control
      <3>2. PICK n \in Nat : n = ctx[lock].next /\ Written(l, n)
        BY <2>6, <3>1, Holder
      <3>3. CASE i <= n
        <4>1. i \in 1 .. n /\ i - 1 \in 0 .. n - 1 /\ (i - 1) + 1 = i
          BY <2>1, <3>2, <3>3
        <4>2. Copied(l, i) /\ kvElem[l][i - 1] = ram[l][i]
          BY <2>1, <2>6, <3>2, <4>1 DEF InFlight, Written
        <4> QED  BY <2>1, <2>4, <4>2 DEF Copied
      <3>4. CASE ~(i <= n)
        <4>1. Ahead(l, i)
          <5>1. i \in n + 1 .. Len(ram[l])
            BY <2>1, <3>2, <3>4
          <5> QED  BY <2>1, <2>6, <3>2, <5>1 DEF InFlight
        <4>2. Kept(l, i) => ram[l][i] \in Range(Loaded(l))
          BY <2>1, <2>4 DEF Kept
        <4>3. Moved(l, i) => ram[l][i] \in Range(Loaded(l))
          <5> SUFFICES ASSUME Moved(l, i) PROVE ram[l][i] \in Range(Loaded(l))
            OBVIOUS
          <5>1. i + 1 \in 1 .. kvNum[l] /\ (i + 1) - 1 = i
            BY <2>1 DEF Moved
          <5> QED  BY <2>4, <5>1 DEF Moved
        <4> QED  BY <4>1, <4>2, <4>3 DEF Ahead
      <3> QED  BY <3>3, <3>4
    <2> QED  BY <2>5, <2>6
  <1> QED  BY <1>1, MirrorAlways, PTL

-----------------------------------------------------------------------------
(* Forgetting a peer.                                                      *)

LEMMA NotTheirs ==
    ASSUME Safe, NEW u \in Tasks, ctx[u].job = NoJob
    PROVE  ~TaskStep(u)
  <1>1. ctx[u].at = "idle" /\ lock # u
    BY DEF Safe, Control, Works
  <1> QED  BY <1>1 DEF TaskStep, TryWrite, Overflow, ScanVictim, DeleteKey, DeleteOne, DeletedAll,
                       PersistElem, PersistNum, PersistFails

(* Whose step is it?                                                       *)
LEMMA TaskStepsAre ==
    ASSUME Safe, NEW u \in Tasks, TaskStep(u)
    PROVE  \E c : Steps(u, c)
  <1>1. CASE TryWrite(u)
    BY <1>1, TryWriteBegins, BeginsSteps
  <1>2. CASE Deletes(u)
    BY <1>2, DeletesBegins, BeginsSteps
  <1>3. CASE \E c : Quiet(u, c)
    BY <1>3 DEF Quiet
  <1>4. CASE PersistElem(u)
    BY <1>4, PersistElemSteps
  <1>5. CASE PersistNum(u)
    BY <1>5, PersistNumEnds DEF Ends
  <1>6. CASE PersistFails(u)
    BY <1>6, PersistFailsEnds DEF Ends
  <1> QED  BY <1>1, <1>2, <1>3, <1>4, <1>5, <1>6, TaskSteps

(* A step of the task that forgets a peer.                                 *)
LEMMA ForgetSteps ==
    ASSUME Safe, NEW t \in Tasks, Forgets(t), TaskStep(t)
    PROVE  DeleteOne(t) \/ DeletedAll(t) \/ PersistElem(t) \/ PersistNum(t) \/ PersistFails(t)
  BY DEF Forgets, TaskStep, TryWrite, Overflow, ScanVictim, DeleteKey

LEMMA OthersStay ==
    ASSUME Safe, NEW t \in Tasks, Forgets(t), TaskStep(t)
    PROVE  \A u \in Tasks : u # t => ctx'[u].job = NoJob
  BY TaskStepsAre, ControlKept DEF Safe, Forgets

LEMMA GoneKept ==
    ASSUME NEW l, NEW p, Gone(l, p), ram'[l] = ram[l]
    PROVE  Gone(l, p)'
  BY DEF Gone

LEMMA NowGone ==
    ASSUME Safe, NEW l \in Lists, NEW p
    PROVE  Find(ram[l], p, AnyId) = 0 <=> Gone(l, p)
  BY ListFacts, FindFinds DEF Gone

LEMMA ForgetsStep ==
    ASSUME Safe, NEW t \in Tasks, Forgets(t), TaskStep(t), ctx'[t].job # NoJob
    PROVE  Forgets(t)'
  <1>1. PICK d : d = ctx[t]
    OBVIOUS
  <1>2. /\ d.at \in {"unpair", "persist"} /\ d.todo = <<>> /\ d.forget # NoPeer
        /\ d.at = "persist" => d.list = d.from
        /\ d.from # "our" => Gone("our", d.forget)
        /\ d.from = "cccd" => Gone("peer", d.forget)
        /\ d \in Contexts /\ d.from \in Lists
    BY <1>1, InTask DEF Forgets
  <1>3. \A u \in Tasks : u # t => ctx'[u].job = NoJob
    BY OthersStay
  <1>4. "our" \in Lists /\ "peer" \in Lists /\ "cccd" \in Lists
    BY DEF Lists
  <1>5. CASE DeleteOne(t)
    <2>1. d.at = "unpair"
      BY <1>1, <1>5 DEF DeleteOne
    <2>2. PICK l \in Lists : \E n : Begins(t, l, Removed(ram[l], n)) /\ l = d.from
      BY <1>1, <1>5, <2>1, DeletesBegins DEF Deletes
    <2>3. PICK n : Begins(t, l, Removed(ram[l], n)) /\ l = d.from
      BY <2>2
    <2>4. PICK c : /\ Steps(t, c) /\ c.list = l /\ c.todo = d.todo /\ c.forget = d.forget
                   /\ c.from = d.from /\ c.at = "persist"
      BY <1>1, <2>3, BeginsSteps
    <2>5. ctx'[t] = c
      BY <2>4, ControlKept DEF Safe
    <2>6. \A k \in Lists : k # l => ram'[k] = ram[k]
      BY <2>3 DEF Begins, Safe, Memory
    <2>7. d.from # "our" => Gone("our", d.forget)'
      BY <1>2, <1>4, <2>3, <2>6, GoneKept
    <2>8. d.from = "cccd" => Gone("peer", d.forget)'
      BY <1>2, <1>4, <2>3, <2>6, GoneKept
    <2>9. ctx'[t].forget = d.forget /\ ctx'[t].from = d.from
      BY <2>4, <2>5
    <2>10. /\ ctx'[t].from # "our" => Gone("our", ctx[t].forget)'
           /\ ctx'[t].from = "cccd" => Gone("peer", ctx[t].forget)'
      BY <2>7, <2>8, <2>9 DEF Gone
    <2> QED  BY <1>2, <1>3, <2>3, <2>4, <2>5, <2>10 DEF Forgets
  <1>6. CASE DeletedAll(t)
    <2>1. PICK c : /\ Quiet(t, c)
                   /\ \/ /\ Follows(c, d) /\ c.at = "unpair" /\ c.todo = d.todo /\ c.forget = d.forget
                      \/ d.from = "cccd" /\ (d.todo = <<>> => c.job = NoJob)
      BY <1>1, <1>6, DeletedAllQuiet
    <2>2. ctx'[t] = c /\ ram' = ram
      BY <2>1, ControlKept DEF Quiet, Safe, storeVars
    <2>3. Follows(c, d) /\ c.at = "unpair" /\ c.todo = d.todo /\ c.forget = d.forget
      BY <1>2, <2>1, <2>2
    <2>4. Gone(d.from, d.forget)
      BY <1>1, <1>2, <1>6, NowGone DEF DeletedAll
    <2>5. Gone("our", d.forget) /\ (c.from = "cccd" => Gone("peer", d.forget))
      BY <1>2, <2>3, <2>4 DEF Follows
    <2>6. ctx'[t].forget = d.forget
      BY <2>2, <2>3
    <2>7. Gone("our", ctx[t].forget)' /\ (c.from = "cccd" => Gone("peer", ctx[t].forget)')
      BY <2>2, <2>5, <2>6 DEF Gone
    <2> QED  BY <1>2, <1>3, <2>2, <2>3, <2>7 DEF Forgets
  <1>7. ASSUME NEW c, ctx'[t] = c, c.at \in {"unpair", "persist"}, c.todo = d.todo, c.from = d.from,
               c.forget = d.forget, c.at = "persist" => c.list = d.list /\ d.at = "persist", ram' = ram
        PROVE  Forgets(t)'
    <2>1. ctx'[t].forget = d.forget /\ ctx'[t].from = d.from
      BY <1>7
    <2>2. /\ ctx'[t].from # "our" => Gone("our", ctx[t].forget)'
          /\ ctx'[t].from = "cccd" => Gone("peer", ctx[t].forget)'
      BY <1>2, <1>7, <2>1 DEF Gone
    <2> QED  BY <1>2, <1>3, <1>7, <2>2 DEF Forgets
  <1>8. CASE PersistElem(t)
    <2>1. PICK c : /\ Steps(t, c) /\ c.list = d.list /\ c.todo = d.todo /\ c.forget = d.forget
                   /\ c.from = d.from /\ c.at = "persist"
      BY <1>1, <1>8, PersistElemSteps
    <2>2. ctx'[t] = c /\ ram' = ram /\ d.at = "persist"
      BY <1>1, <1>8, <2>1, ControlKept, Holder DEF Safe, PersistElem
    <2> QED  BY <1>7, <2>1, <2>2
  <1>9. CASE PersistNum(t)
    <2>1. Ends(t, Returned(d)) /\ lock = t
      BY <1>1, <1>9, PersistNumEnds DEF Ends
    <2>2. ctx'[t] = Returned(d) /\ ram' = ram
      BY <2>1, ControlKept DEF Ends, Safe
    <2>3. /\ Returned(d).at = "unpair" /\ Returned(d).todo = d.todo
          /\ Returned(d).forget = d.forget /\ Returned(d).from = d.from
      BY <1>1, <1>2, <2>1, Holder, ReturnedWorks
    <2> QED  BY <1>7, <2>2, <2>3
  <1>10. CASE PersistFails(t)
    <2>1. Ends(t, ReturnedError(d)) /\ lock = t
      BY <1>1, <1>10, PersistFailsEnds DEF Ends
    <2>2. ctx'[t] = ReturnedError(d)
      BY <2>1, ControlKept DEF Ends, Safe
    <2> QED  BY <1>1, <1>2, <2>1, <2>2, Holder, ReturnedErrorWorks
  <1> QED  BY <1>5, <1>6, <1>8, <1>9, <1>10, ForgetSteps

LEMMA ForgettingStep == Safe /\ Forgetting /\ [Next]_vars => Forgetting'
  <1> SUFFICES ASSUME Safe, Forgetting, [Next]_vars, NEW t \in Tasks,
                      ctx'[t].job = "unpair", ctx'[t].alone
               PROVE  Forgets(t)'
    BY DEF Forgetting
  <1>1. NoJob # "unpair"
    BY NoneAssumption
  <1>2. CASE UNCHANGED vars
    <2>1. UNCHANGED <<ram, ctx>>
      BY <1>2 DEF vars, storeVars
    <2>2. Forgets(t)
      BY <2>1 DEF Forgetting
    <2> QED  BY <2>1, <2>2 DEF Forgets, Gone
  <1>3. CASE Boot \/ PowerFail
    BY <1>1, <1>3, PowerFailSafe DEF Boot, Safe, Control
  <1>4. ASSUME NEW u \in Tasks, NewJob(u) PROVE Forgets(t)'
    <2>1. PICK c : /\ Starts(c) /\ StartJob(u, c) /\ c.from = "our"
                   /\ c.job = "unpair" => c.at = "unpair" /\ c.todo = <<>> /\ c.forget # NoPeer
      BY <1>4, NewJobStarts
    <2>2. /\ Alike(c, ctx'[u])
          /\ ctx'[u].alone => \A v \in Tasks : ctx[v].job = NoJob
          /\ \A v \in Tasks : v # u => Alike(ctx[v], ctx'[v]) /\ ~ctx'[v].alone
      BY <2>1, StartKept DEF Safe
    <2>3. u = t
      BY <2>2
    <2>4. \A v \in Tasks : v # t => ctx'[v].job = NoJob
      BY <2>2, <2>3 DEF Alike
    <2>5. /\ ctx'[t].at = "unpair" /\ ctx'[t].todo = <<>> /\ ctx'[t].forget # NoPeer
          /\ ctx'[t].from = "our"
      BY <2>1, <2>2, <2>3 DEF Alike
    <2> QED  BY <2>4, <2>5 DEF Forgets
  <1>5. ASSUME NEW u \in Tasks, TaskStep(u) PROVE Forgets(t)'
    <2>1. PICK c : Steps(u, c)
      BY <1>5, TaskStepsAre
    <2>2. /\ ctx'[u] = c /\ Continues(c, ctx[u]) /\ \A v \in Tasks : v # u => ctx'[v] = ctx[v]
      BY <2>1, ControlKept DEF Safe, Steps
    <2>3. ctx[t].job = "unpair" /\ ctx[t].alone
      BY <1>1, <2>2 DEF Continues
    <2>4. Forgets(t)
      BY <2>3 DEF Forgetting
    <2>5. u = t
      BY <1>5, <2>4, NotTheirs DEF Forgets
    <2> QED  BY <1>1, <1>5, <2>4, <2>5, ForgetsStep
  <1> QED  BY <1>2, <1>3, <1>4, <1>5, NextSteps

(* The job ends when the last list holds no record of the peer.            *)
LEMMA UnpairEnds ==
    ASSUME Safe, Mirror, NEW t \in Tasks, Forgets(t), TaskStep(t), ctx'[t].job = NoJob,
           ctx[t].job # NoJob, failures' = 0
    PROVE  /\ UNCHANGED <<kvNum, kvElem>>
           /\ \A l \in Lists : Loaded(l) = ram[l] /\ Gone(l, ctx[t].forget)
  <1>1. DeletedAll(t)
    <2>1. CASE DeleteOne(t)
      <3>1. \E l \in Lists : \E n : Begins(t, l, Removed(ram[l], n))
        BY <2>1, DeletesBegins DEF Deletes
      <3>2. PICK c : Steps(t, c) /\ c.job = ctx[t].job
        BY <3>1, BeginsSteps
      <3> QED  BY <3>2, ControlKept DEF Safe
    <2>2. CASE PersistElem(t)
      <3>1. PICK c : Steps(t, c) /\ c.job = ctx[t].job
        BY <2>2, PersistElemSteps
      <3> QED  BY <3>1, ControlKept DEF Safe
    <2>3. CASE PersistNum(t)
      <3>1. ctx'[t] = Returned(ctx[t]) /\ lock = t
        BY <2>3, PersistNumEnds, ControlKept DEF Ends, Safe
      <3> QED  BY <3>1, Holder, ReturnedWorks DEF Forgets
    <2>4. CASE PersistFails(t)
      BY <2>4, PersistFailsEnds DEF Safe, Memory
    <2> QED  BY <2>1, <2>2, <2>3, <2>4, ForgetSteps
  <1>2. PICK c : /\ Quiet(t, c)
                 /\ \/ c.job = ctx[t].job
                    \/ ctx[t].from = "cccd"
    BY <1>1, DeletedAllQuiet
  <1>3. ctx'[t] = c
    BY <1>2, ControlKept DEF Quiet, Safe
  <1>4. /\ ctx[t].from = "cccd" /\ power = "on" /\ lock = NoTask /\ failures = 0
        /\ UNCHANGED <<kvNum, kvElem>>
    BY <1>2, <1>3 DEF Quiet, storeVars, counters
  <1>5. \A l \in Lists : Loaded(l) = ram[l]
    BY <1>4, SameLoaded DEF Mirror, AtRest
  <1>6. Gone("cccd", ctx[t].forget)
    <2>1. "cccd" \in Lists
      BY DEF Lists
    <2> QED  BY <1>1, <1>4, <2>1, NowGone DEF DeletedAll
  <1>7. \A l \in Lists : Gone(l, ctx[t].forget)
    BY <1>4, <1>6 DEF Forgets, Lists
  <1> QED  BY <1>4, <1>5, <1>7

(* What UnpairForgets says of a step.                                      *)
UnpairStep ==
    \A t \in Tasks :
         /\ ctx[t].job = "unpair" /\ ctx'[t].job = NoJob
         /\ power' = "on" /\ ctx'[t].result = "ok"
         /\ failures' = 0 /\ ctx[t].alone
         => \A l \in Lists : Find(Loaded(l)', ctx[t].forget, AnyId) = 0

LEMMA UnpairStepHolds == Safe /\ Mirror /\ Forgetting /\ [Next]_vars => [UnpairStep]_vars
  <1> SUFFICES ASSUME Safe, Mirror, Forgetting, Next, NEW t \in Tasks, NEW l \in Lists,
                      ctx[t].job = "unpair", ctx'[t].job = NoJob, power' = "on", failures' = 0,
                      ctx[t].alone
               PROVE  Find(Loaded(l)', ctx[t].forget, AnyId) = 0
    BY DEF UnpairStep
  <1>1. NoJob # "unpair" /\ Forgets(t)
    BY NoneAssumption DEF Forgetting
  <1>2. ~Boot /\ ~PowerFail
    BY <1>1 DEF Boot, PowerFail, Safe, Control
  <1>3. ASSUME NEW u \in Tasks, NewJob(u) PROVE FALSE
    <2>1. PICK c : Starts(c) /\ StartJob(u, c)
      BY <1>3, NewJobStarts
    <2>2. u # t
      BY <1>1, <2>1 DEF StartJob
    <2> QED  BY <1>1, <2>1, <2>2, StartKept DEF Safe, Alike
  <1>4. PICK u \in Tasks : TaskStep(u)
    BY <1>2, <1>3, NextSteps
  <1>5. u = t
    BY <1>1, <1>4, NotTheirs DEF Forgets
  <1>6. /\ UNCHANGED <<kvNum, kvElem>> /\ Loaded(l) = ram[l] /\ Gone(l, ctx[t].forget)
    BY <1>1, <1>4, <1>5, UnpairEnds
  <1>7. Loaded(l)' = ram[l]
    BY <1>6 DEF Loaded
  <1> QED  BY <1>6, <1>7, NowGone

(* ble_gap_unpair: a peer that was unpaired without error has left no      *)
(* record on flash in any of the three lists, so that no power failure     *)
(* brings it back; with no failed write, and no other task that could have *)
(* bonded the peer meanwhile.                                              *)
THEOREM UnpairForgetsAlways == Spec => UnpairForgets
  <1>1. Init => Forgetting
    BY IdleWorks, NoneAssumption DEF Init, Forgetting
  <1>2. Safe /\ Mirror /\ Forgetting /\ [Next]_vars => [UnpairStep]_vars
    BY UnpairStepHolds
  <1>3. Spec => [](Safe /\ Mirror)
    BY MirrorAlways
  <1>4. Spec => []Forgetting
    BY <1>1, ForgettingStep, SafeAlways, PTL DEF Spec
  <1>5. Spec => [][UnpairStep]_vars
    BY <1>2, <1>3, <1>4, PTL DEF Spec
  <1> QED  BY <1>5 DEF UnpairStep, UnpairForgets
=============================================================================
