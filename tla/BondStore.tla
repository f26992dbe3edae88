------------------------------ MODULE BondStore -----------------------------
(***************************************************************************)
(* The host's bond database: ble_store.c / ble_store_util.c in front of    *)
(* the RAM lists of ble_store_config.c, which ble_store_config_conf.c      *)
(* copies to the key-value store, one key per list element and one key for *)
(* the list's length.                                                      *)
(*                                                                         *)
(* A store operation runs under the host lock, but a job of a task (bond a *)
(* peer, forget a peer) is several operations, and persisting a list is    *)
(* several writes to the key-value store: another task can run between the *)
(* operations, and power can fail between the writes.  Each write itself   *)
(* is atomic and durable (DurableMap of KVStore) or fails without effect.  *)
(***************************************************************************)
EXTENDS Naturals, Sequences, SequencesExt, FiniteSets

CONSTANTS
    Tasks,          \* tasks that use the store
    Peers,          \* identity addresses
    Edivs,          \* ediv/rand pairs that identify a key (one for all of LESC)
    Handles,        \* CCCD characteristic handles
    Data,           \* the rest of a record (keys, flags)
    NoPeer,         \* no peer
    AnyPeer,        \* BLE_ADDR_ANY, which matches every record
    NoRec,          \* an element key that was never written
    NoTask, NoJob,
    MaxBonds,       \* BLE_STORE_MAX_BONDS
    MaxCccds,       \* BLE_STORE_MAX_CCCDS
    MaxJobs,        \* bound: number of jobs
    MaxCrashes,     \* bound: number of power failures
    MaxFailures     \* bound: number of failed app_kv_write calls

ASSUME CapsAssumption == MaxBonds \in Nat \ {0} /\ MaxCccds \in Nat \ {0}

ASSUME IdsAssumption == Edivs \subseteq Nat \ {0} /\ Handles \subseteq Nat \ {0}

ASSUME NoneAssumption ==
    /\ NoTask \notin Tasks /\ NoPeer \notin Peers \cup {AnyPeer}
    /\ NoJob \notin {"bond", "cccd", "unpair"}

ASSUME BoundsAssumption == MaxJobs \in Nat /\ MaxCrashes \in Nat /\ MaxFailures \in Nat

VARIABLES
    power,          \* "on" or "off"
    ram,            \* ble_store_config_our_secs / _peer_secs / _cccds
    kvNum,          \* ble_hs/num_our, num_peer, num_cccd (0 if not there)
    kvElem,         \* ble_hs/our_sec<i>, peer_sec<i>, cccd<i>
    lock,           \* holder of the host lock while it persists a list
    ctx,            \* what each task is doing
    linked,         \* peers with a link that bonded (bhc_sec_state.bonded)
    reported,       \* per list: its last persist returned an error
    jobs, crashes, failures

storeVars == <<ram, kvNum, kvElem, lock, reported>>
counters  == <<jobs, crashes, failures>>
vars      == <<power, storeVars, ctx, linked, counters>>

Lists  == {"our", "peer", "cccd"}
Cap(l) == IF l = "cccd" THEN MaxCccds ELSE MaxBonds

(* A security record (id: its ediv/rand) or a CCCD record (its handle).    *)
Recs == [peer : Peers, id : Edivs \cup Handles, data : Data]

ASSUME NoRecAssumption == NoRec \notin Recs

-----------------------------------------------------------------------------
(* ble_store_config_find_sec / _find_cccd with idx 0: the first match.     *)
(* AnyId: a key without ediv_rand_present, or with handle 0.               *)
AnyId == 0

Matches(r, p, id) == (p = AnyPeer \/ r.peer = p) /\ (id = AnyId \/ r.id = id)

Find(list, p, id) == SelectInSeq(list, LAMBDA r : Matches(r, p, id))

(* The contents a boot would load for list l.                              *)
Loaded(l) == [i \in 1 .. kvNum[l] |-> kvElem[l][i - 1]]

-----------------------------------------------------------------------------
(* Task contexts.  at: "write" (ble_store_write is about to try), "scan"   *)
(* (look for a bond to drop), "unpair" (ble_store_util_delete_peer is      *)
(* about to delete), "delete" (ble_store_delete of one key), "persist";    *)
(* todo: the records still to write, or the key to delete; forget, from:   *)
(* the peer being forgotten and the list to delete from; list, next: what  *)
(* is persisted; next is also the index of the scan.  alone is history: no *)
(* other task's job ran since this one began.                              *)

Idle == [job |-> NoJob, at |-> "idle", todo |-> <<>>, forget |-> NoPeer, from |-> "our",
         list |-> "our", next |-> 0, result |-> "ok", alone |-> FALSE]

Item(l, r) == [list |-> l, rec |-> r]

Init ==
    /\ power = "off"
    /\ ram = [l \in Lists |-> <<>>]
    /\ kvNum = [l \in Lists |-> 0]
    /\ kvElem = [l \in Lists |-> [i \in 0 .. Cap(l) - 1 |-> NoRec]]
    /\ lock = NoTask
    /\ ctx = [t \in Tasks |-> Idle]
    /\ linked = {}
    /\ reported = [l \in Lists |-> FALSE]
    /\ jobs = 0 /\ crashes = 0 /\ failures = 0

(* ble_store_config_init and ble_store_config_conf_load.                   *)
Boot ==
    /\ power = "off"
    /\ power' = "on"
    /\ ram' = [l \in Lists |-> Loaded(l)]
    /\ UNCHANGED <<kvNum, kvElem, lock, reported, ctx, linked, counters>>

StartJob(t, c) ==
    /\ power = "on"
    /\ ctx[t].job = NoJob
    /\ jobs < MaxJobs
    /\ jobs' = jobs + 1
    /\ ctx' = [u \in Tasks |->
          IF u = t THEN [c EXCEPT !.alone = \A v \in Tasks : ctx[v].job = NoJob]
          ELSE [ctx[u] EXCEPT !.alone = FALSE]]
    /\ UNCHANGED <<power, storeVars, crashes, failures>>

(* ble_sm_persist_keys: our keys, then the peer's.  (The peer is connected *)
(* under the address it is known by, so no CCCD changes owner.)            *)
Bond(t, p, e, d) ==
    LET r == [peer |-> p, id |-> e, data |-> d] IN
    /\ StartJob(t, [Idle EXCEPT !.job = "bond", !.at = "write",
                                !.todo = <<Item("our", r), Item("peer", r)>>])
    /\ linked' = linked \cup {p}

(* The link of p is bonded: since it paired, or because it was encrypted   *)
(* with a stored key.                                                      *)
BondedLink(p) == p \in linked \/ Find(ram["our"], p, AnyId) # 0

(* ble_gatts_clt_cfg_access, on a bonded link: ble_store_write_cccd, or    *)
(* ble_store_delete_cccd when the flags become 0.                          *)
WriteCccd(t, p, h, d) ==
    /\ BondedLink(p)
    /\ StartJob(t, [Idle EXCEPT !.job = "cccd", !.at = "write",
             !.todo = <<Item("cccd", [peer |-> p, id |-> h, data |-> d])>>])
    /\ UNCHANGED linked

DeleteCccd(t, p, h) ==
    /\ BondedLink(p)
    /\ StartJob(t, [Idle EXCEPT !.job = "cccd", !.at = "delete",
             !.todo = <<Item("cccd", [peer |-> p, id |-> h])>>])
    /\ UNCHANGED linked

(* ble_gap_unpair(p): ble_store_util_delete_peer; ble_store_clear is the   *)
(* same loop with a key that matches every record.                         *)
Unpair(t, p) ==
    /\ StartJob(t, [Idle EXCEPT !.job = "unpair", !.at = "unpair", !.forget = p])
    /\ UNCHANGED linked

-----------------------------------------------------------------------------
(* The caller goes on: with the next record, ignoring the result of this   *)
(* one as ble_sm_persist_keys does, or with nothing.                       *)
NextItem(c, result) ==
    IF Len(c.todo) > 1
    THEN [c EXCEPT !.at = "write", !.todo = Tail(@), !.forget = NoPeer, !.from = "our", !.next = 0,
                   !.result = IF @ = "ok" THEN result ELSE @]
    ELSE [Idle EXCEPT !.result = IF c.result = "ok" THEN result ELSE c.result]

(* Take the lock and start to persist list l.                              *)
StartPersist(t, l) ==
    /\ lock' = t
    /\ ctx' = [ctx EXCEPT ![t].at = "persist", ![t].list = l, ![t].next = 0]

(* The list with record r written: in place of its match, or at the end.   *)
Placed(list, r) ==
    LET i == Find(list, r.peer, r.id) IN
    IF i = 0 THEN Append(list, r) ELSE [list EXCEPT ![i] = r]

(* ble_store_config_write: update in place, or append if there is room.    *)
TryWrite(t) ==
    /\ power = "on" /\ lock = NoTask /\ ctx[t].at = "write"
    /\ LET l == Head(ctx[t].todo).list
           r == Head(ctx[t].todo).rec
       IN  /\ Find(ram[l], r.peer, r.id) # 0 \/ Len(ram[l]) < Cap(l)
           /\ ram' = [ram EXCEPT ![l] = Placed(@, r)]
           /\ StartPersist(t, l)
    /\ UNCHANGED <<power, kvNum, kvElem, reported, linked, counters>>

(* BLE_HS_ESTORE_CAP: the overflow event makes ble_store_util_status_rr    *)
(* look for a bond to drop, after the lock was released.                   *)
Overflow(t) ==
    /\ power = "on" /\ lock = NoTask /\ ctx[t].at = "write"
    /\ LET l == Head(ctx[t].todo).list
           r == Head(ctx[t].todo).rec
       IN  Find(ram[l], r.peer, r.id) = 0 /\ Len(ram[l]) >= Cap(l)
    /\ ctx' = [ctx EXCEPT ![t].at = "scan", ![t].next = 0]
    /\ UNCHANGED <<power, storeVars, linked, counters>>

(* ble_gap_unpair_oldest_peer takes the first bond, ..._oldest_except the  *)
(* first of another peer than the one that needs room.                     *)
MayDrop(c, p) == Head(c.todo).list = "cccd" => p # Head(c.todo).rec.peer

(* One ble_store_read of ble_store_util_bonded_peers' iteration, which     *)
(* ends here once the peer to drop is known: reading on changes nothing.   *)
(* No bond left to drop is an error.                                       *)
ScanVictim(t) ==
    /\ power = "on" /\ lock = NoTask /\ ctx[t].at = "scan"
    /\ LET c == ctx[t]
           our == ram["our"]
       IN  ctx' = [ctx EXCEPT ![t] =
             CASE c.next >= Len(our) -> NextItem(c, "norecord")
               [] c.next < Len(our) /\ MayDrop(c, our[c.next + 1].peer) ->
                    [c EXCEPT !.at = "unpair", !.forget = our[c.next + 1].peer, !.from = "our"]
               [] OTHER -> [c EXCEPT !.next = @ + 1]]
    /\ UNCHANGED <<power, storeVars, linked, counters>>

(* Mutant: the element is not taken out of the list.                       *)
Removed_Kept(list, i) == list

(* ble_store_config_delete_obj.                                            *)
Removed(list, i) == RemoveAt(list, i)

(* ble_store_config_delete_cccd for one key.                               *)
DeleteKey(t) ==
    /\ power = "on" /\ lock = NoTask /\ ctx[t].at = "delete"
    /\ LET k == Head(ctx[t].todo).rec
           i == Find(ram["cccd"], k.peer, k.id)
       IN  \/ /\ i = 0
              /\ ctx' = [ctx EXCEPT ![t] = [Idle EXCEPT !.result = "noent"]]
              /\ UNCHANGED <<ram, lock>>
           \/ /\ i # 0
              /\ ram' = [ram EXCEPT !["cccd"] = Removed(@, i)]
              /\ StartPersist(t, "cccd")
    /\ UNCHANGED <<power, kvNum, kvElem, reported, linked, counters>>

(* ble_store_util_delete_all: delete the first match of this list.         *)
DeleteOne(t) ==
    /\ power = "on" /\ lock = NoTask /\ ctx[t].at = "unpair"
    /\ LET l == ctx[t].from
           i == Find(ram[l], ctx[t].forget, AnyId)
       IN  /\ i # 0
           /\ ram' = [ram EXCEPT ![l] = Removed(@, i)]
           /\ StartPersist(t, l)
    /\ UNCHANGED <<power, kvNum, kvElem, reported, linked, counters>>

(* Mutant: ble_store_util_delete_peer forgets the CCCDs.                   *)
After_NoCccd == [our |-> "peer", peer |-> "done", cccd |-> "done"]

After == [our |-> "peer", peer |-> "cccd", cccd |-> "done"]

(* No match left (BLE_HS_ENOENT): the next list, or the end of             *)
(* ble_store_util_delete_peer and with it of ble_gap_unpair; an overflow   *)
(* event then lets ble_store_write try again.                              *)
DeletedAll(t) ==
    /\ power = "on" /\ lock = NoTask /\ ctx[t].at = "unpair"
    /\ Find(ram[ctx[t].from], ctx[t].forget, AnyId) = 0
    /\ LET c == ctx[t] IN
       ctx' = [ctx EXCEPT ![t] =
         CASE After[c.from] # "done" -> [c EXCEPT !.from = After[c.from]]
           [] After[c.from] = "done" /\ c.todo # <<>> ->
                [c EXCEPT !.at = "write", !.forget = NoPeer, !.from = "our", !.next = 0]
           [] OTHER -> [Idle EXCEPT !.result = c.result]]
    /\ UNCHANGED <<power, storeVars, linked, counters>>

-----------------------------------------------------------------------------
(* Back from ble_store_config_write / _delete with result 0.               *)
Returned(c) == IF c.forget # NoPeer THEN [c EXCEPT !.at = "unpair"] ELSE NextItem(c, "ok")

(* Back with BLE_HS_ESTORE_FAIL: it ends the deletion and the write.       *)
ReturnedError(c) == IF c.todo # <<>> THEN NextItem(c, "error") ELSE [Idle EXCEPT !.result = "error"]

(* ble_store_config_persist_*: element i is written to its key.            *)
PersistElem(t) ==
    /\ power = "on" /\ lock = t
    /\ LET l == ctx[t].list
           i == ctx[t].next
       IN  /\ i < Len(ram[l])
           /\ kvElem' = [kvElem EXCEPT ![l][i] = ram[l][i + 1]]
    /\ ctx' = [ctx EXCEPT ![t].next = @ + 1]
    /\ UNCHANGED <<power, ram, kvNum, lock, reported, linked, counters>>

(* Mutant: the count is written before the elements have been.             *)
CountIsNext_Early(l, i) == TRUE

(* Mutant: ... when the list became shorter.                               *)
CountIsNext_Shrink(l, i) == i = Len(ram[l]) \/ Len(ram[l]) < kvNum[l]

CountIsNext(l, i) == i = Len(ram[l])

(* Mutant: a deletion does not update the count.                           *)
CountToSave_Grown(l) == IF Len(ram[l]) > kvNum[l] THEN Len(ram[l]) ELSE kvNum[l]

CountToSave(l) == Len(ram[l])

(* Then the count; whether that write works is not looked at.              *)
PersistNum(t) ==
    /\ power = "on" /\ lock = t
    /\ LET l == ctx[t].list IN
       /\ CountIsNext(l, ctx[t].next)
       /\ \/ kvNum' = [kvNum EXCEPT ![l] = CountToSave(l)] /\ UNCHANGED failures
          \/ /\ failures < MaxFailures
             /\ failures' = failures + 1
             /\ UNCHANGED kvNum
       /\ reported' = [reported EXCEPT ![l] = FALSE]
    /\ ctx' = [ctx EXCEPT ![t] = Returned(@)]
    /\ lock' = NoTask
    /\ UNCHANGED <<power, ram, kvElem, linked, jobs, crashes>>

(* A failed element write (mutex timeout, storage full) is reported.       *)
PersistFails(t) ==
    /\ power = "on" /\ lock = t
    /\ failures < MaxFailures
    /\ ctx[t].next < Len(ram[ctx[t].list])
    /\ failures' = failures + 1
    /\ reported' = [reported EXCEPT ![ctx[t].list] = TRUE]
    /\ ctx' = [ctx EXCEPT ![t] = ReturnedError(@)]
    /\ lock' = NoTask
    /\ UNCHANGED <<power, ram, kvNum, kvElem, linked, jobs, crashes>>

PowerFail ==
    /\ power = "on" /\ crashes < MaxCrashes
    /\ crashes' = crashes + 1
    /\ power' = "off"
    /\ ram' = [l \in Lists |-> <<>>]
    /\ lock' = NoTask
    /\ ctx' = [t \in Tasks |-> Idle]
    /\ linked' = {}
    /\ reported' = [l \in Lists |-> FALSE]
    /\ UNCHANGED <<kvNum, kvElem, jobs, failures>>

TaskStep(t) == \/ TryWrite(t) \/ Overflow(t) \/ ScanVictim(t)
               \/ DeleteKey(t) \/ DeleteOne(t) \/ DeletedAll(t)
               \/ PersistElem(t) \/ PersistNum(t) \/ PersistFails(t)

Next ==
    \/ Boot
    \/ \E t \in Tasks :
         \/ \E p \in Peers, e \in Edivs, d \in Data : Bond(t, p, e, d)
         \/ \E p \in Peers, h \in Handles, d \in Data : WriteCccd(t, p, h, d)
         \/ \E p \in Peers, h \in Handles : DeleteCccd(t, p, h)
         \/ \E p \in Peers \cup {AnyPeer} : Unpair(t, p)
         \/ TaskStep(t)
    \/ PowerFail

Spec == Init /\ [][Next]_vars

(* Power comes back, and a task that can go on with its job is scheduled   *)
(* some day.                                                               *)
FairSpec == Spec /\ WF_vars(Boot) /\ \A t \in Tasks : WF_vars(TaskStep(t))

-----------------------------------------------------------------------------
(* The arrays ble_store_config_our_secs, _peer_secs and _cccds, and the    *)
(* counts read back from flash, never outgrow their capacity.              *)
TypeOK ==
    /\ power \in {"on", "off"}
    /\ ram \in [Lists -> Seq(Recs \cup {NoRec})]
    /\ \A l \in Lists : Len(ram[l]) <= Cap(l) /\ kvNum[l] \in 0 .. Cap(l)
    /\ \A l \in Lists : kvElem[l] \in [0 .. Cap(l) - 1 -> Recs \cup {NoRec}]
    /\ lock \in Tasks \cup {NoTask}
    /\ reported \in [Lists -> BOOLEAN]
    /\ linked \subseteq Peers

(* Whatever happened before, the count on flash never runs ahead of the    *)
(* elements: ble_store_config_conf_load, which ignores a failed read and   *)
(* would decode a stale buffer, never meets a missing key.                 *)
LoadsOnlyWritten ==
    \A l \in Lists : \A i \in 0 .. kvNum[l] - 1 : kvElem[l][i] # NoRec

(* A power failure at any moment keeps every record that the operation in  *)
(* progress does not write: what RAM holds and no task is writing at this  *)
(* moment would be loaded again.  (With no failed writes.)                 *)
Writing(l, r) == /\ lock # NoTask /\ ctx[lock].list = l /\ ctx[lock].forget = NoPeer
                 /\ ctx[lock].todo # <<>> /\ Head(ctx[lock].todo) = Item(l, r)

SurvivesCrash ==
    failures = 0 =>
        \A l \in Lists : \A i \in DOMAIN ram[l] :
            ram[l][i] \in Range(Loaded(l)) \/ Writing(l, ram[l][i])

(* When ble_store_config_write and _delete have returned 0 for a list, a   *)
(* reboot loads exactly what is in RAM: the record is stored, the deleted  *)
(* record is gone.  (With no failed writes: that of the count is not       *)
(* reported.)                                                              *)
AckMeansDurable ==
    power = "on" /\ failures = 0 =>
        \A l \in Lists : ~reported[l] /\ (lock = NoTask \/ ctx[lock].list # l) =>
            Loaded(l) = ram[l]

(* A peer that was unpaired without error has left no record on flash, so  *)
(* that no power failure brings it back.  (With no failed writes, and no   *)
(* other task that could have bonded the peer meanwhile.)                  *)
UnpairForgets ==
    [][\A t \in Tasks :
         /\ ctx[t].job = "unpair" /\ ctx'[t].job = NoJob
         /\ power' = "on" /\ ctx'[t].result = "ok"
         /\ failures' = 0 /\ ctx[t].alone
         => \A l \in Lists : Find(Loaded(l)', ctx[t].forget, AnyId) = 0]_vars

(* ble_store_util_status_rr: a record that does not fit makes the oldest   *)
(* bond go and is then stored; ble_store_write never gives up.             *)
OverflowMakesRoom == \A t \in Tasks : ctx[t].result # "norecord"

(* Every job ends: the retry loop of ble_store_write and the loops of      *)
(* ble_store_util_delete_all terminate, whatever the other task does.      *)
JobsEnd == \A t \in Tasks : ctx[t].job # NoJob ~> ctx[t].job = NoJob
=============================================================================
