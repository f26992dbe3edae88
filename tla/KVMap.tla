------------------------------- MODULE KVMap -------------------------------
(***************************************************************************)
(* What the key-value store of nimble/host/kv_store promises its callers.  *)
(*                                                                         *)
(* A durable map from keys to values. One request is served at a time (the *)
(* store's mutex).  A request that completes takes effect exactly once and *)
(* in one step; a request that is refused (no space) has no effect; a      *)
(* request cut short by a power failure either took effect completely or   *)
(* not at all.  Nothing else ever changes the map.                         *)
(***************************************************************************)
EXTENDS Naturals, FiniteSets

CONSTANTS
    Keys,       \* the keys the callers use
    Vals,       \* the values the callers write
    Absent,     \* the map's value for a key that is not in the store
    NoReq,      \* no request in progress
    Pages,      \* [Vals -> Nat]: flash pages a record with this value takes
    Capacity    \* pages of records that one area can hold

VARIABLES
    store,      \* [Keys -> Vals \cup {Absent}]: the durable contents
    req,        \* the request in progress, or NoReq
    outages     \* power failures so far

mapVars == <<store, req, outages>>

(* The requests: mtb_kvstore_write, _delete, _reset, _ensure_capacity, and  *)
(* _ensure_capacity(MTB_KVSTORE_ENSURE_MAX), here "compact".               *)
Requests ==
         [kind : {"write"}, key : Keys, val : Vals]
    \cup [kind : {"delete"}, key : Keys]
    \cup [kind : {"reset"}]
    \cup [kind : {"ensure"}, pages : Nat]
    \cup [kind : {"compact"}]

Empty == [k \in Keys |-> Absent]

PagesOf(v) == IF v = Absent THEN 0 ELSE Pages[v]

(* The pages that the records of a map take, page i of key k's record     *)
(* being <<k, i>>, and their number.                                       *)
UsedPages(m) == UNION {{k} \X (1 .. PagesOf(m[k])) : k \in Keys}

Used(m) == Cardinality(UsedPages(m))

(* The map after request r.                                                *)
Effect(m, r) ==
    CASE r.kind = "write"  -> [m EXCEPT ![r.key] = r.val]
      [] r.kind = "delete" -> [m EXCEPT ![r.key] = Absent]
      [] r.kind = "reset"  -> Empty
      [] OTHER             -> m

(* A request is granted exactly when its outcome fits into one area.       *)
Granted(m, r) ==
    CASE r.kind = "write"  -> Used(Effect(m, r)) <= Capacity
      [] r.kind = "ensure" -> Used(m) + r.pages <= Capacity
      [] OTHER             -> TRUE

Init ==
    /\ store = Empty
    /\ req = NoReq
    /\ outages = 0

Invoke ==
    /\ req = NoReq
    /\ req' \in Requests
    /\ UNCHANGED <<store, outages>>

Complete ==
    /\ req # NoReq
    /\ Granted(store, req)
    /\ store' = Effect(store, req)
    /\ req' = NoReq
    /\ UNCHANGED outages

Refuse ==
    /\ req # NoReq
    /\ ~Granted(store, req)
    /\ req' = NoReq
    /\ UNCHANGED <<store, outages>>

(* Power fails: the request in progress, if any, happened or did not.      *)
PowerFail ==
    /\ outages' = outages + 1
    /\ req' = NoReq
    /\ \/ UNCHANGED store
       \/ /\ req # NoReq
          /\ Granted(store, req)
          /\ store' = Effect(store, req)

Next == Invoke \/ Complete \/ Refuse \/ PowerFail

Spec == Init /\ [][Next]_mapVars
=============================================================================
