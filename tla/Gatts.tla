-------------------------------- MODULE Gatts -------------------------------
(***************************************************************************)
(* Updates of characteristic values: subscriptions (CCCDs), notifications, *)
(* indications and their persistent record (ble_gatts.c, the indicate      *)
(* procedure of ble_gattc.c).                                              *)
(*                                                                         *)
(* Any task reports a new value with ble_gatts_chr_updated; the host task  *)
(* handles everything else.  Both read a CCCD record in one locked section *)
(* and write it back in a later one.  Indications that an application      *)
(* sends itself (ble_gatts_indicate_custom) are left out: the function     *)
(* does not look whether one is outstanding, that is its caller's part.    *)
(***************************************************************************)
EXTENDS Naturals, Sequences, SequencesExt, FiniteSets, FiniteSetsExt

CONSTANTS
    Peers,      \* peers, with at most one connection each
    NumChars,   \* configurable characteristics, numbered from 1
    Allowed,    \* what each characteristic permits (ble_gatts_clt_cfgs)
    Apps,       \* tasks that call ble_gatts_chr_updated
    NoPeer, NoRec,
    MaxUpdates, \* bound: calls of ble_gatts_chr_updated
    MaxWrites,  \* bound: CCCD writes by peers
    MaxLinks,   \* bound: connections established
    MaxFails,   \* bound: updates that cannot be sent for want of memory
    MaxErrors   \* bound: ATT errors handed to an indication

Chars == 1 .. NumChars
Kinds == {"notify", "indicate"}

Flags  == [sub : SUBSET Kinds, mod : BOOLEAN]
Record == [p : Peers, c : Chars, sub : SUBSET Kinds, mod : BOOLEAN, changed : BOOLEAN]

ASSUME CharsAssumption == NumChars \in Nat \ {0} /\ Allowed \in [Chars -> (SUBSET Kinds) \ {{}}]

ASSUME NoRecAssumption == NoRec \notin Record

ASSUME BoundsAssumption ==
    /\ MaxUpdates \in Nat /\ MaxWrites \in Nat /\ MaxLinks \in Nat
    /\ MaxFails \in Nat /\ MaxErrors \in Nat

VARIABLES
    conn,       \* each peer: not connected, connected, or breaking up
    bonded,     \* bhc_sec_state.bonded
    bonds,      \* peers with a bond in the store
    cfg,        \* clt_cfgs: subscription and BLE_GATTS_CLT_CFG_F_MODIFIED
    ind,        \* indicate_val_handle, 0 if none
    unconf,     \* indications each peer has yet to confirm
    procs,      \* indicate procedures on ble_gattc_procs
    ending,     \* peers whose connection is being terminated after a timeout
    recs,       \* CCCD records of the store
    sched,      \* ble_hs_ev_tx_notifications is queued
    host,       \* what the host task is doing
    app,        \* what each task is doing in ble_gatts_chr_updated
    owed,       \* subscription that a bonded peer was told is stored
    missed,     \* last changes of values that a peer with a record has yet to get
    fate,       \* what became of each last update
    hasty,      \* unconfirmed indications that an error was taken to confirm
    disturbed,  \* a record was written back after it, or the value, had changed
    wild,       \* a connection without CCCD entries was written to
    used        \* how often each bounded thing happened

indVars  == <<ind, unconf, procs, ending, hasty>>
linkVars == <<conn, bonded, bonds, cfg, indVars>>
ghosts   == <<owed, missed, fate, disturbed, wild>>
vars     == <<linkVars, recs, sched, host, app, ghosts, used>>

Nothing == {NoPeer}
Bounded == {"update", "write", "link", "fail", "error"}
Fates   == {"none", "pending", "sent", "dropped"}
Idle    == [at |-> "idle", p |-> NoPeer, c |-> 0, todo |-> {}, rec |-> NoRec]
AppIdle == [at |-> "idle", c |-> 0, i |-> 0, rec |-> NoRec]

(* The records of the store are those of different characteristics or      *)
(* peers.                                                                  *)
IsTable(s) ==
    /\ s \in Seq(Record)
    /\ \A i, j \in DOMAIN s : s[i].p = s[j].p /\ s[i].c = s[j].c => i = j

HostState ==
    [at : {"idle", "tx", "ackstore", "next", "cfgstore", "bond", "read", "restore", "sent",
           "broken"},
     p : Peers \cup {NoPeer}, c : Nat, todo : SUBSET Peers, rec : Record \cup {NoRec}]

AppState ==
    [at : {"idle", "read", "write"}, c : 0 .. NumChars, i : Nat, rec : Record \cup {NoRec}]

TypeOK ==
    /\ conn \in [Peers -> {"down", "up", "broken"}]
    /\ bonded \in [Peers -> BOOLEAN]
    /\ bonds \subseteq Peers
    /\ cfg \in [Peers -> [Chars -> Flags]]
    /\ ind \in [Peers -> 0 .. NumChars]
    /\ unconf \in [Peers -> Seq(Chars)] /\ procs \in [Peers -> Seq(Chars)]
    /\ ending \subseteq Peers
    /\ IsTable(recs)
    /\ sched \in BOOLEAN
    /\ host \in HostState /\ app \in [Apps -> AppState]
    /\ owed \in [Peers -> [Chars -> (SUBSET Kinds) \cup {Nothing}]]
    /\ missed \in [Peers -> [Chars -> BOOLEAN]]
    /\ fate \in [Peers -> [Chars -> Fates]]
    /\ hasty \in [Peers -> Nat]
    /\ disturbed \in BOOLEAN /\ wild \in BOOLEAN
    /\ used \in [Bounded -> Nat]

(* ble_gatts_conn_init.                                                    *)
NewCfg == [c \in Chars |-> [sub |-> {}, mod |-> FALSE]]

Init ==
    /\ conn = [p \in Peers |-> "down"]
    /\ bonded = [p \in Peers |-> FALSE] /\ bonds = {}
    /\ cfg = [p \in Peers |-> NewCfg]
    /\ ind = [p \in Peers |-> 0] /\ unconf = [p \in Peers |-> <<>>]
    /\ procs = [p \in Peers |-> <<>>] /\ ending = {}
    /\ recs = <<>> /\ sched = FALSE
    /\ host = Idle /\ app = [a \in Apps |-> AppIdle]
    /\ owed = [p \in Peers |-> [c \in Chars |-> Nothing]]
    /\ missed = [p \in Peers |-> [c \in Chars |-> FALSE]]
    /\ fate = [p \in Peers |-> [c \in Chars |-> "none"]]
    /\ hasty = [p \in Peers |-> 0]
    /\ disturbed = FALSE /\ wild = FALSE
    /\ used = [b \in Bounded |-> 0]

Use(b, max) == used[b] < max /\ used' = [used EXCEPT ![b] = @ + 1]

-----------------------------------------------------------------------------
(* The store: the first record of a peer and a characteristic.             *)

Find(s, p, c) == SelectInSeq(s, LAMBDA r : r.p = p /\ r.c = c)

Index(p, c)  == Find(recs, p, c)
Stored(p, c) == IF Index(p, c) > 0 THEN recs[Index(p, c)] ELSE NoRec

WriteCccd(r) ==
    recs' = IF Index(r.p, r.c) > 0 THEN [recs EXCEPT ![Index(r.p, r.c)] = r]
            ELSE Append(recs, r)

DeleteCccd(p, c) ==
    recs' = IF Index(p, c) > 0 THEN RemoveAt(recs, Index(p, c)) ELSE recs

(* A search with the key's idx = n returns the record among those in M,    *)
(* given by their positions, that follows n others.                        *)
Skipped(M, j) == Cardinality({k \in M : k < j})
OfPeer(p)     == {j \in DOMAIN recs : recs[j].p = p}
OfChar(c)     == {j \in DOMAIN recs : recs[j].c = c}

Scanning == \E a \in Apps : app[a].at # "idle"

(* The value changed after the host task composed record r for the store.  *)
Overtaken(r) == cfg[r.p][r.c].mod

Rec(p, c, k) == [p |-> p, c |-> c, sub |-> k.sub, mod |-> k.mod, changed |-> FALSE]

-----------------------------------------------------------------------------
(* Sending.                                                                *)

(* Mutant: an indication does not wait for the outstanding one.            *)
UpdateIgnoresBusy(k, busy) ==
    IF ~k.mod THEN "none"
    ELSE IF "notify" \in k.sub THEN "notify"
    ELSE IF "indicate" \in k.sub THEN "indicate" ELSE "none"

(* ble_gatts_schedule_update.                                              *)
Update(k, busy) ==
    IF ~k.mod THEN "none"
    ELSE IF "notify" \in k.sub THEN "notify"
    ELSE IF "indicate" \in k.sub /\ ~busy THEN "indicate" ELSE "none"

(* ble_gatts_notify: a peer has the value as soon as it is sent.           *)
Notify(p, c) ==
    /\ missed' = [missed EXCEPT ![p][c] = FALSE]
    /\ fate' = [fate EXCEPT ![p][c] = "sent"]
    /\ UNCHANGED <<unconf, ind, procs, used>>

(* ble_gatts_indicate_custom for the host: the procedure is listed and the *)
(* peer has the value once it confirms it.                                 *)
Indicate(p, c) ==
    /\ unconf' = [unconf EXCEPT ![p] = Append(@, c)]
    /\ ind' = [ind EXCEPT ![p] = c]
    /\ procs' = [procs EXCEPT ![p] = Append(@, c)]
    /\ fate' = [fate EXCEPT ![p][c] = "sent"]
    /\ UNCHANGED <<missed, used>>

(* Both give up for want of memory, and the update is forgotten.           *)
SendFails(p, c) ==
    /\ Use("fail", MaxFails)
    /\ fate' = [fate EXCEPT ![p][c] = "dropped"]
    /\ UNCHANGED <<unconf, ind, procs, missed>>

Send(p, c, op) ==
    \/ op = "none" /\ UNCHANGED <<unconf, ind, procs, missed, fate, used>>
    \/ op = "notify" /\ Notify(p, c)
    \/ op = "indicate" /\ Indicate(p, c)
    \/ op # "none" /\ SendFails(p, c)

Up == {p \in Peers : conn[p] = "up"}

(* ble_gatts_tx_notifications: every characteristic, every connection.     *)
TxStart ==
    /\ host.at = "idle" /\ sched
    /\ sched' = FALSE
    /\ host' = [Idle EXCEPT !.at = "tx", !.c = 1, !.todo = Up]
    /\ UNCHANGED <<linkVars, recs, app, ghosts, used>>

TxOne(p) ==
    /\ host.at = "tx" /\ p \in host.todo
    /\ LET c  == host.c
           op == Update(cfg[p][c], ind[p] # 0)
       IN  /\ cfg' = [cfg EXCEPT ![p][c].mod = @ /\ op = "none"]
           /\ Send(p, c, op)
    /\ host' = [host EXCEPT !.todo = @ \ {p}]
    /\ UNCHANGED <<conn, bonded, bonds, ending, hasty, recs, sched, app, owed, disturbed, wild>>

TxNext ==
    /\ host.at = "tx" /\ host.todo = {}
    /\ host' = IF host.c < NumChars THEN [host EXCEPT !.c = @ + 1, !.todo = Up] ELSE Idle
    /\ UNCHANGED <<linkVars, recs, sched, app, ghosts, used>>

-----------------------------------------------------------------------------
(* The end of an indicate procedure.                                       *)

(* ble_gatts_rx_indicate_ack, its locked part.  An acknowledgement that is *)
(* not expected leaves everything as it is; the one of a characteristic    *)
(* that permits no indications never is.                                   *)
RxIndicateAck(p, c) ==
    LET expected == "indicate" \in Allowed[c] /\ ind[p] = c
        persist  == bonded[p] /\ ~cfg[p][c].mod
    IN  /\ ind' = IF expected THEN [ind EXCEPT ![p] = 0] ELSE ind
        /\ host' = CASE ~expected -> Idle
                     [] expected /\ persist ->
                          [Idle EXCEPT !.at = "ackstore", !.p = p, !.rec = Rec(p, c, cfg[p][c])]
                     [] OTHER -> [Idle EXCEPT !.at = "next", !.p = p]

(* The peer confirms its oldest indication (ble_gatts_indicate_rx_rsp);    *)
(* the first procedure on the list, if any, takes it for its own.          *)
IndicateRxRsp(p) ==
    /\ host.at = "idle" /\ conn[p] = "up" /\ unconf[p] # <<>>
    /\ unconf' = [unconf EXCEPT ![p] = Tail(@)]
    /\ \/ /\ procs[p] = <<>>
          /\ hasty' = [hasty EXCEPT ![p] = IF @ > 0 THEN @ - 1 ELSE 0]
          /\ UNCHANGED <<ind, procs, host, missed, fate>>
       \/ /\ procs[p] # <<>>
          /\ procs' = [procs EXCEPT ![p] = Tail(@)]
          /\ LET c == Head(procs[p])
                 latest == fate[p][c] = "sent"
             IN  /\ RxIndicateAck(p, c)
                 /\ missed' = [missed EXCEPT ![p][c] = @ /\ ~(latest /\ hasty[p] = 0)]
                 /\ fate' = IF latest /\ hasty[p] > 0 THEN [fate EXCEPT ![p][c] = "dropped"]
                            ELSE fate
          /\ UNCHANGED hasty
    /\ UNCHANGED <<conn, bonded, bonds, cfg, ending, recs, sched, app, owed, disturbed, wild,
                   used>>

(* An error, to whichever request, is handed to the procedure if that is   *)
(* the first on the list, which takes it for the confirmation              *)
(* (ble_gattc_rx_err, ble_gatts_indicate_err).                             *)
IndicateErr(p) ==
    /\ host.at = "idle" /\ conn[p] = "up" /\ procs[p] # <<>>
    /\ Use("error", MaxErrors)
    /\ procs' = [procs EXCEPT ![p] = Tail(@)]
    /\ hasty' = [hasty EXCEPT ![p] = @ + 1]
    /\ LET c == Head(procs[p])
       IN  /\ RxIndicateAck(p, c)
           /\ fate' = IF fate[p][c] = "sent" THEN [fate EXCEPT ![p][c] = "dropped"] ELSE fate
    /\ UNCHANGED <<conn, bonded, bonds, cfg, unconf, ending, recs, sched, app, owed, missed,
                   disturbed, wild>>

(* No answer came in time (ble_gatts_indicate_tmo): the connection is      *)
(* terminated (ble_gattc_timer).                                           *)
IndicateTmo(p) ==
    /\ host.at = "idle" /\ conn[p] = "up" /\ procs[p] # <<>>
    /\ procs' = [procs EXCEPT ![p] = Tail(@)]
    /\ ending' = ending \cup {p}
    /\ UNCHANGED <<conn, bonded, bonds, cfg, ind, unconf, hasty, recs, sched, host, app, ghosts,
                   used>>

AckStore ==
    /\ host.at = "ackstore"
    /\ WriteCccd(host.rec)
    /\ disturbed' = (disturbed \/ Overtaken(host.rec))
    /\ host' = [host EXCEPT !.at = "next", !.rec = NoRec]
    /\ UNCHANGED <<linkVars, sched, app, owed, missed, fate, wild, used>>

(* Mutant: a confirmation sends nothing further.                           *)
SendNextIndicateNever ==
    /\ host.at = "next"
    /\ host' = Idle
    /\ UNCHANGED <<linkVars, recs, sched, app, ghosts, used>>

(* ble_gatts_send_next_indicate: the first modified characteristic.        *)
SendNextIndicate ==
    /\ host.at = "next"
    /\ LET p == host.p
           modified == {c \in Chars : cfg[p][c].mod}
           c == Min(modified)
       IN  IF modified = {} THEN UNCHANGED <<cfg, unconf, ind, procs, missed, fate, used>>
           ELSE /\ cfg' = [cfg EXCEPT ![p][c].mod = FALSE]
                /\ Send(p, c, "indicate")
    /\ host' = Idle
    /\ UNCHANGED <<conn, bonded, bonds, ending, hasty, recs, sched, app, owed, disturbed, wild>>

-----------------------------------------------------------------------------
(* A peer writes its CCCD (ble_gatts_clt_cfg_access): the flags, including *)
(* MODIFIED, are replaced; a bonded peer's are then stored as those of a   *)
(* value that did not change.  Either way an update is dropped that was    *)
(* not sent or not confirmed.                                              *)
ClaimOwed(p, c, s) == owed' = [owed EXCEPT ![p][c] = s]

CltCfgWrite(p, c, s) ==
    /\ host.at = "idle" /\ conn[p] = "up" /\ s \subseteq Allowed[c]
    /\ cfg[p][c] # [sub |-> s, mod |-> FALSE]
    /\ Use("write", MaxWrites)
    /\ cfg' = [cfg EXCEPT ![p][c] = [sub |-> s, mod |-> FALSE]]
    /\ fate' = IF cfg[p][c].mod \/ (bonded[p] /\ missed[p][c])
               THEN [fate EXCEPT ![p][c] = "dropped"] ELSE fate
    /\ ClaimOwed(p, c, Nothing)
    /\ host' = IF bonded[p]
               THEN [Idle EXCEPT !.at = "cfgstore", !.p = p, !.rec = Rec(p, c, cfg'[p][c])]
               ELSE host
    /\ UNCHANGED <<conn, bonded, bonds, indVars, recs, sched, app, missed, disturbed, wild>>

(* Mutant: the record of a peer that unsubscribes is kept.                 *)
CltCfgStoreNonZero ==
    /\ host.at = "cfgstore"
    /\ LET r == host.rec
       IN  /\ IF r.sub = {} THEN UNCHANGED recs ELSE WriteCccd(r)
           /\ ClaimOwed(r.p, r.c, r.sub)
           /\ disturbed' = (disturbed \/ Overtaken(r))
    /\ host' = Idle
    /\ UNCHANGED <<linkVars, sched, app, missed, fate, wild, used>>

CltCfgStore ==
    /\ host.at = "cfgstore"
    /\ LET r == host.rec
       IN  /\ IF r.sub = {} THEN DeleteCccd(r.p, r.c) ELSE WriteCccd(r)
           /\ ClaimOwed(r.p, r.c, r.sub)
           /\ disturbed' = (disturbed \/ Overtaken(r) \/ (r.sub = {} /\ Scanning))
    /\ host' = Idle
    /\ UNCHANGED <<linkVars, sched, app, missed, fate, wild, used>>

-----------------------------------------------------------------------------
(* ble_gatts_bonding_established stores the non-zero flags, one record at  *)
(* a time.                                                                 *)
Bond(p) ==
    /\ host.at = "idle" /\ conn[p] = "up" /\ p \notin bonds
    /\ bonded' = [bonded EXCEPT ![p] = TRUE]
    /\ bonds' = bonds \cup {p}
    /\ host' = [Idle EXCEPT !.at = "bond", !.p = p, !.c = 1]
    /\ UNCHANGED <<conn, cfg, indVars, recs, sched, app, ghosts, used>>

BondingEstablished ==
    /\ host.at = "bond"
    /\ LET k == cfg[host.p][host.c]
       IN  IF k.sub # {} \/ k.mod
           THEN WriteCccd(Rec(host.p, host.c, k)) /\ ClaimOwed(host.p, host.c, k.sub)
           ELSE UNCHANGED <<recs, owed>>
    /\ host' = IF host.c < NumChars THEN [host EXCEPT !.c = @ + 1] ELSE Idle
    /\ UNCHANGED <<linkVars, sched, app, missed, fate, disturbed, wild, used>>

(* Nothing is sent of a restored record, whose value is pending or not.    *)
Reschedule(p, c, mod) ==
    /\ fate' = CASE mod -> [fate EXCEPT ![p][c] = "pending"]
                [] ~mod /\ cfg[p][c].mod -> [fate EXCEPT ![p][c] = "dropped"]
                [] OTHER -> fate
    /\ UNCHANGED <<unconf, ind, procs, missed, used>>

(* ble_gatts_bonding_restored: each record of the peer is read, applied    *)
(* and sent, and written back once its notification is out.  todo counts   *)
(* nothing here; c is the index of the record.                             *)
Restore(p) ==
    /\ host.at = "idle" /\ conn[p] = "up" /\ p \in bonds /\ ~bonded[p]
    /\ bonded' = [bonded EXCEPT ![p] = TRUE]
    /\ host' = [Idle EXCEPT !.at = "read", !.p = p, !.c = 1]
    /\ UNCHANGED <<conn, bonds, cfg, indVars, recs, sched, app, ghosts, used>>

RestoreRead ==
    /\ host.at = "read"
    /\ \/ \E j \in OfPeer(host.p) :
            /\ Skipped(OfPeer(host.p), j) = host.c - 1
            /\ host' = [host EXCEPT !.at = "restore", !.rec = recs[j]]
       \/ /\ \A j \in OfPeer(host.p) : Skipped(OfPeer(host.p), j) # host.c - 1
          /\ host' = Idle
    /\ UNCHANGED <<linkVars, recs, sched, app, ghosts, used>>

(* The flags are replaced; the update of a value that changed is scheduled *)
(* again, one that was pending and that no record knows of is dropped.     *)
BondingRestored ==
    /\ host.at = "restore"
    /\ LET p == host.p
           c == host.rec.c
           k == [sub |-> host.rec.sub, mod |-> host.rec.mod \/ host.rec.changed]
           op == IF host.rec.changed THEN Update(k, ind[p] # 0) ELSE "none"
       IN  /\ cfg' = [cfg EXCEPT ![p][c] = [sub |-> k.sub, mod |-> k.mod /\ op = "none"]]
           /\ \/ op = "none" /\ Reschedule(p, c, k.mod)
              \/ op # "none" /\ Send(p, c, op)
           /\ host' = IF op = "notify" /\ used' = used
                      THEN [host EXCEPT !.at = "sent"]
                      ELSE [host EXCEPT !.at = "read", !.c = @ + 1, !.rec = NoRec]
    /\ disturbed' = (disturbed \/ Overtaken(host.rec))
    /\ UNCHANGED <<conn, bonded, bonds, ending, hasty, recs, sched, app, owed, wild>>

RestoreSent ==
    /\ host.at = "sent"
    /\ WriteCccd([host.rec EXCEPT !.changed = FALSE])
    /\ disturbed' = (disturbed \/ Overtaken(host.rec) \/ Stored(host.p, host.rec.c) # host.rec)
    /\ host' = [host EXCEPT !.at = "read", !.c = @ + 1, !.rec = NoRec]
    /\ UNCHANGED <<linkVars, sched, app, owed, missed, fate, wild, used>>

-----------------------------------------------------------------------------
(* Connections.                                                            *)

Connect(p) ==
    /\ host.at = "idle" /\ conn[p] = "down"
    /\ Use("link", MaxLinks)
    /\ conn' = [conn EXCEPT ![p] = "up"]
    /\ UNCHANGED <<bonded, bonds, cfg, indVars, recs, sched, host, app, ghosts>>

(* ble_gatts_connection_broken takes the CCCD entries away; indications in *)
(* progress fail.  The connection is removed later (ble_gap_conn_broken).  *)
ConnectionBroken(p) ==
    /\ host.at = "idle" /\ conn[p] = "up"
    /\ conn' = [conn EXCEPT ![p] = "broken"]
    /\ cfg' = [cfg EXCEPT ![p] = NewCfg]
    /\ unconf' = [unconf EXCEPT ![p] = <<>>] /\ procs' = [procs EXCEPT ![p] = <<>>]
    /\ hasty' = [hasty EXCEPT ![p] = 0] /\ ending' = ending \ {p}
    /\ fate' = [fate EXCEPT ![p] = [c \in Chars |-> IF @[c] = "dropped" THEN "dropped" ELSE "none"]]
    /\ host' = [Idle EXCEPT !.at = "broken", !.p = p]
    /\ UNCHANGED <<bonded, bonds, ind, recs, sched, app, owed, missed, disturbed, wild, used>>

ConnDelete ==
    /\ host.at = "broken"
    /\ conn' = [conn EXCEPT ![host.p] = "down"]
    /\ ind' = [ind EXCEPT ![host.p] = 0]
    /\ bonded' = [bonded EXCEPT ![host.p] = FALSE]
    /\ host' = Idle
    /\ UNCHANGED <<bonds, cfg, unconf, procs, hasty, ending, recs, sched, app, ghosts, used>>

-----------------------------------------------------------------------------
(* ble_gatts_chr_updated in any task.                                      *)

(* Every connection is marked.  One that is breaking up has no entries any *)
(* more, but the code writes through the null pointer.                     *)
ChrUpdated(a, c) ==
    /\ app[a].at = "idle"
    /\ Use("update", MaxUpdates)
    /\ cfg' = [p \in Peers |-> IF p \in Up THEN [cfg[p] EXCEPT ![c].mod = TRUE] ELSE cfg[p]]
    /\ sched' = (sched \/ \E p \in Peers : conn[p] # "down")
    /\ wild' = (wild \/ \E p \in Peers : conn[p] = "broken")
    /\ missed' = [p \in Peers |-> [missed[p] EXCEPT ![c] = Index(p, c) > 0]]
    /\ fate' = [p \in Peers |-> [fate[p] EXCEPT ![c] = IF p \in Up THEN "pending" ELSE "none"]]
    /\ app' = [app EXCEPT ![a] = [at |-> "read", c |-> c, i |-> 1, rec |-> NoRec]]
    /\ UNCHANGED <<conn, bonded, bonds, indVars, recs, host, owed, disturbed>>

(* Mutant: changes are not recorded for connected peers.                   *)
ChrReadSkipsConnected(a) ==
    /\ app[a].at = "read"
    /\ LET those == OfChar(app[a].c) IN
       \/ \E j \in those :
            /\ Skipped(those, j) = app[a].i - 1
            /\ app' = [app EXCEPT ![a] =
                         IF recs[j].changed \/ conn[recs[j].p] # "down"
                         THEN [app[a] EXCEPT !.i = app[a].i + 1]
                         ELSE [app[a] EXCEPT !.at = "write", !.rec = [recs[j] EXCEPT !.changed = TRUE]]]
       \/ /\ \A j \in those : Skipped(those, j) # app[a].i - 1
          /\ app' = [app EXCEPT ![a] = AppIdle]
    /\ UNCHANGED <<linkVars, recs, sched, host, ghosts, used>>

(* The next record of the characteristic.  The search for its connection   *)
(* uses the address of the search key, which is that of no peer: the       *)
(* record is rewritten unless it says already that the value changed.      *)
ChrRead(a) ==
    /\ app[a].at = "read"
    /\ LET those == OfChar(app[a].c) IN
       \/ \E j \in those :
            /\ Skipped(those, j) = app[a].i - 1
            /\ app' = [app EXCEPT ![a] =
                         IF recs[j].changed THEN [app[a] EXCEPT !.i = app[a].i + 1]
                         ELSE [app[a] EXCEPT !.at = "write", !.rec = [recs[j] EXCEPT !.changed = TRUE]]]
       \/ /\ \A j \in those : Skipped(those, j) # app[a].i - 1
          /\ app' = [app EXCEPT ![a] = AppIdle]
    /\ UNCHANGED <<linkVars, recs, sched, host, ghosts, used>>

ChrWrite(a) ==
    /\ app[a].at = "write"
    /\ LET r == app[a].rec
       IN  /\ WriteCccd(r)
           /\ disturbed' = (disturbed \/ Stored(r.p, r.c) = NoRec
                                      \/ Stored(r.p, r.c).sub # r.sub)
    /\ app' = [app EXCEPT ![a] = [app[a] EXCEPT !.at = "read", !.i = app[a].i + 1, !.rec = NoRec]]
    /\ UNCHANGED <<linkVars, sched, host, owed, missed, fate, wild, used>>

-----------------------------------------------------------------------------
HostStep ==
    \/ TxStart \/ TxNext \/ AckStore \/ SendNextIndicate \/ CltCfgStore
    \/ BondingEstablished \/ RestoreRead \/ BondingRestored \/ RestoreSent \/ ConnDelete
    \/ \E p \in Peers : TxOne(p)

AppStep(a) == ChrRead(a) \/ ChrWrite(a)

Next ==
    \/ HostStep
    \/ \E a \in Apps : AppStep(a) \/ \E c \in Chars : ChrUpdated(a, c)
    \/ \E p \in Peers :
         \/ IndicateRxRsp(p) \/ IndicateErr(p) \/ IndicateTmo(p)
         \/ Bond(p) \/ Restore(p) \/ Connect(p) \/ ConnectionBroken(p)
         \/ \E c \in Chars, s \in SUBSET Kinds : CltCfgWrite(p, c, s)

Spec == Init /\ [][Next]_vars

(* The tasks run; a connected peer confirms indications or the timer ends  *)
(* the procedure, and then the connection ends.                            *)
FairSpec ==
    /\ Spec
    /\ WF_vars(HostStep)
    /\ \A a \in Apps : WF_vars(AppStep(a))
    /\ \A p \in Peers : /\ SF_vars(IndicateRxRsp(p) \/ IndicateTmo(p))
                        /\ SF_vars(p \in ending /\ ConnectionBroken(p))

-----------------------------------------------------------------------------
(* Properties.                                                             *)

(* ble_gatts_schedule_update: "Only one outstanding indication per peer is *)
(* allowed."  No order of updates, confirmations, failures, timeouts and   *)
(* reconnections sends a second one: a peer has more than one to confirm   *)
(* only after the host took an error for a confirmation, as                *)
(* ble_gatts_indicate_err has it, and then one more for each such error.   *)
(* The procedure in progress is the one that indicate_val_handle names.    *)
(* (An application that calls ble_gatts_indicate_custom is not held back.) *)
OneIndication ==
    \A p \in Peers : /\ Len(unconf[p]) <= 1 + hasty[p]
                     /\ procs[p] # <<>> => procs[p] = <<ind[p]>>

(* The subscription of a bonded peer, once its write was answered, is what *)
(* the store holds and a later connection restores, unless a concurrent    *)
(* ble_gatts_chr_updated wrote an older record back (disturbed).           *)
SubscriptionKept ==
    ~disturbed => \A p \in Peers, c \in Chars :
        owed[p][c] # Nothing =>
            IF Stored(p, c) = NoRec THEN owed[p][c] = {} ELSE Stored(p, c).sub = owed[p][c]

(* ble_gatts_chr_updated: "persist the changed flag so that an update can  *)
(* be sent when the device reconnects and rebonds", "record that the       *)
(* characteristic has changed until we receive the ack": when no scan is   *)
(* in progress, a value that changed is marked in the peer's record until  *)
(* the peer was notified of it or confirmed it, wherever the connection    *)
(* breaks.  Exceptions: an older record was written over it (disturbed);   *)
(* the update was dropped, because the peer rewrote its CCCD, because it   *)
(* could not be sent, or because an error was taken for a confirmation.    *)
ChangesKept ==
    ~disturbed /\ ~Scanning => \A p \in Peers, c \in Chars :
        missed[p][c] /\ fate[p][c] # "dropped" => Stored(p, c) # NoRec /\ Stored(p, c).changed

(* The peer confirmed an indication of a characteristic that permits none; *)
(* ble_gatts_rx_indicate_ack did not expect that, and the connection keeps *)
(* its indicate_val_handle.                                                *)
Jammed(p) == ind[p] # 0 /\ "indicate" \notin Allowed[ind[p]]

(* A pending update of a connected, subscribed peer is sent in the end,    *)
(* also when it had to wait for the confirmation of another one, or the    *)
(* connection ends.  Exceptions: the peer unsubscribes or rewrites its     *)
(* CCCD (dropped); some update could not be sent for want of memory, and   *)
(* nobody sends the next; send_next_indicate indicated a characteristic    *)
(* that only permits notifications, and no indication follows (Jammed).    *)
UpdatesSent ==
    \A p \in Peers, c \in Chars :
        (conn[p] = "up" /\ cfg[p][c].mod /\ cfg[p][c].sub # {} /\ (sched \/ ind[p] # 0))
            ~> (\/ fate[p][c] = "sent" \/ conn[p] # "up"
                \/ fate[p][c] = "dropped" \/ cfg[p][c].sub = {}
                \/ used["fail"] > 0 \/ Jammed(p))

(* ble_gatts_send_next_indicate: a modified characteristic is one whose    *)
(* peer subscribed to indications.                                         *)
IndicatesSubscribed ==
    [][\A p \in Peers : Len(unconf'[p]) > Len(unconf[p])
                        => "indicate" \in cfg[p][Last(unconf'[p])].sub]_vars

(* ble_gatts_chr_updated: every connection it finds has its CCCD entries.  *)
EntriesPresent == ~wild
=============================================================================
