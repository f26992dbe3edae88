-------------------------------- MODULE AclTx -------------------------------
(***************************************************************************)
(* Transmission of ACL data (ble_l2cap_tx, ble_hs_hci_acl_tx,              *)
(* ble_hs_wakeup_tx) and the host's count of free controller buffers.      *)
(*                                                                         *)
(* A packet is cut into fragments, one controller buffer each.  What does  *)
(* not fit waits in the connection's queue for the controller to report    *)
(* buffers free again.  Any task sends, under the host lock; the host task *)
(* handles the controller's events in several locked sections, so another  *)
(* task can send between a section that returns credits and the one that   *)
(* serves the queues, or between the credits of a broken link and the      *)
(* removal of its connection.                                              *)
(***************************************************************************)
EXTENDS Naturals, Sequences, SequencesExt, FiniteSets, FiniteSetsExt

CONSTANTS
    Handles,    \* connection handles
    MaxPkts,    \* buffers of the controller (LE Read Buffer Size)
    MaxFrags,   \* bound: fragments of a packet
    MaxSends,   \* bound: packets sent
    MaxEvents,  \* bound: events queued when a link changes
    MaxFaults   \* bound: kinds of fault in a behaviour, each at most once

(* lost: no buffer for a completion event; nofrag: no mbuf to split off a  *)
(* fragment; nomem: no mbuf for the ACL header; term: a disconnection      *)
(* event with an error status; dup: a completion for a packet never sent.  *)
Faults == {"lost", "nofrag", "nomem", "term", "dup"}

ASSUME SizesAssumption == MaxPkts \in Nat \ {0} /\ MaxFrags \in Nat \ {0}

ASSUME HandlesAssumption == IsFiniteSet(Handles)

ASSUME BoundsAssumption ==
    MaxSends \in Nat /\ MaxEvents \in Nat /\ MaxFaults \in Nat

VARIABLES
    conns,      \* ble_hs_conns: connected handles, the newest first
    out,        \* bhc_outstanding_pkts
    frag,       \* BLE_HS_CONN_F_TX_FRAG
    txq,        \* bhc_tx_q
    avail,      \* ble_hs_hci_avail_pkts
    host,       \* what the host task is doing, and for which connection
    links,      \* the controller: handles with a link
    held,       \* the controller: fragments it holds for each link
    events,     \* events queued for the host task
    sent,       \* packets sent so far
    wire,       \* fragments the controller accepted on each connection
    gone,       \* credits spent on connections whose credits were returned
    honest,     \* the controller reported no packet it did not have
    faults      \* faults that happened

connVars == <<conns, out, frag, txq, wire>>
llVars   == <<links, held>>
vars     == <<connVars, sent, avail, host, llVars, events, gone, honest, faults>>

Packets   == [id : Nat \ {0}, of : 1 .. MaxFrags, done : Nat]
Fragments == [id : Nat \ {0}, no : Nat \ {0}, pb : {"first", "middle"}]
Events    == [type : {"conn", "disc", "fail", "comp", "reset"},
              h : Handles \cup {0}, n : Nat]
Idle      == [at |-> "idle", h |-> 0, i |-> 0]

TypeOK ==
    /\ conns \in Seq(Handles)
    /\ out \in [Handles -> Nat]
    /\ frag \in [Handles -> BOOLEAN]
    /\ txq \in [Handles -> Seq(Packets)]
    /\ avail \in Nat
    /\ host \in [at : {"idle", "broken", "wake", "first", "all", "reset"},
                 h : Handles \cup {0}, i : Nat]
    /\ links \subseteq Handles
    /\ held \in [Handles -> Nat]
    /\ events \in Seq(Events)
    /\ sent \in Nat
    /\ wire \in [Handles -> Seq(Fragments)]
    /\ gone \in Nat /\ honest \in BOOLEAN
    /\ faults \subseteq Faults

Init ==
    /\ conns = <<>> /\ links = {} /\ events = <<>> /\ sent = 0
    /\ out = [h \in Handles |-> 0]
    /\ frag = [h \in Handles |-> FALSE]
    /\ txq = [h \in Handles |-> <<>>]
    /\ wire = [h \in Handles |-> <<>>]
    /\ held = [h \in Handles |-> 0]
    /\ avail = MaxPkts
    /\ host = Idle
    /\ gone = 0 /\ honest = TRUE
    /\ faults = {}

Connected(h) == Contains(conns, h)

(* The host lock is held over more than one action only while the queues   *)
(* are served.                                                             *)
Unlocked == host.at \notin {"first", "all"}

Blame(f) ==
    /\ f \notin faults /\ Cardinality(faults) < MaxFaults
    /\ faults' = faults \cup {f}

-----------------------------------------------------------------------------
(* ble_hs_hci_acl_tx_now: hand over fragments of packet p while there are  *)
(* credits.                                                                *)

(* The sum of f over the handles in S, counted buffer by buffer.           *)
Buffers(f, S) == UNION {{h} \X (1 .. f[h]) : h \in S}
Total(f, S)   == Cardinality(Buffers(f, S))

Held == Total(held, Handles)
Room == MaxPkts - Held

(* How many fragments were handed over and how the call ended: the packet  *)
(* is complete, the rest must wait, or the rest was freed.  A controller   *)
(* that is full refuses a fragment (ble_transport_to_ll_acl_impl); data    *)
(* for a link that is gone is refused or swallowed.                        *)
Ended(p, n) == IF p.done + n = p.of THEN "sent" ELSE "again"

Outcomes(h, p) ==
    LET want == Min({p.of - p.done, avail})
        fits == IF h \in links THEN {Min({want, Room})} ELSE {0, want}
    IN  {[n |-> k, res |-> IF k < want THEN "error" ELSE Ended(p, k)] : k \in fits}

(* The same call when it runs out of mbufs after fewer fragments: for a    *)
(* fragment that must be split off, or for the header.                     *)
NoFrag(h, p) ==
    {[n |-> k, res |-> "again"] : k \in
        {j \in 0 .. MaxFrags : \E o \in Outcomes(h, p) : j < o.n /\ p.done + j + 1 < p.of}}

NoMem(h, p) ==
    {[n |-> k, res |-> "error"] : k \in
        {j \in 0 .. MaxFrags : \E o \in Outcomes(h, p) : j < o.n}}

(* Mutant: every call marks its first fragment as the first of a packet.   *)
EmittedFirst(h, p, n) ==
    [k \in 1 .. n |-> [id |-> p.id, no |-> p.done + k,
                       pb |-> IF k = 1 THEN "first" ELSE "middle"]]

(* The packet boundary flag comes from TX_FRAG, not from the packet.       *)
Emitted(h, p, n) ==
    [k \in 1 .. n |-> [id |-> p.id, no |-> p.done + k,
                       pb |-> IF k = 1 /\ ~frag[h] THEN "first" ELSE "middle"]]

(* Mutant: a packet that failed gives its credits back at once.            *)
HandOverRefund(h, p, o) ==
    LET n == IF o.res = "error" THEN 0 ELSE o.n
    IN  /\ wire' = [wire EXCEPT ![h] = @ \o Emitted(h, p, o.n)]
        /\ out' = [out EXCEPT ![h] = @ + n]
        /\ avail' = avail - n
        /\ held' = IF h \in links THEN [held EXCEPT ![h] = @ + o.n] ELSE held
        /\ frag' = [frag EXCEPT ![h] = o.res = "again" /\ (@ \/ o.n > 0)]
        /\ gone' = IF host.at = "broken" /\ host.h = h THEN gone + n ELSE gone

HandOver(h, p, o) ==
    /\ wire' = [wire EXCEPT ![h] = @ \o Emitted(h, p, o.n)]
    /\ out' = [out EXCEPT ![h] = @ + o.n]
    /\ avail' = avail - o.n
    /\ held' = IF h \in links THEN [held EXCEPT ![h] = @ + o.n] ELSE held
    /\ frag' = [frag EXCEPT ![h] = o.res = "again" /\ (@ \/ o.n > 0)]
    /\ gone' = IF host.at = "broken" /\ host.h = h THEN gone + o.n ELSE gone

TxNow(h, p, o) ==
    /\ \/ o \in Outcomes(h, p) /\ UNCHANGED faults
       \/ o \in NoFrag(h, p) /\ Blame("nofrag")
       \/ o \in NoMem(h, p) /\ Blame("nomem")
    /\ HandOver(h, p, o)

Results == [n : 0 .. MaxFrags, res : {"sent", "again", "error"}]

Rest(p, o) == IF o.res = "again" THEN <<[p EXCEPT !.done = @ + o.n]>> ELSE <<>>

-----------------------------------------------------------------------------
(* A task sends a packet: ble_l2cap_tx, ble_hs_hci_acl_tx.                 *)
NewPacket(n) == [id |-> sent + 1, of |-> n, done |-> 0]

Sending(h) ==
    /\ Unlocked /\ Connected(h) /\ sent < MaxSends
    /\ sent' = sent + 1
    /\ UNCHANGED <<conns, host, links, events, honest>>

Queue(h, n) ==
    /\ Sending(h)
    /\ txq[h] # <<>>
    /\ txq' = [txq EXCEPT ![h] = Append(@, NewPacket(n))]
    /\ UNCHANGED <<out, frag, wire, avail, held, gone, faults>>

Transmit(h, n) ==
    /\ Sending(h)
    /\ txq[h] = <<>>
    /\ \E o \in Results :
         /\ TxNow(h, NewPacket(n), o)
         /\ txq' = [txq EXCEPT ![h] = @ \o Rest(NewPacket(n), o)]

-----------------------------------------------------------------------------
(* The host task: ble_hs_wakeup_tx.                                        *)

(* Take the lock.  A connection with a partly transmitted packet is served *)
(* before the others.                                                      *)
WakeupTx ==
    /\ host.at = "wake"
    /\ LET i == SelectInSeq(conns, LAMBDA h : frag[h])
       IN  host' = IF i > 0 THEN [at |-> "first", h |-> 0, i |-> i]
                            ELSE [at |-> "all", h |-> 0, i |-> 1]
    /\ UNCHANGED <<connVars, sent, avail, llVars, events, gone, honest, faults>>

(* ble_hs_wakeup_tx_conn, one packet of the queue at a time.               *)
WakeupTxConn ==
    /\ host.at \in {"first", "all"} /\ host.i <= Len(conns)
    /\ LET h == conns[host.i]
       IN  /\ txq[h] # <<>>
           /\ \E o \in Results :
                /\ TxNow(h, Head(txq[h]), o)
                /\ txq' = [txq EXCEPT ![h] = Rest(Head(@), o) \o Tail(@)]
                /\ host' = IF o.res = "again" THEN Idle ELSE host
    /\ UNCHANGED <<conns, sent, links, events, honest>>

WakeupNext ==
    /\ host.at \in {"first", "all"}
    /\ host.i <= Len(conns) => txq[conns[host.i]] = <<>>
    /\ host' = IF host.i > Len(conns) THEN Idle
               ELSE IF host.at = "first" THEN [at |-> "all", h |-> 0, i |-> 1]
               ELSE [host EXCEPT !.i = @ + 1]
    /\ UNCHANGED <<connVars, sent, avail, llVars, events, gone, honest, faults>>

-----------------------------------------------------------------------------
(* The host task: events.                                                  *)

Event(type) ==
    /\ host.at = "idle" /\ events # <<>> /\ Head(events).type = type

(* ble_gap_rx_conn_complete: an event for a known handle changes nothing;  *)
(* the host is advertising or connecting, so that others are accepted.     *)
ConnComplete ==
    /\ Event("conn")
    /\ LET h == Head(events).h
       IN  /\ conns' = IF Connected(h) THEN conns ELSE <<h>> \o conns
           /\ events' = Tail(events)
    /\ UNCHANGED <<out, frag, txq, sent, wire, avail, host, llVars, gone, honest, faults>>

(* ble_hs_hci_evt_num_completed_pkts.  ble_hs_sched_reset queues the reset *)
(* event once; the credits are returned all the same.                      *)
SchedReset(q) ==
    IF \E i \in DOMAIN q : q[i].type = "reset" THEN q
    ELSE Append(q, [type |-> "reset", h |-> 0, n |-> 0])

NumCompletedPkts ==
    /\ Event("comp")
    /\ LET h == Head(events).h
           n == Head(events).n
       IN  IF Connected(h)
           THEN /\ avail' = avail + n
                /\ out' = [out EXCEPT ![h] = IF @ < n THEN @ ELSE @ - n]
                /\ events' = IF out[h] < n THEN SchedReset(Tail(events)) ELSE Tail(events)
           ELSE /\ events' = Tail(events)
                /\ UNCHANGED <<avail, out>>
    /\ host' = [host EXCEPT !.at = "wake"]
    /\ UNCHANGED <<conns, frag, txq, sent, wire, llVars, gone, honest, faults>>

(* Mutant: the credits of a broken connection are not returned.            *)
DisconnForgets ==
    /\ Event("disc") \/ Event("fail")
    /\ LET h == Head(events).h
           failed == Head(events).type = "fail"
       IN  host' = IF failed \/ ~Connected(h) THEN [host EXCEPT !.at = "wake"]
                   ELSE [at |-> "broken", h |-> h, i |-> 0]
    /\ events' = Tail(events)
    /\ UNCHANGED <<connVars, sent, avail, llVars, gone, honest, faults>>

(* ble_hs_hci_evt_disconn_complete, up to ble_gap_rx_disconn_complete: the *)
(* credits of the connection come back, also when the event says that the  *)
(* disconnection failed.                                                   *)
DisconnComplete ==
    /\ Event("disc") \/ Event("fail")
    /\ LET h == Head(events).h
           failed == Head(events).type = "fail"
       IN  /\ avail' = IF Connected(h) THEN avail + out[h] ELSE avail
           /\ host' = IF failed \/ ~Connected(h) THEN [host EXCEPT !.at = "wake"]
                      ELSE [at |-> "broken", h |-> h, i |-> 0]
    /\ events' = Tail(events)
    /\ UNCHANGED <<connVars, sent, llVars, gone, honest, faults>>

(* ble_hs_atomic_conn_delete: the queue is freed with the connection.      *)
Forget(h) ==
    /\ conns' = RemoveFirst(conns, h)
    /\ out' = [out EXCEPT ![h] = 0]
    /\ frag' = [frag EXCEPT ![h] = FALSE]
    /\ txq' = [txq EXCEPT ![h] = <<>>]
    /\ wire' = [wire EXCEPT ![h] = <<>>]

(* Mutant: the queues are not served after a disconnection.                *)
ConnBrokenNoWakeup ==
    /\ host.at = "broken"
    /\ Forget(host.h)
    /\ host' = Idle
    /\ UNCHANGED <<sent, avail, llVars, events, gone, honest, faults>>

(* ble_gap_conn_broken.                                                    *)
ConnBroken ==
    /\ host.at = "broken"
    /\ Forget(host.h)
    /\ host' = [at |-> "wake", h |-> 0, i |-> 0]
    /\ UNCHANGED <<sent, avail, llVars, events, gone, honest, faults>>

(* ble_hs_reset: ble_gap_reset_state breaks every connection; then the     *)
(* startup sequence resets the controller and sets the credits.            *)
StartReset ==
    /\ Event("reset")
    /\ host' = [host EXCEPT !.at = "reset"]
    /\ events' = Tail(events)
    /\ UNCHANGED <<connVars, sent, avail, llVars, gone, honest, faults>>

ResetState ==
    /\ host.at = "reset" /\ conns # <<>>
    /\ Forget(Head(conns))
    /\ UNCHANGED <<sent, avail, host, llVars, events, gone, honest, faults>>

SetBufSz ==
    /\ host.at = "reset" /\ conns = <<>>
    /\ avail' = MaxPkts /\ gone' = 0 /\ honest' = (events = <<>>)
    /\ links' = {} /\ held' = [h \in Handles |-> 0]
    /\ host' = Idle
    /\ UNCHANGED <<connVars, sent, events, faults>>

-----------------------------------------------------------------------------
(* The controller (external).  Its events reach the host in order.         *)

Report(type, h, n) == events' = Append(events, [type |-> type, h |-> h, n |-> n])

QueueFree == Len(events) < MaxEvents

LlVarsHost == <<connVars, sent, avail, host, gone, honest>>

(* Connections of the host whose end the controller will not report: the   *)
(* connection event was queued before the host reset the controller, and   *)
(* is handled after the reset.                                             *)
Zombies ==
    {h \in Handles : /\ Connected(h) /\ h \notin links /\ host.h # h
                     /\ \A i \in DOMAIN events : events[i].h # h}

(* A handle is used again once the host has forgotten it, or will not hear *)
(* of its end.                                                             *)
LlConnect(h) ==
    /\ h \notin links /\ (~Connected(h) \/ h \in Zombies)
    /\ \A i \in DOMAIN events : events[i].h # h
    /\ QueueFree
    /\ links' = links \cup {h}
    /\ Report("conn", h, 0)
    /\ UNCHANGED <<LlVarsHost, held, faults>>

LlComplete(h, n) ==
    /\ h \in links /\ n \in 1 .. held[h]
    /\ held' = [held EXCEPT ![h] = @ - n]
    /\ \/ Report("comp", h, n) /\ UNCHANGED faults
       \/ Blame("lost") /\ UNCHANGED events
    /\ UNCHANGED <<LlVarsHost, links>>

LlDisconnect(h) ==
    /\ h \in links /\ QueueFree
    /\ links' = links \ {h}
    /\ held' = [held EXCEPT ![h] = 0]
    /\ Report("disc", h, 0)
    /\ UNCHANGED <<LlVarsHost, faults>>

LlTermFailure(h) ==
    /\ h \in links /\ QueueFree /\ Blame("term") /\ Report("fail", h, 0)
    /\ honest' = FALSE
    /\ UNCHANGED <<connVars, sent, avail, host, gone, llVars>>

LlDuplicate(h) ==
    /\ h \in links /\ QueueFree /\ Blame("dup") /\ Report("comp", h, 1)
    /\ honest' = FALSE
    /\ UNCHANGED <<connVars, sent, avail, host, gone, llVars>>

-----------------------------------------------------------------------------
HostStep ==
    \/ WakeupTx \/ WakeupTxConn \/ WakeupNext
    \/ ConnComplete \/ NumCompletedPkts \/ DisconnComplete \/ ConnBroken
    \/ StartReset \/ ResetState \/ SetBufSz

TaskStep == \E h \in Handles, n \in 1 .. MaxFrags : Queue(h, n) \/ Transmit(h, n)

LlStep ==
    \E h \in Handles :
      \/ LlConnect(h) \/ LlDisconnect(h) \/ LlTermFailure(h) \/ LlDuplicate(h)
      \/ \E n \in 1 .. MaxPkts : LlComplete(h, n)

Next == HostStep \/ TaskStep \/ LlStep

Spec == Init /\ [][Next]_vars

(* The host task runs when it has something to do, and a link delivers     *)
(* what the controller holds for it or breaks.                             *)
FairSpec ==
    /\ Spec
    /\ WF_vars(HostStep)
    /\ \A h \in Handles : WF_vars(\E n \in 1 .. MaxPkts : LlComplete(h, n))

-----------------------------------------------------------------------------
(* Properties.                                                             *)

(* Credits are neither made nor lost: as long as the controller reports    *)
(* the truth, every buffer is available, outstanding on a connection, or   *)
(* was spent on a connection after ble_hs_hci_evt_disconn_complete had     *)
(* returned its credits and before the connection was removed.             *)
Owing == {h \in Handles : Connected(h) /\ ~(host.at = "broken" /\ host.h = h)}

CreditsConserved ==
    honest => avail + Total(out, Owing) + gone = MaxPkts

(* The host never counts on a buffer that the controller does not have     *)
(* free, whatever is in flight, lost or broken: no fragment of a live link *)
(* is refused, so no packet is cut short for want of a buffer.             *)
NeverOverrun == honest => avail \in 0 .. Room

(* On every connection the controller gets whole packets in the order in   *)
(* which they were sent: "first" marks exactly the first fragment of a     *)
(* packet, and each other fragment follows its predecessor directly; only  *)
(* the tail of a packet may be missing (ble_hs_hci_acl_tx_now freed it).   *)
WireWellFormed ==
    \A h \in Handles : \A i \in DOMAIN wire[h] :
        LET f == wire[h][i]
        IN  /\ f.pb = "first" <=> f.no = 1
            /\ f.no > 1 => /\ i > 1
                           /\ wire[h][i - 1].id = f.id
                           /\ wire[h][i - 1].no = f.no - 1
            /\ i > 1 /\ f.no = 1 => wire[h][i - 1].id < f.id

(* TX_FRAG says that the packet at the head of the queue is partly sent,   *)
(* and nothing else: a stale flag would start a packet with a "middle"     *)
(* fragment, a missing one would start it twice.  No other packet of the   *)
(* queue was begun, and none is complete.                                  *)
FragMeansHead ==
    \A h \in Handles :
        /\ frag[h] <=> txq[h] # <<>> /\ Head(txq[h]).done > 0
        /\ \A i \in DOMAIN txq[h] : /\ txq[h][i].done < txq[h][i].of
                                    /\ i > 1 => txq[h][i].done = 0

(* A packet that waits is sent or freed in the end: buffers that come free *)
(* always wake the queues.  Not so when completions were lost, when the    *)
(* host ran out of mbufs (nothing retries then), when every credit was     *)
(* spent on a link that was going away, or when a reset made the host keep *)
(* a connection that the controller forgot (Zombies).                      *)
Starved ==
    \/ faults \cap {"lost", "nofrag", "dup"} # {}
    \/ gone >= MaxPkts

QueuesDrain == \A h \in Handles : txq[h] # <<>> ~> txq[h] = <<>> \/ Starved
=============================================================================
