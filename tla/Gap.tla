-------------------------------- MODULE Gap ---------------------------------
(***************************************************************************)
(* The GAP procedures of ble_gap.c with legacy advertising: connecting and *)
(* discovering (ble_gap_master), advertising (ble_gap_slave), their        *)
(* timeouts, cancellation, and preemption while the resolving list is      *)
(* changed.                                                                *)
(*                                                                         *)
(* A call of the API holds the host lock while its HCI commands wait for   *)
(* their answers.  The host task, which reads the controller's events and  *)
(* runs the timers, looks at the same state without the lock and takes it  *)
(* only to extract the callback: between its steps other tasks run, and it *)
(* runs while they wait for an answer.  Applications may outrank it.       *)
(*                                                                         *)
(* An event of the controller is dropped when the host's pool of events is *)
(* empty (ble_hs_enqueue_hci_event).  Nothing recovers from one that ends  *)
(* a connection attempt: ble_gap_master_timer says so in an XXX comment.   *)
(***************************************************************************)
EXTENDS Naturals, Sequences, FiniteSets

CONSTANTS
    Apps,           \* tasks other than the host task
    Host,           \* the host task, whose callbacks call the API too
    NoTask,
    MaxCalls,       \* bound: calls of the API
    MaxConns,       \* BLE_MAX_CONNECTIONS
    MaxFaults       \* bound: commands the controller refuses and events dropped

ASSUME TasksAssumption == Host \notin Apps /\ NoTask \notin Apps \cup {Host}

ASSUME BoundsAssumption == MaxCalls \in Nat /\ MaxConns \in Nat /\ MaxFaults \in Nat

VARIABLES
    master,         \* ble_gap_master: op, exp_set, conn.cancel, preempted_op, cb
    slave,          \* ble_gap_slave[0]: op, exp_set, connectable, preempted, cb
    conns,          \* links in the table of connections
    lock, hci,      \* holders of the host lock and of the command channel
    ctx,            \* what each task is doing
    ll,             \* the controller: initiating, scanning, advertising, links
    events,         \* the controller's events the host task has yet to handle
    procs,          \* the procedures begun, in order, and what became of them
    crossed,        \* history: a call, or a timeout of advertising, met an end of
                    \* the procedure that was on its way (see AdvOver, DiscEnding)
    calls, refused,
    lost            \* events dropped for want of a buffer

vars == <<master, slave, conns, lock, hci, ctx, ll, events, procs, crossed, calls, refused, lost>>

Tasks == Apps \cup {Host}
None  == 0

Idle == [at |-> "idle", call |-> "none", id |-> None, link |-> None, timed |-> FALSE,
         ok |-> TRUE]

Init ==
    /\ master = [op |-> "null", exp |-> FALSE, cancel |-> FALSE, pre |-> "null", cb |-> None]
    /\ slave = [op |-> FALSE, exp |-> FALSE, connectable |-> FALSE, pre |-> FALSE, cb |-> None]
    /\ conns = {} /\ lock = NoTask /\ hci = NoTask
    /\ ctx = [t \in Tasks |-> Idle]
    /\ ll = [init |-> FALSE, scan |-> FALSE, adv |-> "off", links |-> 0]
    /\ events = <<>> /\ procs = <<>>
    /\ crossed = FALSE /\ calls = 0 /\ refused = 0 /\ lost = {}
(* Mutant: the timer is left armed.                                        *)
MasterReset_KeepsTimer(m) == [m EXCEPT !.op = "null", !.cancel = FALSE]

(* ble_gap_master_reset_state, ble_gap_slave_reset_state.                  *)
MasterReset(m) == [m EXCEPT !.op = "null", !.exp = FALSE, !.cancel = FALSE]

SlaveReset(s) == [s EXCEPT !.op = FALSE, !.exp = FALSE]

IsPreempted == master.pre # "null" \/ slave.pre

(* The final event of a procedure reaches its callback.                    *)
Deliver(ps, id, kind) ==
    IF id = None THEN ps ELSE [ps EXCEPT ![id].got = Append(@, kind)]

Stat(ps, id, s) == IF id = None THEN ps ELSE [ps EXCEPT ![id].stat = s]

-----------------------------------------------------------------------------
(* Calls of the API up to their first HCI command that matters.            *)

MayCall(t) ==
    /\ ctx[t].at = "idle" /\ lock = NoTask
    /\ calls < MaxCalls /\ calls' = calls + 1

Call(t, call, id, timed) ==
    /\ lock' = t
    /\ ctx' = [ctx EXCEPT ![t] = [Idle EXCEPT !.at = "send", !.call = call, !.id = id, !.timed = timed]]

Begin(kind, timed) ==
    Append(procs, [kind |-> kind, timed |-> timed, stat |-> "starting", got |-> <<>>])

NewId == Len(procs) + 1

(* ble_hs_conn_can_alloc: one more connection.  The one the host task has  *)
(* yet to insert is allocated.  None is set aside for a procedure.         *)
CanAlloc == Cardinality(conns) + (IF ctx[Host].at = "insert" THEN 1 ELSE 0) < MaxConns

(* ble_gap_connect: sets the state, then sends the command.                *)
Connect(t, timed) ==
    /\ MayCall(t)
    /\ master.op = "null" /\ ~IsPreempted /\ CanAlloc
    /\ procs' = Begin("conn", timed)
    /\ master' = [master EXCEPT !.op = "conn", !.cb = NewId]
    /\ Call(t, "connect", NewId, timed)
    /\ UNCHANGED <<slave, conns, hci, ll, events, crossed, refused, lost>>

(* ble_gap_disc: the parameters have been accepted when op is set.         *)
Disc(t, timed) ==
    /\ MayCall(t)
    /\ master.op = "null" /\ ~IsPreempted
    /\ procs' = Begin("disc", timed)
    /\ master' = [master EXCEPT !.op = "disc", !.cb = NewId]
    /\ Call(t, "disc", NewId, timed)
    /\ UNCHANGED <<slave, conns, hci, ll, events, crossed, refused, lost>>

(* The host task is about to report the end of advertising, whose state it *)
(* has already reset.                                                      *)
AdvEnding == ctx[Host].at = "adv_finished"

(* ble_gap_adv_start.                                                      *)
AdvStart(t, timed, connectable) ==
    /\ MayCall(t)
    /\ ~slave.op /\ ~IsPreempted
    /\ connectable => CanAlloc
    /\ procs' = Begin("adv", timed)
    /\ slave' = [slave EXCEPT !.op = TRUE, !.cb = NewId, !.connectable = connectable]
    /\ Call(t, "adv", NewId, timed)
    /\ crossed' = (crossed \/ AdvEnding)
    /\ UNCHANGED <<master, conns, hci, ll, events, refused, lost>>

(* ble_gap_conn_cancel, ble_gap_disc_cancel: of the procedure in progress. *)
Cancel(t) ==
    /\ MayCall(t)
    /\ master.op # "null"
    /\ Call(t, IF master.op = "conn" THEN "conn_cancel" ELSE "disc_cancel", master.cb, FALSE)
    /\ UNCHANGED <<master, slave, conns, hci, ll, events, procs, crossed, refused, lost>>

(* ble_gap_adv_stop sends its command even if nothing is advertised;       *)
(* calls with no effect at all are left out.                               *)
AdvStop(t) ==
    /\ MayCall(t)
    /\ slave.op
    /\ Call(t, "adv_stop", slave.cb, FALSE)
    /\ UNCHANGED <<master, slave, conns, hci, ll, events, procs, crossed, refused, lost>>

(* ble_gap_preempt by ble_hs_pvcy_add_entry or ble_hs_stop: first stop     *)
(* advertising; nothing happens if GAP is preempted already.               *)
Preempt(t) ==
    /\ MayCall(t)
    /\ \/ ~IsPreempted /\ Call(t, "pre_adv", IF slave.op THEN slave.cb ELSE None, FALSE)
       \/ /\ IsPreempted
          /\ ctx' = [ctx EXCEPT ![t].at = "preempting"]
          /\ UNCHANGED lock
    /\ UNCHANGED <<master, slave, conns, hci, ll, events, procs, crossed, refused, lost>>

-----------------------------------------------------------------------------
(* The commands and what the controller does with them.                    *)

TimerCalls == {"timer_conn", "timer_disc", "timer_adv"}

(* Cancelling a connection attempt that is over is disallowed.             *)
Accepts(call) == call \in {"conn_cancel", "pre_conn", "timer_conn"} => ll.init

MayFail == refused + Cardinality(lost) < MaxFaults

(* ble_hs_enqueue_hci_event: the event is queued for the host task, or     *)
(* dropped when the pool is empty.                                         *)
Emit(e) ==
    \/ events' = Append(events, e) /\ UNCHANGED lost
    \/ MayFail /\ lost' = lost \cup {e} /\ UNCHANGED events

Executed(call) ==
    /\ ll' = CASE call = "connect" -> [ll EXCEPT !.init = TRUE]
               [] call \in {"conn_cancel", "pre_conn", "timer_conn"} -> [ll EXCEPT !.init = FALSE]
               [] call = "disc" -> [ll EXCEPT !.scan = TRUE]
               [] call \in {"disc_cancel", "pre_disc", "timer_disc"} -> [ll EXCEPT !.scan = FALSE]
               [] call = "adv" -> [ll EXCEPT !.adv = IF slave.connectable THEN "conn" ELSE "non"]
               [] call \in {"adv_stop", "pre_adv", "timer_adv"} -> [ll EXCEPT !.adv = "off"]
    /\ IF call \in {"conn_cancel", "pre_conn", "timer_conn"}
       THEN Emit([type |-> "cancelled", link |-> None]) ELSE UNCHANGED <<events, lost>>

(* ble_hs_hci_cmd_tx, up to the wait for the answer.                       *)
Send(t) ==
    LET c == ctx[t].call IN
    /\ ctx[t].at = "send" /\ hci = NoTask
    /\ hci' = t
    /\ \/ /\ Accepts(c) /\ Executed(c)
          /\ ctx' = [ctx EXCEPT ![t].at = "ack", ![t].ok = TRUE]
          /\ UNCHANGED refused
       \/ /\ Accepts(c) => MayFail
          /\ refused' = IF Accepts(c) THEN refused + 1 ELSE refused
          /\ ctx' = [ctx EXCEPT ![t].at = "ack", ![t].ok = FALSE]
          /\ UNCHANGED <<ll, events, lost>>
    /\ UNCHANGED <<master, slave, conns, lock, procs, crossed, calls>>

-----------------------------------------------------------------------------
(* The rest of a call, once its command was answered.                      *)

Answered(t, which) == ctx[t].at = "ack" /\ ctx[t].call \in which /\ hci = t

Leave(t) ==
    /\ hci' = NoTask /\ lock' = NoTask
    /\ ctx' = [ctx EXCEPT ![t] = Idle]
(* Mutant: a refused start leaves the procedure in progress.               *)
MasterStarted_KeepsOp(t) ==
    /\ Answered(t, {"connect", "disc"})
    /\ master' = IF ctx[t].ok THEN [master EXCEPT !.exp = @ \/ ctx[t].timed] ELSE master
    /\ procs' = Stat(procs, ctx[t].id, IF ctx[t].ok THEN "active" ELSE "failed")
    /\ crossed' = (crossed \/ (ctx[t].ok /\ ctx[t].timed /\ master.op = "null"))
    /\ Leave(t)
    /\ UNCHANGED <<slave, conns, ll, events, calls, refused, lost>>

(* Start of a procedure: arm its timer, or take it back.  The host task    *)
(* may have handled its end already: the timer is then nobody's.           *)
MasterStarted(t) ==
    /\ Answered(t, {"connect", "disc"})
    /\ master' = IF ctx[t].ok THEN [master EXCEPT !.exp = @ \/ ctx[t].timed] ELSE MasterReset(master)
    /\ procs' = Stat(procs, ctx[t].id, IF ctx[t].ok THEN "active" ELSE "failed")
    /\ crossed' = (crossed \/ (ctx[t].ok /\ ctx[t].timed /\ master.op = "null"))
    /\ Leave(t)
    /\ UNCHANGED <<slave, conns, ll, events, calls, refused, lost>>

AdvStarted(t) ==
    /\ Answered(t, {"adv"})
    /\ slave' = IF ctx[t].ok THEN [slave EXCEPT !.exp = @ \/ ctx[t].timed] ELSE SlaveReset(slave)
    /\ procs' = Stat(procs, ctx[t].id, IF ctx[t].ok THEN "active" ELSE "failed")
    /\ crossed' = (crossed \/ (ctx[t].ok /\ ctx[t].timed /\ ~slave.op))
    /\ Leave(t)
    /\ UNCHANGED <<master, conns, ll, events, calls, refused, lost>>

(* The connection-complete event will end the procedure.                   *)
ConnCancelled(t) ==
    /\ Answered(t, {"conn_cancel"})
    /\ master' = IF ctx[t].ok THEN [master EXCEPT !.cancel = TRUE] ELSE master
    /\ Leave(t)
    /\ UNCHANGED <<slave, conns, ll, events, procs, crossed, calls, refused, lost>>

(* The host task is between the end of discovery and its report.           *)
DiscEnding == ctx[Host].call = "timer_disc"

DiscCancelled(t) ==
    /\ Answered(t, {"disc_cancel"})
    /\ master' = IF ctx[t].ok THEN MasterReset(master) ELSE master
    /\ procs' = IF ctx[t].ok THEN Stat(procs, ctx[t].id, "stopped") ELSE procs
    /\ crossed' = (crossed \/ (ctx[t].ok /\ DiscEnding))
    /\ Leave(t)
    /\ UNCHANGED <<slave, conns, ll, events, calls, refused, lost>>

(* The end of advertising is queued, or the host task is reporting it.     *)
AdvQueued == \E i \in DOMAIN events : events[i].type \in {"slave", "dir_timeout"}

AdvOver ==
    \/ AdvQueued
    \/ ctx[Host].call = "timer_adv" \/ AdvEnding
    \/ ctx[Host].at = "insert" /\ ctx[Host].call = "adv"

AdvStopped(t) ==
    /\ Answered(t, {"adv_stop"})
    /\ slave' = IF ctx[t].ok THEN SlaveReset(slave) ELSE slave
    /\ procs' = IF ctx[t].ok THEN Stat(procs, ctx[t].id, "stopped") ELSE procs
    /\ crossed' = (crossed \/ (ctx[t].ok /\ AdvOver))
    /\ Leave(t)
    /\ UNCHANGED <<master, conns, ll, events, calls, refused, lost>>

(* ble_gap_preempt_no_lock goes on with the procedure of the master, or    *)
(* returns to its caller, which changes the resolving list.                *)
GoOn(t, op) ==
    /\ hci' = NoTask
    /\ \/ /\ op # "null"
          /\ ctx' = [ctx EXCEPT ![t].at = "send", ![t].id = None,
                                ![t].call = IF op = "conn" THEN "pre_conn" ELSE "pre_disc"]
          /\ UNCHANGED lock
       \/ /\ op = "null"
          /\ ctx' = [ctx EXCEPT ![t] = [Idle EXCEPT !.at = "preempting"]]
          /\ lock' = NoTask

PreAdv(t) ==
    /\ Answered(t, {"pre_adv"})
    /\ slave' = IF ctx[t].ok
                THEN [SlaveReset(slave) EXCEPT !.pre = ctx[t].id # None] ELSE slave
    /\ crossed' = (crossed \/ (ctx[t].ok /\ AdvOver))
    /\ GoOn(t, master.op)
    /\ UNCHANGED <<master, conns, ll, events, procs, calls, refused, lost>>

PreMaster(t) ==
    /\ Answered(t, {"pre_conn", "pre_disc"})
    /\ master' = CASE ~ctx[t].ok -> master
                   [] ctx[t].ok /\ ctx[t].call = "pre_conn" -> [master EXCEPT !.cancel = TRUE, !.pre = "conn"]
                   [] ctx[t].ok /\ ctx[t].call = "pre_disc" -> [MasterReset(master) EXCEPT !.pre = "disc"]
    /\ crossed' = (crossed \/ (ctx[t].ok /\ ctx[t].call = "pre_disc" /\ DiscEnding))
    /\ GoOn(t, "null")
    /\ UNCHANGED <<slave, conns, ll, events, procs, calls, refused, lost>>
(* Mutant: advertising stays preempted.                                    *)
PreemptDone_Again(t) ==
    /\ ctx[t].at = "preempting" /\ lock = NoTask
    /\ slave' = slave
    /\ master' = IF master.pre = "disc" THEN [master EXCEPT !.pre = "null"] ELSE master
    /\ procs' = Deliver(Deliver(procs, IF slave.pre THEN slave.cb ELSE None, "adv"),
                        IF master.pre = "disc" THEN master.cb ELSE None, "disc")
    /\ ctx' = [ctx EXCEPT ![t] = Idle]
    /\ UNCHANGED <<conns, lock, hci, ll, events, crossed, calls, refused, lost>>

(* ble_gap_preempt_done: report what was stopped.  A connection attempt is *)
(* reported by its own event.                                              *)
PreemptDone(t) ==
    /\ ctx[t].at = "preempting" /\ lock = NoTask
    /\ slave' = [slave EXCEPT !.pre = FALSE]
    /\ master' = IF master.pre = "disc" THEN [master EXCEPT !.pre = "null"] ELSE master
    /\ procs' = Deliver(Deliver(procs, IF slave.pre THEN slave.cb ELSE None, "adv"),
                        IF master.pre = "disc" THEN master.cb ELSE None, "disc")
    /\ ctx' = [ctx EXCEPT ![t] = Idle]
    /\ UNCHANGED <<conns, lock, hci, ll, events, crossed, calls, refused, lost>>

-----------------------------------------------------------------------------
(* The controller on its own.                                              *)

Notify(e) == Emit([type |-> e, link |-> ll.links + 1])

LlConnected ==
    /\ \/ ll.init /\ ll' = [ll EXCEPT !.init = FALSE, !.links = @ + 1] /\ Notify("master")
       \/ ll.adv = "conn" /\ ll' = [ll EXCEPT !.adv = "off", !.links = @ + 1] /\ Notify("slave")
    /\ UNCHANGED <<master, slave, conns, lock, hci, ctx, procs, crossed, calls, refused>>

(* High-duty directed advertising gives up after 1.28 seconds.             *)
LlDirTimeout ==
    /\ ll.adv = "conn"
    /\ ll' = [ll EXCEPT !.adv = "off"]
    /\ Notify("dir_timeout")
    /\ UNCHANGED <<master, slave, conns, lock, hci, ctx, procs, crossed, calls, refused>>

-----------------------------------------------------------------------------
(* The host task.                                                          *)

HostGoto(at, call) == ctx' = [ctx EXCEPT ![Host] = [Idle EXCEPT !.at = at, !.call = call]]

GotoInsert(kind, cb) ==
    ctx' = [ctx EXCEPT ![Host] = [Idle EXCEPT !.at = "insert", !.call = kind, !.id = cb,
                                              !.link = Head(events).link]]

Rx(type) ==
    /\ ctx[Host].at = "idle" /\ events # <<>> /\ Head(events).type = type
    /\ events' = Tail(events)

(* ble_gap_rx_conn_complete for a new link: the callback is copied and the *)
(* procedure's state reset without the lock; a link that no procedure      *)
(* accounts for is ignored.                                                *)
RxMaster ==
    /\ Rx("master")
    /\ \/ /\ master.op = "conn" /\ CanAlloc
          /\ master' = MasterReset(master)
          /\ GotoInsert("conn", master.cb)
       \/ master.op # "conn" /\ UNCHANGED <<master, ctx>>
    /\ UNCHANGED <<slave, conns, lock, hci, ll, procs, crossed, calls, refused, lost>>

RxSlave ==
    /\ Rx("slave")
    /\ \/ /\ slave.op /\ slave.connectable /\ CanAlloc
          /\ slave' = SlaveReset(slave)
          /\ GotoInsert("adv", slave.cb)
       \/ ~(slave.op /\ slave.connectable) /\ UNCHANGED <<slave, ctx>>
    /\ UNCHANGED <<master, conns, lock, hci, ll, procs, crossed, calls, refused, lost>>

(* ... but ble_hs_conn_alloc returns NULL: connecting and advertising      *)
(* began with the same connection free.  The assertion that it does not is *)
(* compiled out, and the host task writes through NULL in the middle of    *)
(* the event: nothing more is said of it.                                  *)
RxFault ==
    /\ ctx[Host].at = "idle" /\ events # <<>> /\ ~CanAlloc
    /\ \/ Head(events).type = "master" /\ master.op = "conn"
       \/ Head(events).type = "slave" /\ slave.op /\ slave.connectable
    /\ HostGoto("fault", "none")
    /\ UNCHANGED <<master, slave, conns, lock, hci, ll, events, procs, crossed, calls, refused, lost>>

Faulted == ctx[Host].at = "fault"

(* ... the connection is inserted under the lock, and reported.            *)
Insert ==
    /\ ctx[Host].at = "insert" /\ lock = NoTask
    /\ conns' = conns \cup {ctx[Host].link}
    /\ procs' = Deliver(procs, ctx[Host].id, ctx[Host].call)
    /\ HostGoto("idle", "none")
    /\ UNCHANGED <<master, slave, lock, hci, ll, events, crossed, calls, refused, lost>>

(* ble_gap_rx_conn_complete with an error status.                          *)
RxCancelled ==
    /\ Rx("cancelled")
    /\ \/ master.op # "null" /\ HostGoto("extract", "cancelled")
       \/ master.op = "null" /\ UNCHANGED ctx
    /\ UNCHANGED <<master, slave, conns, lock, hci, ll, procs, crossed, calls, refused, lost>>

RxDirTimeout ==
    /\ Rx("dir_timeout")
    /\ \/ slave.op /\ HostGoto("adv_finished", "none")
       \/ ~slave.op /\ UNCHANGED ctx
    /\ UNCHANGED <<master, slave, conns, lock, hci, ll, procs, crossed, calls, refused, lost>>
(* Mutant: the preempted operation is not cleared.                         *)
Extract_KeepsPre ==
    /\ ctx[Host].at = "extract" /\ lock = NoTask
    /\ master' = MasterReset(master)
    /\ procs' = Deliver(procs, master.cb, IF ctx[Host].call = "timer_disc" THEN "disc" ELSE "conn")
    /\ HostGoto("idle", "none")
    /\ UNCHANGED <<slave, conns, lock, hci, ll, events, crossed, calls, refused, lost>>

(* ble_gap_master_extract_state and the callback: ble_gap_disc_complete,   *)
(* ble_gap_master_connect_cancelled or _connect_failure.                   *)
Extract ==
    /\ ctx[Host].at = "extract" /\ lock = NoTask
    /\ master' = [MasterReset(master) EXCEPT !.pre = "null"]
    /\ procs' = Deliver(procs, master.cb, IF ctx[Host].call = "timer_disc" THEN "disc" ELSE "conn")
    /\ HostGoto("idle", "none")
    /\ UNCHANGED <<slave, conns, lock, hci, ll, events, crossed, calls, refused, lost>>

(* ble_gap_adv_finished.                                                   *)
AdvFinished ==
    /\ ctx[Host].at = "adv_finished" /\ lock = NoTask
    /\ slave' = SlaveReset(slave)
    /\ procs' = Deliver(procs, slave.cb, "adv")
    /\ HostGoto("idle", "none")
    /\ UNCHANGED <<master, conns, lock, hci, ll, events, crossed, calls, refused, lost>>

(* ble_gap_master_timer, ble_gap_slave_timer: the time is up; the command  *)
(* is sent without the lock.                                               *)
MasterTimer ==
    /\ ctx[Host].at = "idle" /\ master.op # "null" /\ master.exp
    /\ HostGoto("send", IF master.op = "conn" THEN "timer_conn" ELSE "timer_disc")
    /\ UNCHANGED <<master, slave, conns, lock, hci, ll, events, procs, crossed, calls, refused, lost>>

SlaveTimer ==
    /\ ctx[Host].at = "idle" /\ slave.op /\ slave.exp
    /\ HostGoto("send", "timer_adv")
    /\ UNCHANGED <<master, slave, conns, lock, hci, ll, events, procs, crossed, calls, refused, lost>>
(* Mutant: a refused command is not tried again.                           *)
TimerAnswered_GivesUp ==
    /\ Answered(Host, TimerCalls)
    /\ hci' = NoTask
    /\ LET c == ctx[Host] IN
       /\ master' = IF c.call = "timer_conn" THEN [master EXCEPT !.exp = FALSE] ELSE master
       /\ slave' = IF c.ok /\ c.call = "timer_adv" THEN SlaveReset(slave) ELSE slave
       /\ \/ (c.ok => c.call = "timer_conn") /\ HostGoto("idle", "none")
          \/ c.ok /\ c.call = "timer_disc" /\ HostGoto("extract", "timer_disc")
          \/ c.ok /\ c.call = "timer_adv" /\ HostGoto("adv_finished", "none")
       /\ crossed' = (crossed \/ (c.ok /\ c.call = "timer_adv" /\ AdvQueued))
    /\ UNCHANGED <<conns, lock, ll, events, procs, calls, refused, lost>>

(* The answer.  A refused command is tried again when the timer fires      *)
(* again; a cancelled connection attempt is reported by its own event.     *)
TimerAnswered ==
    /\ Answered(Host, TimerCalls)
    /\ hci' = NoTask
    /\ LET c == ctx[Host] IN
       /\ master' = IF c.ok /\ c.call = "timer_conn" THEN [master EXCEPT !.exp = FALSE] ELSE master
       /\ slave' = IF c.ok /\ c.call = "timer_adv" THEN SlaveReset(slave) ELSE slave
       /\ \/ (c.ok => c.call = "timer_conn") /\ HostGoto("idle", "none")
          \/ c.ok /\ c.call = "timer_disc" /\ HostGoto("extract", "timer_disc")
          \/ c.ok /\ c.call = "timer_adv" /\ HostGoto("adv_finished", "none")
       /\ crossed' = (crossed \/ (c.ok /\ c.call = "timer_adv" /\ AdvQueued))
    /\ UNCHANGED <<conns, lock, ll, events, procs, calls, refused, lost>>

-----------------------------------------------------------------------------
Api(t) ==
    \/ \E timed \in BOOLEAN : \/ Connect(t, timed) \/ Disc(t, timed)
                             \/ \E connectable \in BOOLEAN : AdvStart(t, timed, connectable)
    \/ Cancel(t) \/ AdvStop(t) \/ Preempt(t)

Step(t) ==
    \/ Send(t) \/ MasterStarted(t) \/ AdvStarted(t) \/ ConnCancelled(t) \/ DiscCancelled(t)
    \/ AdvStopped(t) \/ PreAdv(t) \/ PreMaster(t) \/ PreemptDone(t)

HostRx == RxMaster \/ RxSlave \/ RxFault \/ RxCancelled \/ RxDirTimeout

HostStep == HostRx \/ Insert \/ Extract \/ AdvFinished \/ MasterTimer \/ SlaveTimer \/ TimerAnswered

Next == (\E t \in Tasks : Api(t) \/ Step(t)) \/ HostStep \/ LlConnected \/ LlDirTimeout

Spec == Init /\ [][Next]_vars

(* Tasks run and commands are answered.  The events of the controller and  *)
(* of the timer go through one queue, so none of them waits for ever while *)
(* the host task handles others.  A task that waits for the lock or the    *)
(* channel gets it: a refused timer's command comes again after 100 ms.    *)
FairSpec ==
    /\ Spec
    /\ WF_vars(HostStep) /\ SF_vars(HostRx) /\ SF_vars(MasterTimer) /\ SF_vars(SlaveTimer)
    /\ WF_vars(Step(Host)) /\ \A t \in Apps : SF_vars(Step(t))

-----------------------------------------------------------------------------
(* Only the holder of the host lock is in a call of the API, and only the  *)
(* holder of the command channel waits for an answer.                      *)
TypeOK ==
    /\ master.op \in {"null", "conn", "disc"} /\ master.pre \in {"null", "conn", "disc"}
    /\ master.cb \in 0 .. Len(procs) /\ slave.cb \in 0 .. Len(procs)
    /\ conns \subseteq 1 .. ll.links
    /\ lock \in Tasks \cup {NoTask} /\ hci \in Tasks \cup {NoTask}
    /\ \A t \in Tasks : /\ ctx[t].at = "ack" => hci = t
                        /\ ctx[t].at \in {"send", "ack"} => lock = t \/ ctx[t].call \in TimerCalls

AtRest == events = <<>> /\ \A t \in Tasks : ctx[t].at \in {"idle", "preempting"}

(* A procedure is reported once, to its own callback and with an event of  *)
(* its kind; one whose call failed, or that ble_gap_disc_cancel or         *)
(* ble_gap_adv_stop ended, is not reported.  None is forgotten: when       *)
(* nothing is under way, one that was not reported yet is in progress, or  *)
(* preempted and about to be reported (ble_gap_preempt_done).              *)
ReportedOnce(p) ==
    /\ p.got \in {<<>>, <<p.kind>>}
    /\ p.stat \in {"failed", "stopped"} => p.got = <<>>

InProgress(i) ==
    \/ master.cb = i /\ procs[i].kind \in {master.op, master.pre}
    \/ slave.cb = i /\ (slave.op \/ slave.pre)

FinalOnce ==
    ~crossed => \A i \in DOMAIN procs :
        /\ ReportedOnce(procs[i])
        /\ AtRest /\ procs[i].stat = "active" /\ procs[i].got = <<>> => InProgress(i)

(* The end of a connection attempt, or of advertising, was dropped.        *)
ConnEndLost == \E e \in lost : e.type \in {"master", "cancelled"}

AdvEndLost == \E e \in lost : e.type \in {"slave", "dir_timeout"}

LostLinks == {e.link : e \in {d \in lost : d.type \in {"master", "slave"}}}

(* When nothing is under way, the host and the controller agree on what is *)
(* in progress, refused commands, cancellations and timeouts included, and *)
(* on the links there are, although ble_gap_rx_conn_complete ignores links *)
(* that no procedure accounts for.  After the end of a procedure was       *)
(* dropped the host may believe it in progress, and does not know of the   *)
(* link; it never believes that nothing is in progress when something is.  *)
Agreement ==
    AtRest /\ ~crossed =>
        /\ conns \cup LostLinks = 1 .. ll.links
        /\ ll.init => master.op = "conn"
        /\ master.op = "conn" => ll.init \/ ConnEndLost
        /\ ll.scan <=> master.op = "disc"
        /\ ll.adv # "off" => slave.op
        /\ slave.op => ll.adv # "off" \/ AdvEndLost

(* An armed timer belongs to a procedure in progress that was begun with a *)
(* duration: no other procedure times out.                                 *)
TimerOwned ==
    ~crossed => /\ master.exp => master.op # "null" /\ procs[master.cb].timed
                /\ slave.exp => slave.op /\ procs[slave.cb].timed

(* A procedure begun with a duration ends, the timer's command being tried *)
(* again when the controller refuses it: calls being finite, none is under *)
(* way again and again.  Not so a connection attempt whose end was         *)
(* dropped: its timer is disarmed when the cancel is acked, or its cancel  *)
(* refused for ever, and an XXX comment of ble_gap_master_timer asks for   *)
(* the timer that is missing.  Nor anything once the host ran out of       *)
(* connections and wrote through NULL.                                     *)
Pending(p) ==
    /\ procs[p].timed
    /\ procs[p].got = <<>> /\ procs[p].stat \in {"starting", "active"}

ProcsEnd ==
    []<>(crossed \/ Faulted \/ \A p \in DOMAIN procs :
            Pending(p) => procs[p].kind = "conn" /\ ConnEndLost)

(* GAP does not stay preempted, which would refuse every later procedure:  *)
(* a preempted connection attempt is over with its event, the rest with    *)
(* ble_gap_preempt_done.  It rests on that event: when it was dropped, GAP *)
(* stays preempted, as it does once the host wrote through NULL.           *)
PreemptionEnds ==
    []<>(~IsPreempted \/ Faulted \/ (master.pre = "conn" /\ ConnEndLost))
=============================================================================
