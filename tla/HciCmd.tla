------------------------------- MODULE HciCmd -------------------------------
(***************************************************************************)
(* How the tasks of the host share the one HCI command channel             *)
(* (ble_hs_hci.c, ble_hs_hci_cmd.c), and how the host task brings the      *)
(* controller up with it and resets when it fails (ble_hs.c,               *)
(* ble_hs_startup.c).                                                      *)
(*                                                                         *)
(* A task sends a command under a mutex and waits at most two seconds on a *)
(* semaphore for the answer.  The controller answers from its interrupt    *)
(* handler (the glue's ble_hci_evt_ll_to_host_cbk), which runs between any *)
(* two steps of the tasks and leaves the answer in a slot with room for    *)
(* one.  Neither the slot nor the semaphore says which command the answer  *)
(* belongs to: the model remembers it, the code compares opcodes.          *)
(***************************************************************************)
EXTENDS Naturals, Sequences, Functions

CONSTANTS
    Apps,       \* tasks other than the host task
    Host,       \* ble_hs_parent_task
    NoTask,
    NoAck,      \* ble_hs_hci_ack == NULL
    Ops,        \* opcodes of the commands sent outside the startup sequence
    Startup,    \* opcodes of ble_hs_startup_go, in order
    Budget,     \* bound: how often each kind of fault happens
    MaxQueue    \* bound: commands the controller has not answered yet

Tasks == Apps \cup {Host}

(* lost: no buffer for the answer; late: an answer after the two seconds;  *)
(* garbage: the transport's uninitialized result is negative; refused: an  *)
(* answer with an error status or of the wrong length; hw: a hardware      *)
(* error event.                                                            *)
Faults == {"lost", "late", "garbage", "refused", "hw"}

ASSUME TasksAssumption == Host \notin Apps /\ NoTask \notin Tasks

ASSUME StartupAssumption == Startup \in Seq(STRING) /\ Startup # <<>>

ASSUME BoundsAssumption == Budget \in [Faults -> Nat] /\ MaxQueue \in Nat \ {0}

VARIABLES
    mutex,      \* holder of ble_hs_hci_mutex
    sem,        \* count of ble_hs_hci_sem
    ack,        \* ble_hs_hci_ack
    ctrl,       \* commands the controller has yet to answer
    pc, op, rc, \* each task: where in ble_hs_hci_cmd_tx, its opcode, its result
    sync,       \* ble_hs_sync_state
    boot,       \* index of the startup command in progress, 0 outside ble_hs_sync
    events,     \* events queued or armed for the host task
    left        \* faults that may still happen

channel == <<mutex, sem, ack, ctrl>>
vars    == <<channel, pc, op, rc, sync, boot, events, left>>

AllOps  == Ops \cup Range(Startup)

(* An answer with an error status, with fewer parameters than expected, or *)
(* with more than there is room for.                                       *)
Refusals == {"error", "short", "long"}

Sent    == [op : AllOps, for : Tasks \cup {NoTask}]
Answers == [op : AllOps, for : Tasks \cup {NoTask}, status : {"ok"} \cup Refusals]

ASSUME NoAckAssumption == NoAck \notin Answers

(* One type invariant: the semaphore never counts more than one answer     *)
(* (ble_hs_hci_rx_ack drops an answer that finds it positive).             *)
TypeOK ==
    /\ mutex \in Tasks \cup {NoTask}
    /\ sem \in 0 .. 1
    /\ ack \in Answers \cup {NoAck}
    /\ ctrl \in Seq(Sent) /\ Len(ctrl) <= MaxQueue
    /\ pc \in [Tasks -> {"idle", "lock", "check", "xmit", "pend", "process", "done"}]
    /\ op \in [Tasks -> AllOps]
    /\ rc \in [Tasks -> {"ok", "failed"}]
    /\ sync \in {"bad", "bringup", "good"}
    /\ boot \in 0 .. Len(Startup)
    /\ events \subseteq {"start", "reset", "timer"}
    /\ left \in [Faults -> Nat]

Init ==
    /\ mutex = NoTask /\ sem = 0 /\ ack = NoAck /\ ctrl = <<>>
    /\ pc = [t \in Tasks |-> "idle"]
    /\ op = [t \in Tasks |-> Startup[1]]
    /\ rc = [t \in Tasks |-> "ok"]
    /\ sync = "bad" /\ boot = 0
    /\ events = {"start"}
    /\ left = Budget

Spend(kind) == left[kind] > 0 /\ left' = [left EXCEPT ![kind] = @ - 1]

Goto(t, label) == pc' = [pc EXCEPT ![t] = label]

Finish(t, result) == Goto(t, "done") /\ rc' = [rc EXCEPT ![t] = result]

(* ble_hs_sched_reset: the event is queued once, however often scheduled.  *)
SchedReset == events' = events \cup {"reset"}

-----------------------------------------------------------------------------
(* ble_hs_hci_cmd_tx.                                                      *)

Enter(t, o) == Goto(t, "lock") /\ op' = [op EXCEPT ![t] = o]

(* A command outside startup: from an application task at any time, from   *)
(* the host task as part of another event (a handler or a callback).       *)
Call(t, o) ==
    /\ pc[t] = "idle"
    /\ t = Host => boot = 0 /\ "start" \notin events
    /\ Enter(t, o)
    /\ UNCHANGED <<channel, rc, sync, boot, events, left>>

Lock_NoWait(t) ==
    /\ pc[t] = "lock"
    /\ mutex' = t
    /\ Goto(t, "check")
    /\ UNCHANGED <<sem, ack, ctrl, op, rc, sync, boot, events, left>>

Lock(t) ==
    /\ pc[t] = "lock"
    /\ mutex = NoTask
    /\ mutex' = t
    /\ Goto(t, "check")
    /\ UNCHANGED <<sem, ack, ctrl, op, rc, sync, boot, events, left>>

MaySend_AnyTask(t) == sync # "bad"

(* ble_hs_hci_cmd_send_buf: who may send in which synchronization state.   *)
MaySend(t) == sync = "good" \/ (sync = "bringup" /\ t = Host)

CheckSync(t) ==
    /\ pc[t] = "check"
    /\ \/ MaySend(t) /\ Goto(t, "xmit") /\ UNCHANGED rc
       \/ ~MaySend(t) /\ Finish(t, "failed")
    /\ UNCHANGED <<channel, op, sync, boot, events, left>>

(* ble_hs_hci_cmd_send: the controller has the command whatever the result *)
(* of ble_transport_to_ll_cmd_impl, a variable nobody assigns.             *)
Transmit(t) ==
    /\ pc[t] = "xmit"
    /\ Len(ctrl) < MaxQueue
    /\ ctrl' = Append(ctrl, [op |-> op[t], for |-> t])
    /\ \/ Goto(t, "pend") /\ UNCHANGED <<rc, left>>
       \/ Spend("garbage") /\ Finish(t, "failed")
    /\ UNCHANGED <<mutex, sem, ack, op, sync, boot, events>>

(* ble_hs_hci_wait_for_ack: the semaphore is there, or comes in time.      *)
Pend(t) ==
    /\ pc[t] = "pend"
    /\ sem > 0
    /\ sem' = sem - 1
    /\ Goto(t, "process")
    /\ UNCHANGED <<mutex, ack, ctrl, op, rc, sync, boot, events, left>>

(* Two seconds pass without it: the answer was lost, or it is late.        *)
Coming(t) == \E i \in DOMAIN ctrl : ctrl[i].for = t

Timeout_WaitAgain(t) ==
    /\ pc[t] = "pend"
    /\ sem = 0
    /\ SchedReset
    /\ UNCHANGED <<channel, pc, op, rc, sync, boot, left>>

Timeout(t) ==
    /\ pc[t] = "pend"
    /\ sem = 0
    /\ \/ ~Coming(t) /\ UNCHANGED left
       \/ Coming(t) /\ Spend("late")
    /\ SchedReset
    /\ Finish(t, "failed")
    /\ UNCHANGED <<channel, op, sync, boot>>

(* ble_hs_hci_process_ack and the checks after it.  A null slot is read    *)
(* all the same: address 0 holds the initial stack pointer, a multiple of  *)
(* 4 and so neither event code (0x0E, 0x0F), and the default branch fails. *)
Matching(a, o) == a # NoAck /\ a.op = o

Processed(a, o) == Matching(a, o) /\ a.status # "long"

ProcessAck(t) ==
    /\ pc[t] = "process"
    /\ \/ ~Processed(ack, op[t]) /\ SchedReset /\ Finish(t, "failed")
       \/ /\ Processed(ack, op[t])
          /\ \/ ack.status = "error" /\ Finish(t, "failed") /\ UNCHANGED events
             \/ ack.status = "short" /\ Finish(t, "ok") /\ SchedReset
             \/ ack.status = "ok" /\ Finish(t, "ok") /\ UNCHANGED events
    /\ UNCHANGED <<channel, op, sync, boot, left>>

(* The label done: free the answer, unlock, return.  What the controller   *)
(* still owes this command is owed to nobody from here on.                 *)
Disowned(t) ==
    [i \in DOMAIN ctrl |-> [op |-> ctrl[i].op, for |-> IF ctrl[i].for = t THEN NoTask ELSE ctrl[i].for]]

FreeAck_Kept == ack

FreeAck == NoAck

Done(t) ==
    /\ pc[t] = "done"
    /\ ack' = FreeAck
    /\ mutex' = NoTask
    /\ ctrl' = Disowned(t)
    /\ Goto(t, "idle")
    /\ UNCHANGED <<sem, op, rc, sync, boot, events, left>>

-----------------------------------------------------------------------------
(* The controller's interrupt: the answer to its oldest command, through   *)
(* ble_hs_hci_rx_evt to ble_hs_hci_rx_ack.                                 *)

Unexpected == sem > 0

RxAck_Always(answer) == ack' = answer /\ sem' = sem + 1

RxAck(answer) ==
    IF Unexpected THEN UNCHANGED <<sem, ack>>
    ELSE ack' = answer /\ sem' = sem + 1

AnswerOf(c, status) == [op |-> c.op, for |-> c.for, status |-> status]

LlAnswer ==
    /\ ctrl # <<>>
    /\ ctrl' = Tail(ctrl)
    /\ \/ RxAck(AnswerOf(Head(ctrl), "ok")) /\ UNCHANGED left
       \/ \E status \in Refusals :
              Spend("refused") /\ RxAck(AnswerOf(Head(ctrl), status))
       \/ Spend("lost") /\ UNCHANGED <<sem, ack>>
    /\ UNCHANGED <<mutex, pc, op, rc, sync, boot, events>>

-----------------------------------------------------------------------------
(* The host task's events.                                                 *)

HostFree == pc[Host] = "idle" /\ boot = 0

(* ble_hs_sync up to the first command; ble_hs_reset passes through "bad", *)
(* in which no more is allowed than in "bringup".                          *)
BeginSync ==
    /\ sync' = "bringup"
    /\ boot' = 1
    /\ Enter(Host, Startup[1])
    /\ UNCHANGED <<channel, rc, left>>

HostStart == HostFree /\ "start" \in events /\ events' = events \ {"start"} /\ BeginSync

HostReset == HostFree /\ "reset" \in events /\ events' = events \ {"reset"} /\ BeginSync

(* ble_hs_timer_exp: with a synced host the modules look at their timers   *)
(* (not modelled here); with an unsynced one the host tries again.         *)
HostTimer ==
    /\ HostFree
    /\ "timer" \in events
    /\ events' = events \ {"timer"}
    /\ \/ sync = "bad" /\ BeginSync
       \/ sync = "good" /\ UNCHANGED <<channel, pc, op, rc, sync, boot, left>>

(* A hardware error event reaches the host task: ble_hs_hw_error.          *)
HwError ==
    /\ HostFree
    /\ Spend("hw")
    /\ SchedReset
    /\ UNCHANGED <<channel, pc, op, rc, sync, boot>>

(* ble_hs_startup_go between two commands, and the rest of ble_hs_sync.    *)
(* The last command, the random IRK, may fail.                             *)
StartupOk == rc[Host] = "ok" \/ boot = Len(Startup)

RetryTimer_Synced == IF StartupOk THEN events \cup {"timer"} ELSE events

RetryTimer == events \cup {"timer"}

StartupNext ==
    /\ pc[Host] = "idle"
    /\ boot > 0
    /\ StartupOk /\ boot < Len(Startup)
    /\ boot' = boot + 1
    /\ Enter(Host, Startup[boot + 1])
    /\ UNCHANGED <<channel, rc, sync, events, left>>

StartupEnd ==
    /\ pc[Host] = "idle"
    /\ boot > 0
    /\ StartupOk => boot = Len(Startup)
    /\ sync' = IF StartupOk THEN "good" ELSE "bad"
    /\ events' = RetryTimer
    /\ boot' = 0
    /\ UNCHANGED <<channel, pc, op, rc, left>>

-----------------------------------------------------------------------------
Step(t) ==
    Lock(t) \/ CheckSync(t) \/ Transmit(t) \/ Pend(t) \/ Timeout(t) \/ ProcessAck(t) \/ Done(t)

HostEvent == HostStart \/ HostReset \/ HostTimer \/ StartupNext \/ StartupEnd

Next ==
    \/ \E t \in Tasks : Step(t)
    \/ \E t \in Tasks, o \in Ops : Call(t, o)
    \/ LlAnswer \/ HostEvent \/ HwError

Spec == Init /\ [][Next]_vars

(* The controller answers, tasks run, the host's event queue is FIFO, so   *)
(* other events do not keep one waiting for ever, and the host task, which *)
(* outranks the applications, is not kept from the mutex for ever.         *)
FairSpec ==
    /\ Spec
    /\ WF_vars(LlAnswer) /\ WF_vars(StartupNext) /\ WF_vars(StartupEnd)
    /\ SF_vars(HostStart) /\ SF_vars(HostReset) /\ SF_vars(HostTimer)
    /\ \A t \in Tasks : WF_vars(Step(t))
    /\ SF_vars(Lock(Host))

-----------------------------------------------------------------------------
(* A task that took the semaphore finds in the slot the answer to its own  *)
(* command, never nothing and never the answer to another.                 *)
AnswersMatch == \A t \in Tasks : pc[t] = "process" => ack # NoAck /\ ack.for = t

(* From the startup sequence's first command (the controller's reset) on,  *)
(* no application's command reaches the controller until the host is       *)
(* synced (ble_hs_hci_cmd_send_buf), although an application may have      *)
(* checked the state before the reset began.                               *)
StartupUndisturbed ==
    \A t \in Apps : pc[t] \in {"xmit", "pend", "process"} =>
        boot = 0 \/ (boot = 1 /\ pc[Host] = "lock")

(* A task that holds the mutex lets it go (every path of                   *)
(* ble_hs_hci_cmd_tx goes through done).                                   *)
CommandsReturn == \A t \in Tasks : mutex = t ~> mutex # t

(* Whatever answers were lost or refused and whatever hardware errors      *)
(* happened, the host ends up synced and stays so (ble_hs_sync retries     *)
(* every 100 ms, ble_hs_reset starts it again).                            *)
Resyncs == <>[](sync = "good")

(* ble_hs_hci.c:381: BLE_HS_DBG_ASSERT(ble_hs_hci_ack == NULL) where       *)
(* ble_hs_hci_rx_ack stores an answer.                                     *)
AckSlotFree == [][sem' > sem => ack = NoAck]_vars
=============================================================================
