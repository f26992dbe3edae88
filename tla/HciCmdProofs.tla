---------------------------- MODULE HciCmdProofs ----------------------------
(***************************************************************************)
(* For every set of application tasks, startup sequence and bound: no      *)
(* application disturbs the startup sequence, and, as long as no answer is *)
(* late and the transport's result is not garbage, every answer reaches    *)
(* the command it belongs to.                                              *)
(***************************************************************************)
EXTENDS HciCmd, TLAPS

(* No answer after its command gave up, no command given up after it was   *)
(* sent.  Answers may still be lost or refused and the hardware may fail.  *)
NoStale == Budget["late"] = 0 /\ Budget["garbage"] = 0

-----------------------------------------------------------------------------
(* Part 1: the mutex and the startup sequence.                             *)

Section == {"check", "xmit", "pend", "process", "done"}

TaskTypes ==
    /\ pc \in [Tasks -> {"idle", "lock"} \cup Section]
    /\ op \in [Tasks -> AllOps]
    /\ mutex \in Tasks \cup {NoTask}

(* The holder of the mutex is the one task between lock and unlock.        *)
Holder == \A t \in Tasks : pc[t] \in Section <=> mutex = t

(* The synchronization state follows the startup sequence.                 *)
BootState == boot \in Nat /\ (sync = "good" => boot = 0)

StartupInv == TaskTypes /\ Holder /\ BootState /\ StartupUndisturbed

LEMMA StartupTypes == ASSUME NEW t \in Apps PROVE t \in Tasks /\ t # Host
  BY TasksAssumption DEF Tasks

LEMMA HostIsTask == Host \in Tasks /\ NoTask \notin Tasks
  BY TasksAssumption DEF Tasks

LEMMA StartupOps ==
    /\ Ops \subseteq AllOps
    /\ Startup[1] \in AllOps
    /\ \A n \in Nat : n < Len(Startup) => Startup[n + 1] \in AllOps
  <1>1. DOMAIN Startup = 1 .. Len(Startup) /\ Len(Startup) \in Nat /\ Len(Startup) > 0
    BY StartupAssumption
  <1>2. \A i \in 1 .. Len(Startup) : Startup[i] \in AllOps
    BY <1>1 DEF AllOps, Range
  <1>3. Ops \subseteq AllOps
    BY DEF AllOps
  <1>4. QED
    BY <1>1, <1>2, <1>3

LEMMA StartupInit == Init => StartupInv
  <1> SUFFICES ASSUME Init PROVE StartupInv
    OBVIOUS
  <1>1. TaskTypes
    BY StartupOps DEF Init, TaskTypes
  <1>2. Holder
    BY HostIsTask DEF Init, Holder, Section
  <1>3. BootState /\ StartupUndisturbed
    BY StartupTypes DEF Init, BootState, StartupUndisturbed
  <1>4. QED
    BY <1>1, <1>2, <1>3 DEF StartupInv

(* One step per action that changes pc, mutex, op, sync or boot.           *)
LEMMA StartupStep == StartupInv /\ [Next]_vars => StartupInv'
  <1> SUFFICES ASSUME StartupInv, [Next]_vars PROVE StartupInv'
    OBVIOUS
  <1> USE HostIsTask DEF StartupInv, Section
  <1>1. ASSUME NEW t \in Tasks, NEW o \in Ops, Call(t, o) PROVE StartupInv'
    BY <1>1, StartupTypes, StartupOps
       DEF Call, Enter, Goto, channel, TaskTypes, Holder, BootState, StartupUndisturbed
  <1>2. ASSUME NEW t \in Tasks, Lock(t) PROVE StartupInv'
    BY <1>2, StartupTypes DEF Lock, Goto, TaskTypes, Holder, BootState, StartupUndisturbed
  <1>3. ASSUME NEW t \in Tasks, CheckSync(t) PROVE StartupInv'
    BY <1>3, StartupTypes
       DEF CheckSync, MaySend, Finish, Goto, channel, TaskTypes, Holder, BootState,
           StartupUndisturbed
  <1>4. ASSUME NEW t \in Tasks, Transmit(t) PROVE StartupInv'
    BY <1>4, StartupTypes
       DEF Transmit, Finish, Goto, TaskTypes, Holder, BootState, StartupUndisturbed
  <1>5. ASSUME NEW t \in Tasks, Pend(t) PROVE StartupInv'
    BY <1>5, StartupTypes DEF Pend, Goto, TaskTypes, Holder, BootState, StartupUndisturbed
  <1>6. ASSUME NEW t \in Tasks, Timeout(t) PROVE StartupInv'
    BY <1>6, StartupTypes
       DEF Timeout, Finish, Goto, channel, TaskTypes, Holder, BootState, StartupUndisturbed
  <1>7. ASSUME NEW t \in Tasks, ProcessAck(t) PROVE StartupInv'
    BY <1>7, StartupTypes
       DEF ProcessAck, Finish, Goto, channel, TaskTypes, Holder, BootState, StartupUndisturbed
  <1>8. ASSUME NEW t \in Tasks, Done(t) PROVE StartupInv'
    BY <1>8, StartupTypes DEF Done, Goto, TaskTypes, Holder, BootState, StartupUndisturbed
  <1>9. CASE LlAnswer
    BY <1>9 DEF LlAnswer, TaskTypes, Holder, BootState, StartupUndisturbed
  <1>10. ASSUME HostFree, BeginSync PROVE StartupInv'
    BY <1>10, StartupTypes, StartupOps
       DEF HostFree, BeginSync, Enter, Goto, channel, TaskTypes, Holder, BootState,
           StartupUndisturbed
  <1>11. CASE HostTimer /\ sync = "good" /\ UNCHANGED <<channel, pc, op, rc, sync, boot, left>>
    BY <1>11 DEF channel, TaskTypes, Holder, BootState, StartupUndisturbed
  <1>12. CASE HwError
    BY <1>12 DEF HwError, channel, TaskTypes, Holder, BootState, StartupUndisturbed
  <1>13. CASE StartupNext
    <2>1. Startup[boot + 1] \in AllOps
      BY <1>13, StartupOps DEF StartupNext, BootState
    <2>2. QED
      BY <1>13, <2>1, StartupTypes
         DEF StartupNext, Enter, Goto, channel, TaskTypes, Holder, BootState, StartupUndisturbed
  <1>14. CASE StartupEnd
    BY <1>14, StartupTypes
       DEF StartupEnd, channel, TaskTypes, Holder, BootState, StartupUndisturbed
  <1>15. CASE UNCHANGED vars
    BY <1>15 DEF vars, channel, TaskTypes, Holder, BootState, StartupUndisturbed
  <1>16. CASE HostEvent
    BY <1>10, <1>11, <1>13, <1>14, <1>16 DEF HostEvent, HostStart, HostReset, HostTimer
  <1>17. QED
    BY <1>1, <1>2, <1>3, <1>4, <1>5, <1>6, <1>7, <1>8, <1>9, <1>12, <1>15, <1>16
       DEF Next, Step

(* From the controller's reset until the host is synced, only the host     *)
(* task's commands reach the controller, whatever faults happen            *)
(* (ble_hs_hci_cmd_send_buf checks the state under the command mutex).     *)
THEOREM StartupUndisturbedAlways == Spec => []StartupUndisturbed
  <1>1. StartupInv => StartupUndisturbed
    BY DEF StartupInv
  <1>2. QED
    BY <1>1, StartupInit, StartupStep, PTL DEF Spec

-----------------------------------------------------------------------------
(* Part 2: types.                                                          *)

LEMMA TypeInit == Init => TypeOK
  BY StartupOps, HostIsTask, StartupAssumption, BoundsAssumption DEF Init, TypeOK, Tasks

(* What the two ends of the queue put into it and take from it.            *)
LEMMA SentTypes ==
    ASSUME TypeOK
    PROVE /\ \A t \in Tasks : [op |-> op[t], for |-> t] \in Sent
          /\ \A t \in Tasks : Disowned(t) \in Seq(Sent) /\ Len(Disowned(t)) = Len(ctrl)
          /\ ctrl # <<>> => /\ Tail(ctrl) \in Seq(Sent) /\ Len(Tail(ctrl)) <= MaxQueue
                            /\ \A s \in {"ok", "error", "short", "long"} :
                                  AnswerOf(Head(ctrl), s) \in Answers
  <1>1. \A t \in Tasks : [op |-> op[t], for |-> t] \in Sent
    BY DEF TypeOK, Sent
  <1>2. ASSUME NEW t \in Tasks
        PROVE Disowned(t) \in Seq(Sent) /\ Len(Disowned(t)) = Len(ctrl)
    <2>1. \A i \in 1 .. Len(ctrl) : ctrl[i] \in Sent
      BY DEF TypeOK
    <2>2. \A i \in 1 .. Len(ctrl) : ctrl[i].op \in AllOps /\ ctrl[i].for \in Tasks \cup {NoTask}
      BY <2>1 DEF Sent
    <2>3. \A i \in 1 .. Len(ctrl) :
             [op |-> ctrl[i].op, for |-> IF ctrl[i].for = t THEN NoTask ELSE ctrl[i].for] \in Sent
      BY <2>2 DEF Sent
    <2>4. QED
      BY <2>3 DEF Disowned, TypeOK
  <1>3. ASSUME ctrl # <<>>
        PROVE /\ Tail(ctrl) \in Seq(Sent) /\ Len(Tail(ctrl)) <= MaxQueue
              /\ \A s \in {"ok", "error", "short", "long"} : AnswerOf(Head(ctrl), s) \in Answers
    <2>1. Tail(ctrl) \in Seq(Sent) /\ Len(Tail(ctrl)) <= MaxQueue
      BY <1>3, BoundsAssumption DEF TypeOK
    <2>2. Head(ctrl) \in Sent
      BY <1>3 DEF TypeOK
    <2>3. Head(ctrl).op \in AllOps /\ Head(ctrl).for \in Tasks \cup {NoTask}
      BY <2>2 DEF Sent
    <2>4. QED
      BY <2>1, <2>3 DEF AnswerOf, Answers, Refusals
  <1>4. QED
    BY <1>1, <1>2, <1>3

LEMMA SpendType ==
    ASSUME TypeOK, NEW k \in Faults, Spend(k)
    PROVE left' \in [Faults -> Nat]
  BY DEF TypeOK, Spend

LEMMA TypeStep == TypeOK /\ [Next]_vars => TypeOK'
  <1> SUFFICES ASSUME TypeOK, [Next]_vars PROVE TypeOK'
    OBVIOUS
  <1> USE HostIsTask
  <1>1. ASSUME NEW t \in Tasks, NEW o \in Ops, Call(t, o) PROVE TypeOK'
    BY <1>1, StartupOps DEF Call, Enter, Goto, channel, TypeOK
  <1>2. ASSUME NEW t \in Tasks, Lock(t) \/ CheckSync(t) \/ Pend(t) PROVE TypeOK'
    <2>1. CASE Lock(t)
      BY <2>1 DEF Lock, Goto, TypeOK
    <2>2. CASE CheckSync(t)
      BY <2>2 DEF CheckSync, Finish, Goto, channel, TypeOK
    <2>3. CASE Pend(t)
      BY <2>3 DEF Pend, Goto, TypeOK
    <2>4. QED
      BY <1>2, <2>1, <2>2, <2>3
  <1>3. ASSUME NEW t \in Tasks, Transmit(t) PROVE TypeOK'
    <2>1. ctrl' \in Seq(Sent) /\ Len(ctrl') <= MaxQueue
      BY <1>3, SentTypes, BoundsAssumption DEF Transmit, TypeOK
    <2>2. left' \in [Faults -> Nat]
      BY <1>3 DEF Transmit, Spend, TypeOK, Faults
    <2>3. QED
      BY <1>3, <2>1, <2>2 DEF Transmit, Finish, Goto, TypeOK
  <1>4. ASSUME NEW t \in Tasks, Timeout(t) \/ ProcessAck(t) PROVE TypeOK'
    <2>1. left' \in [Faults -> Nat]
      BY <1>4 DEF Timeout, ProcessAck, Spend, TypeOK, Faults
    <2>2. QED
      BY <1>4, <2>1 DEF Timeout, ProcessAck, SchedReset, Finish, Goto, channel, TypeOK
  <1>5. ASSUME NEW t \in Tasks, Done(t) PROVE TypeOK'
    BY <1>5, SentTypes DEF Done, FreeAck, Goto, TypeOK
  <1>6. CASE LlAnswer
    <2>1. ctrl' \in Seq(Sent) /\ Len(ctrl') <= MaxQueue
      BY <1>6, SentTypes DEF LlAnswer
    <2>2. left' \in [Faults -> Nat]
      BY <1>6, SpendType DEF LlAnswer, TypeOK, Faults
    <2>3. sem' \in 0 .. 1 /\ ack' \in Answers \cup {NoAck}
      BY <1>6, SentTypes DEF LlAnswer, RxAck, Unexpected, Refusals, TypeOK
    <2>4. QED
      BY <1>6, <2>1, <2>2, <2>3 DEF LlAnswer, TypeOK
  <1>7. ASSUME BeginSync, events' \subseteq events PROVE TypeOK'
    BY <1>7, StartupOps, StartupAssumption DEF BeginSync, Enter, Goto, channel, TypeOK
  <1>8. CASE StartupNext
    <2>1. Startup[boot + 1] \in AllOps /\ boot + 1 \in 0 .. Len(Startup)
      BY <1>8, StartupOps, StartupAssumption DEF StartupNext, TypeOK
    <2>2. QED
      BY <1>8, <2>1 DEF StartupNext, Enter, Goto, channel, TypeOK
  <1>9. CASE StartupEnd
    BY <1>9, StartupAssumption DEF StartupEnd, RetryTimer, channel, TypeOK
  <1>10. CASE HwError
    <2>1. left' \in [Faults -> Nat]
      BY <1>10 DEF HwError, Spend, TypeOK, Faults
    <2>2. QED
      BY <1>10, <2>1 DEF HwError, SchedReset, channel, TypeOK
  <1>11. CASE HostEvent
    BY <1>7, <1>8, <1>9, <1>11 DEF HostEvent, HostStart, HostReset, HostTimer, channel, TypeOK
  <1>12. CASE UNCHANGED vars
    BY <1>12 DEF vars, channel, TypeOK
  <1>13. QED
    BY <1>1, <1>2, <1>3, <1>4, <1>5, <1>6, <1>10, <1>11, <1>12 DEF Next, Step

(* Whatever faults happen, the semaphore never counts more than one answer *)
(* (ble_hs_hci_rx_ack drops an answer that finds it positive), and every   *)
(* variable keeps its type.                                                *)
THEOREM TypeCorrect == Spec => []TypeOK
  BY TypeInit, TypeStep, PTL DEF Spec

-----------------------------------------------------------------------------
(* Part 3: what the channel holds at each step of the mutex's holder.      *)

LeftTypes == left \in [Faults -> Nat] /\ left["late"] = 0 /\ left["garbage"] = 0

Quiet == sem = 0 /\ ack = NoAck /\ ctrl = <<>>

(* The command is with the controller, its answer waits, or it was lost.   *)
Waiting(t) ==
    \/ sem = 0 /\ ack = NoAck /\ ctrl = <<[op |-> op[t], for |-> t]>>
    \/ sem = 1 /\ ack \in Answers /\ ack.for = t /\ ctrl = <<>>
    \/ Quiet

ChannelInv ==
    /\ (\A t \in Tasks : mutex = t => pc[t] \in {"check", "xmit"}) => Quiet
    /\ \A t \in Tasks :
          /\ pc[t] = "pend" => Waiting(t)
          /\ pc[t] = "process" => sem = 0 /\ ack \in Answers /\ ack.for = t /\ ctrl = <<>>
          /\ pc[t] = "done" => sem = 0 /\ ctrl = <<>>

CmdInv == TaskTypes /\ Holder /\ LeftTypes /\ ChannelInv

(* A spent fault leaves the counts of the others alone.                    *)
LEMMA SpendOther ==
    ASSUME NEW k \in {"lost", "refused", "hw"}, LeftTypes, Spend(k)
    PROVE LeftTypes'
  BY DEF LeftTypes, Spend, Faults

LEMMA CmdInit == ASSUME NoStale PROVE Init => CmdInv
  <1> SUFFICES ASSUME Init PROVE CmdInv
    OBVIOUS
  <1>1. TaskTypes /\ Holder
    BY StartupInit DEF StartupInv
  <1>2. LeftTypes
    BY BoundsAssumption, NoStale DEF Init, LeftTypes, NoStale
  <1>3. ChannelInv
    BY DEF Init, ChannelInv, Quiet
  <1>4. QED
    BY <1>1, <1>2, <1>3 DEF CmdInv

LEMMA CmdStep == CmdInv /\ StartupInv /\ [Next]_vars => CmdInv'
  <1> SUFFICES ASSUME CmdInv, StartupInv, [Next]_vars PROVE LeftTypes' /\ ChannelInv'
    BY StartupStep DEF CmdInv, StartupInv
  <1> USE HostIsTask DEF CmdInv, Section
  <1>1. ASSUME NEW t \in Tasks, NEW o \in Ops, Call(t, o) PROVE LeftTypes' /\ ChannelInv'
    BY <1>1 DEF Call, Enter, Goto, channel, LeftTypes, ChannelInv, Quiet, Waiting, TaskTypes, Holder
  <1>2. ASSUME NEW t \in Tasks, Lock(t) PROVE LeftTypes' /\ ChannelInv'
    BY <1>2 DEF Lock, Goto, LeftTypes, ChannelInv, Quiet, Waiting, TaskTypes, Holder
  <1>3. ASSUME NEW t \in Tasks, CheckSync(t) PROVE LeftTypes' /\ ChannelInv'
    BY <1>3
       DEF CheckSync, Finish, Goto, channel, LeftTypes, ChannelInv, Quiet, Waiting, TaskTypes, Holder
  <1>4. ASSUME NEW t \in Tasks, Transmit(t) PROVE LeftTypes' /\ ChannelInv'
    <2>1. LeftTypes' /\ pc' = [pc EXCEPT ![t] = "pend"]
      BY <1>4 DEF Transmit, Spend, Goto, LeftTypes
    <2>2. ctrl' = <<[op |-> op[t], for |-> t]>> /\ sem' = 0 /\ ack' = NoAck
      <3> DEFINE sent == [op |-> op[t], for |-> t]
      <3>1. Quiet
        BY <1>4 DEF Transmit, ChannelInv, Holder
      <3>2. ctrl' = Append(<<>>, sent) /\ UNCHANGED <<sem, ack>>
        BY <1>4, <3>1 DEF Transmit, Quiet
      <3>3. \A x : Append(<<>>, x) = <<x>>
        OBVIOUS
      <3>4. QED
        BY <3>1, <3>2, <3>3 DEF Quiet
    <2>3. QED
      BY <1>4, <2>1, <2>2 DEF Transmit, ChannelInv, Waiting, Quiet, TaskTypes, Holder
  <1>5. ASSUME NEW t \in Tasks, Pend(t) PROVE LeftTypes' /\ ChannelInv'
    BY <1>5 DEF Pend, Goto, LeftTypes, ChannelInv, Quiet, Waiting, TaskTypes, Holder
  <1>6. ASSUME NEW t \in Tasks, Timeout(t) PROVE LeftTypes' /\ ChannelInv'
    <2>1. LeftTypes' /\ ~Coming(t)
      BY <1>6 DEF Timeout, Spend, LeftTypes
    <2>2. ctrl = <<>> /\ sem = 0
      <3>1. Waiting(t) /\ sem = 0
        BY <1>6 DEF Timeout, ChannelInv
      <3>2. ASSUME ctrl = <<[op |-> op[t], for |-> t]>> PROVE FALSE
        <4>1. 1 \in DOMAIN ctrl /\ ctrl[1].for = t
          BY <3>2
        <4>2. QED
          BY <4>1, <2>1 DEF Coming
      <3>3. QED
        BY <3>1, <3>2 DEF Waiting, Quiet
    <2>3. QED
      BY <1>6, <2>1, <2>2
         DEF Timeout, Finish, Goto, channel, ChannelInv, Quiet, Waiting, TaskTypes, Holder
  <1>7. ASSUME NEW t \in Tasks, ProcessAck(t) PROVE LeftTypes' /\ ChannelInv'
    BY <1>7
       DEF ProcessAck, Finish, Goto, channel, LeftTypes, ChannelInv, Quiet, Waiting, TaskTypes, Holder
  <1>8. ASSUME NEW t \in Tasks, Done(t) PROVE LeftTypes' /\ ChannelInv'
    <2>1. ctrl = <<>> /\ sem = 0
      BY <1>8 DEF Done, ChannelInv
    <2>2. Quiet'
      BY <1>8, <2>1 DEF Done, FreeAck, Disowned, Quiet
    <2>3. QED
      BY <1>8, <2>2 DEF Done, Goto, LeftTypes, ChannelInv, Quiet, TaskTypes, Holder
  <1>9. ASSUME LlAnswer PROVE LeftTypes' /\ ChannelInv'
    <2>1. PICK t \in Tasks : pc[t] = "pend" /\ mutex = t /\ sem = 0
                             /\ ctrl = <<[op |-> op[t], for |-> t]>>
      BY <1>9 DEF LlAnswer, ChannelInv, Quiet, Waiting, Holder
    <2>2. Head(ctrl) = [op |-> op[t], for |-> t] /\ ctrl' = <<>>
      BY <1>9, <2>1 DEF LlAnswer
    <2>3. LeftTypes'
      BY <1>9, SpendOther DEF LlAnswer, LeftTypes
    <2>4. ASSUME NEW status \in {"ok", "error", "short", "long"}, RxAck(AnswerOf(Head(ctrl), status))
          PROVE sem' = 1 /\ ack' \in Answers /\ ack'.for = t
      BY <2>1, <2>2, <2>4 DEF RxAck, Unexpected, AnswerOf, Answers, Refusals, TaskTypes
    <2>5. UNCHANGED <<mutex, pc, op>>
      BY <1>9 DEF LlAnswer
    <2>6. Waiting(t)'
      <3>1. CASE UNCHANGED <<sem, ack>>
        BY <2>1, <2>2, <3>1 DEF Waiting, Quiet, ChannelInv
      <3>2. CASE ~UNCHANGED <<sem, ack>>
        BY <1>9, <2>2, <2>4, <3>2 DEF LlAnswer, Refusals, Waiting
      <3>3. QED
        BY <3>1, <3>2
    <2>7. QED
      BY <2>1, <2>3, <2>5, <2>6 DEF ChannelInv, Holder
  <1>10. ASSUME HostFree, BeginSync PROVE LeftTypes' /\ ChannelInv'
    BY <1>10 DEF HostFree, BeginSync, Enter, Goto, channel, LeftTypes, ChannelInv, Quiet, Waiting,
                 TaskTypes, Holder
  <1>11. CASE UNCHANGED <<channel, pc, op, left>>
    BY <1>11 DEF channel, LeftTypes, ChannelInv, Quiet, Waiting
  <1>12. CASE HwError
    BY <1>12, SpendOther DEF HwError, channel, ChannelInv, Quiet, Waiting
  <1>13. CASE StartupNext
    BY <1>13 DEF StartupNext, Enter, Goto, channel, LeftTypes, ChannelInv, Quiet, Waiting,
                 TaskTypes, Holder
  <1>14. CASE HostEvent
    BY <1>10, <1>11, <1>13, <1>14
       DEF HostEvent, HostStart, HostReset, HostTimer, StartupEnd
  <1>15. CASE UNCHANGED vars
    BY <1>11, <1>15 DEF vars
  <1>16. QED
    BY <1>1, <1>2, <1>3, <1>4, <1>5, <1>6, <1>7, <1>8, <1>9, <1>12, <1>14, <1>15
       DEF Next, Step

(* Without late answers and garbage results, a task that took the          *)
(* semaphore always finds the answer to its own command, although answers  *)
(* are lost or refused and resets happen (ble_hs_hci_cmd_tx holds the      *)
(* mutex from sending to freeing the answer).                              *)
THEOREM AnswersMatchAlways == ASSUME NoStale PROVE Spec => []AnswersMatch
  <1>1. CmdInv => AnswersMatch
    BY NoAckAssumption DEF CmdInv, ChannelInv, AnswersMatch
  <1>2. QED
    BY <1>1, CmdInit, CmdStep, StartupInit, StartupStep, PTL DEF Spec

(* Under the same assumption ble_hs_hci_rx_ack never overwrites an answer  *)
(* that was not freed.                                                     *)
THEOREM AckSlotFreeAlways == ASSUME NoStale PROVE Spec => AckSlotFree
  <1>1. ASSUME CmdInv, [Next]_vars, sem' > sem PROVE ack = NoAck
    <2>1. CASE LlAnswer
      BY <1>1, <2>1 DEF CmdInv, LlAnswer, ChannelInv, Quiet, Waiting, Holder, TaskTypes, Section
    <2>2. sem \in {0, 1}
      BY <1>1 DEF CmdInv, ChannelInv, Quiet, Waiting, Holder, TaskTypes, Section
    <2>3. ASSUME NEW t \in Tasks, Step(t) PROVE ~(sem' > sem)
      BY <2>2, <2>3
         DEF Step, Lock, CheckSync, Transmit, Pend, Timeout, ProcessAck, Done, channel
    <2>4. ASSUME NEW t \in Tasks, NEW o \in Ops, Call(t, o) PROVE ~(sem' > sem)
      BY <2>2, <2>4 DEF Call, channel
    <2>5. CASE HostEvent \/ HwError \/ UNCHANGED vars
      BY <1>1, <2>2, <2>5
         DEF HostEvent, HostStart, HostReset, HostTimer, StartupNext, StartupEnd, BeginSync,
             HwError, channel, vars
    <2>6. QED
      BY <1>1, <2>1, <2>3, <2>4, <2>5 DEF Next
  <1>2. CmdInv /\ [Next]_vars => [sem' > sem => ack = NoAck]_vars
    BY <1>1
  <1>3. QED
    BY <1>2, CmdInit, CmdStep, StartupInit, StartupStep, PTL DEF Spec, AckSlotFree

=============================================================================
