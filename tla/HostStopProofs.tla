--------------------------- MODULE HostStopProofs ---------------------------
(***************************************************************************)
(* For every set of tasks and connections and every bound: the counter of  *)
(* ble_hs_stop is right until something puts it off, and a stop in         *)
(* progress, and every listener waiting for it, always has somebody or a   *)
(* timer behind it.                                                        *)
(***************************************************************************)
EXTENDS HostStop, FiniteSetTheorems, TLAPS

(* A counted connection is flagged as terminating, so that a second call   *)
(* of ble_hs_stop does not count it again.                                 *)
CountedEnding == exact => counted \subseteq ending

(* The gap listener stays registered only as long as someone will call     *)
(* ble_hs_stop_done: a task that has still to decide, the host task, or    *)
(* the timer, armed or expired.                                            *)
Expired == \E i \in DOMAIN events : events[i] = Timeout
Watched ==
    watching => \/ timer \/ host = "done" \/ Expired
                \/ \E t \in Tasks : pc[t] \in {"terminate", "decide", "arm", "done"}

(* While the host is stopping, the listener is registered or about to be.  *)
Begun == enabled = "stopping" => watching \/ \E t \in Tasks : pc[t] = "register"

-----------------------------------------------------------------------------
(* Types.                                                                  *)

LEMMA EventTypes ==
    ASSUME TypeOK, events # <<>>
    PROVE  /\ Head(events) \in Events /\ Tail(events) \in Seq(Events)
           /\ Head(events).type \in {"disc", "fail"} => Head(events).c \in Conns
  BY DEF TypeOK, Events, Timeout

LEMMA CntTypes ==
    ASSUME NEW n \in Nat
    PROVE  n % CntMod \in 0 .. CntMod - 1
  <1>1. CntMod \in Nat /\ CntMod > 0
    BY CntAssumption, FS_CardinalityType
  <1>2. QED
    BY <1>1

LEMMA StopDoneTypes == TypeOK /\ StopDone => 
    /\ enabled' \in {"off", "on", "stopping"} /\ waiting' \subseteq Tasks
    /\ watching' \in BOOLEAN /\ timer' \in BOOLEAN /\ cnt' = cnt
    /\ counted' \subseteq Conns /\ exact' \in BOOLEAN
    /\ conns' = conns /\ ending' = ending /\ links' = links /\ used' = used
  BY DEF StopDone, TypeOK, linkVars

LEMMA UseTypes ==
    ASSUME TypeOK, NEW b \in Bounded, NEW max, Use(b, max)
    PROVE  used' \in [Bounded -> Nat]
  BY DEF TypeOK, Use

LEMMA TypeInit == Init => TypeOK
  <1>1. 0 \in 0 .. CntMod - 1
    BY CntAssumption, FS_CardinalityType
  <1>2. <<>> \in Seq(Events)
    OBVIOUS
  <1>3. Init => used \in [Bounded -> Nat] /\ pc \in [Tasks -> {"idle"}]
    BY DEF Init
  <1>4. QED
    BY <1>1, <1>2, <1>3 DEF Init, TypeOK

LEMMA TypeStep == TypeOK /\ [Next]_vars => TypeOK'
  <1> SUFFICES ASSUME TypeOK, [Next]_vars PROVE TypeOK'
    OBVIOUS
  <1> USE DEF TypeOK, At, linkVars, stopVars
  <1>1. ASSUME NEW t \in Tasks, StopBegin(t) PROVE TypeOK'
    BY <1>1, UseTypes DEF StopBegin, Bounded
  <1>2. ASSUME NEW t \in Tasks, StopRegister(t) PROVE TypeOK'
    BY <1>2 DEF StopRegister
  <1>3. ASSUME NEW t \in Tasks, StopTerminate(t) PROVE TypeOK'
    <2>1. Terminated \subseteq conns /\ IsFiniteSet(Terminated)
      BY CntAssumption, FS_Subset DEF Terminated
    <2>2. cnt' \in 0 .. CntMod - 1
      BY <1>3, <2>1, CntTypes, FS_CardinalityType DEF StopTerminate
    <2>3. QED
      BY <1>3, <2>1, <2>2 DEF StopTerminate
  <1>4. ASSUME NEW t \in Tasks, StopDecide(t) \/ StopArm(t) PROVE TypeOK'
    BY <1>4 DEF StopDecide, StopArm
  <1>5. ASSUME NEW t \in Tasks, StopFinish(t) PROVE TypeOK'
    BY <1>5, StopDoneTypes DEF StopFinish
  <1>6. CASE Start
    BY <1>6, UseTypes DEF Start, Bounded
  <1>7. ASSUME NEW c \in Conns, Terminate(c) PROVE TypeOK'
    BY <1>7 DEF Terminate
  <1>8. CASE DisconnectEvent
    <2>1. cnt' \in 0 .. CntMod - 1
      <3>1. cnt + CntMod - 1 \in Nat
        BY CntAssumption, FS_CardinalityType
      <3>2. QED
        BY <1>8, <3>1, CntTypes DEF DisconnectEvent, GapEvent
    <2>2. /\ host' \in {"idle", "done"} /\ counted' \subseteq Conns /\ exact' \in BOOLEAN
          /\ ending' \subseteq conns' /\ conns' \subseteq Conns
      BY <1>8 DEF DisconnectEvent, GapEvent
    <2>3. events' \in Seq(Events)
      BY <1>8, EventTypes DEF DisconnectEvent
    <2>4. QED
      BY <1>8, <2>1, <2>2, <2>3 DEF DisconnectEvent
  <1>9. CASE LastDisconnect
    BY <1>9, StopDoneTypes DEF LastDisconnect
  <1>10. CASE TerminateTimeout
    BY <1>10, StopDoneTypes, EventTypes DEF TerminateTimeout
  <1>11. ASSUME NEW c \in Conns, Connect(c) PROVE TypeOK'
    BY <1>11, UseTypes DEF Connect, Bounded
  <1>12. ASSUME NEW c \in Conns, LlDisconnect(c) PROVE TypeOK'
    BY <1>12 DEF LlDisconnect, Events
  <1>13. ASSUME NEW c \in Conns, LlTermFailure(c) PROVE TypeOK'
    BY <1>13, UseTypes DEF LlTermFailure, Bounded, Events
  <1>14. CASE TimerFires
    <2>1. Timeout \in Events
      BY DEF Events
    <2>2. events' \in Seq(Events)
      BY <1>14, <2>1 DEF TimerFires
    <2>3. QED
      BY <1>14, <2>2 DEF TimerFires
  <1>15. CASE UNCHANGED vars
    BY <1>15 DEF vars
  <1>16. QED
    BY <1>1, <1>2, <1>3, <1>4, <1>5, <1>6, <1>7, <1>8, <1>9, <1>10, <1>11, <1>12, <1>13,
       <1>14, <1>15 DEF Next, HostStep, Stopping

(* The state of the stop procedure keeps its types: in particular the      *)
(* counter stays within eight bits and only connections of the host are    *)
(* flagged as terminating.                                                 *)
THEOREM TypeCorrect == Spec => []TypeOK
  BY TypeInit, TypeStep, PTL DEF Spec

-----------------------------------------------------------------------------
(* The counter.                                                            *)

(* The number of counted connections stays below the counter's limit.      *)
LEMMA CountFits ==
    ASSUME NEW S \in SUBSET Conns
    PROVE  /\ IsFiniteSet(S) /\ Cardinality(S) \in Nat /\ Cardinality(S) < CntMod
           /\ Cardinality(S) % CntMod = Cardinality(S)
  <1>1. IsFiniteSet(S) /\ Cardinality(S) <= Cardinality(Conns)
    BY CntAssumption, FS_Subset
  <1>2. Cardinality(S) \in Nat /\ Cardinality(Conns) \in Nat
    BY <1>1, CntAssumption, FS_CardinalityType
  <1>3. QED
    BY <1>1, <1>2, CntAssumption

LEMMA CountDown ==
    ASSUME NEW S \in SUBSET Conns, NEW c \in S
    PROVE  (Cardinality(S) + CntMod - 1) % CntMod = Cardinality(S \ {c})
  <1>1. Cardinality(S \ {c}) = Cardinality(S) - 1 /\ Cardinality(S \ {c}) \in Nat
    BY CountFits, FS_RemoveElement
  <1>2. CntMod \in Nat /\ CntMod > 0 /\ Cardinality(S) \in Nat /\ Cardinality(S) < CntMod
    BY CntAssumption, CountFits
  <1> DEFINE n == Cardinality(S) - 1
  <1>3. n \in Nat /\ n < CntMod
    BY <1>1, <1>2
  <1>4. (n + CntMod) % CntMod = n
    <2> HIDE DEF n
    <2>1. QED
      BY <1>2, <1>3
  <1>5. QED
    BY <1>1, <1>2, <1>4

(* A connection leaves the set of the terminating ones only with its       *)
(* disconnection event, which counts it off while the listener is there;   *)
(* if it is not, the count is no longer exact.                             *)
LEMMA CountStep == TypeOK /\ CountedEnding /\ CountExact /\ [Next]_vars
                      => CountedEnding' /\ CountExact'
  <1> SUFFICES ASSUME TypeOK, CountedEnding, CountExact, [Next]_vars
               PROVE  CountedEnding' /\ CountExact'
    OBVIOUS
  <1> USE DEF CountedEnding, CountExact, linkVars, stopVars
  <1>1. CASE StopDone
    BY <1>1, FS_EmptySet DEF StopDone, TypeOK
  <1>2. ASSUME NEW t \in Tasks, StopTerminate(t) PROVE CountedEnding' /\ CountExact'
    <2> SUFFICES ASSUME exact PROVE CountedEnding' /\ CountExact'
      BY <1>2 DEF StopTerminate
    <2>1. counted \cap Terminated = {} /\ Terminated \in SUBSET Conns
          /\ counted \in SUBSET Conns
      BY DEF Terminated, TypeOK
    <2>2. Cardinality(counted \cup Terminated) = Cardinality(counted) + Cardinality(Terminated)
      BY <2>1, CountFits, FS_Union, FS_EmptySet
    <2>3. cnt' = Cardinality(counted')
      BY <1>2, <2>1, <2>2, CountFits DEF StopTerminate
    <2>4. QED
      BY <1>2, <2>3 DEF StopTerminate
  <1>3. CASE DisconnectEvent
    <2> DEFINE ev == Head(events)
    <2>1. CASE ev.type = "disc" /\ ev.c \notin conns
      BY <1>3, <2>1 DEF DisconnectEvent, TypeOK
    <2>2. CASE ~(ev.type = "disc" /\ ev.c \notin conns)
      <3>1. GapEvent(ev.c) /\ ending \ {ev.c} \subseteq ending'
        BY <1>3, <2>2 DEF DisconnectEvent
      <3> SUFFICES ASSUME exact' PROVE CountedEnding' /\ CountExact'
        OBVIOUS
      <3>2. exact /\ (watching <=> ev.c \in counted)
        BY <3>1 DEF GapEvent
      <3>3. CASE watching
        <4>1. ev.c \in counted /\ counted \in SUBSET Conns /\ cnt = Cardinality(counted)
          BY <3>2, <3>3 DEF TypeOK
        <4>2. counted' = counted \ {ev.c} /\ cnt' = (Cardinality(counted) + CntMod - 1) % CntMod
          BY <3>1, <3>3, <4>1 DEF GapEvent
        <4>3. QED
          BY <3>1, <3>2, <4>1, <4>2, CountDown
      <3>4. CASE ~watching
        BY <3>1, <3>2, <3>4 DEF GapEvent, TypeOK
      <3>5. QED
        BY <3>3, <3>4
    <2>3. QED
      BY <2>1, <2>2
  <1>4. ASSUME NEW c \in Conns, Terminate(c) \/ Connect(c) \/ LlDisconnect(c) \/ LlTermFailure(c)
        PROVE  CountedEnding' /\ CountExact'
    BY <1>4 DEF Terminate, Connect, LlDisconnect, LlTermFailure
  <1>5. ASSUME NEW t \in Tasks, StopBegin(t) \/ StopRegister(t) \/ StopDecide(t) \/ StopArm(t)
        PROVE  CountedEnding' /\ CountExact'
    BY <1>5 DEF StopBegin, StopRegister, StopDecide, StopArm
  <1>6. CASE TimerFires \/ Start \/ UNCHANGED vars
    BY <1>6 DEF TimerFires, Start, vars
  <1>7. QED
    BY <1>1, <1>2, <1>3, <1>4, <1>5, <1>6
       DEF Next, HostStep, Stopping, StopFinish, LastDisconnect, TerminateTimeout

(* As long as only connections that ble_hs_stop counted have ended and no  *)
(* timeout cut a stop short, ble_hs_stop_conn_cnt is the number of         *)
(* connections still to go, however many stops and starts there were.      *)
THEOREM CountExactAlways == Spec => []CountExact
  <1>1. Init => CountedEnding /\ CountExact
    BY FS_EmptySet DEF Init, CountedEnding, CountExact
  <1>2. QED
    BY <1>1, CountStep, TypeCorrect, PTL DEF Spec

-----------------------------------------------------------------------------
(* The guard of a stop in progress.                                        *)

LEMMA GuardStep == TypeOK /\ Watched /\ Begun /\ [Next]_vars => Watched' /\ Begun'
  <1> SUFFICES ASSUME TypeOK, Watched, Begun, [Next]_vars PROVE Watched' /\ Begun'
    OBVIOUS
  <1> USE DEF Watched, Begun, Expired, At, linkVars, stopVars
  <1>1. CASE StopDone
    BY <1>1 DEF StopDone
  <1>2. ASSUME NEW t \in Tasks, StopBegin(t) PROVE Watched' /\ Begun'
    BY <1>2 DEF StopBegin, TypeOK
  <1>3. ASSUME NEW t \in Tasks, StopRegister(t) PROVE Watched' /\ Begun'
    BY <1>3 DEF StopRegister, TypeOK
  <1>4. ASSUME NEW t \in Tasks, StopTerminate(t) PROVE Watched' /\ Begun'
    BY <1>4 DEF StopTerminate, TypeOK
  <1>5. ASSUME NEW t \in Tasks, StopDecide(t) \/ StopArm(t) PROVE Watched' /\ Begun'
    BY <1>5 DEF StopDecide, StopArm, TypeOK
  <1>6. CASE DisconnectEvent
    <2>1. Expired => Expired'
      <3> SUFFICES ASSUME NEW i \in DOMAIN events, events[i] = Timeout PROVE Expired'
        BY DEF Expired
      <3>1. /\ events \in Seq(Events) /\ events # <<>> /\ events' = Tail(events)
            /\ Head(events) = events[1] /\ Head(events) # Timeout
        BY <1>6 DEF DisconnectEvent, TypeOK, Timeout
      <3>2. i - 1 \in DOMAIN events' /\ events'[i - 1] = Timeout
        BY <3>1
      <3>3. QED
        BY <3>2
    <2>2. UNCHANGED <<enabled, watching, timer, pc>> /\ host = "idle"
      BY <1>6 DEF DisconnectEvent
    <2>3. QED
      BY <2>1, <2>2
  <1>7. CASE TimerFires
    <2>1. Expired'
      BY <1>7 DEF TimerFires, TypeOK
    <2>2. QED
      BY <1>7, <2>1 DEF TimerFires
  <1>8. ASSUME NEW c \in Conns, LlDisconnect(c) \/ LlTermFailure(c) PROVE Watched' /\ Begun'
    <2>1. Expired => Expired'
      <3>1. \E e : events' = Append(events, e)
        BY <1>8 DEF LlDisconnect, LlTermFailure
      <3>2. DOMAIN events \subseteq DOMAIN events' /\ \A i \in DOMAIN events : events'[i] = events[i]
        BY <3>1 DEF TypeOK
      <3>3. QED
        BY <3>2
    <2>2. QED
      BY <1>8, <2>1 DEF LlDisconnect, LlTermFailure
  <1>9. ASSUME NEW c \in Conns, Terminate(c) \/ Connect(c) PROVE Watched' /\ Begun'
    BY <1>9 DEF Terminate, Connect
  <1>10. CASE Start \/ UNCHANGED vars
    BY <1>10 DEF Start, vars
  <1>11. QED
    BY <1>1, <1>2, <1>3, <1>4, <1>5, <1>6, <1>7, <1>8, <1>9, <1>10
       DEF Next, HostStep, Stopping, StopFinish, LastDisconnect, TerminateTimeout

(* While the host is stopping, a task is inside ble_hs_stop, the host task *)
(* is about to finish the stop, or the timer is armed or has expired: no   *)
(* order of stops, disconnections, failures and restarts leaves a stop     *)
(* that nothing would end.                                                 *)
THEOREM StopGuardedAlways == Spec => []StopGuarded
  <1>1. Init => Watched /\ Begun
    BY DEF Init, Watched, Begun
  <1>2. Watched /\ Begun => StopGuarded
    BY DEF Watched, Begun, Expired, StopGuarded
  <1>3. QED
    BY <1>1, <1>2, GuardStep, TypeCorrect, PTL DEF Spec

-----------------------------------------------------------------------------
(* Listeners.                                                              *)

(* A listener waits only while a stop is in progress.                      *)
WaitingStops == waiting # {} => enabled = "stopping"

LEMMA WaitingStep == WaitingStops /\ [Next]_vars => WaitingStops'
  <1> SUFFICES ASSUME WaitingStops, [Next]_vars PROVE WaitingStops'
    OBVIOUS
  <1> USE DEF WaitingStops
  <1>1. CASE StopDone
    BY <1>1 DEF StopDone
  <1>2. ASSUME NEW t \in Tasks, StopBegin(t) PROVE WaitingStops'
    BY <1>2 DEF StopBegin
  <1>3. CASE Start
    BY <1>3 DEF Start
  <1>4. ASSUME NEW t \in Tasks,
               StopRegister(t) \/ StopTerminate(t) \/ StopDecide(t) \/ StopArm(t)
        PROVE  WaitingStops'
    BY <1>4 DEF StopRegister, StopTerminate, StopDecide, StopArm, stopVars
  <1>5. ASSUME NEW c \in Conns,
               Terminate(c) \/ Connect(c) \/ LlDisconnect(c) \/ LlTermFailure(c)
        PROVE  WaitingStops'
    BY <1>5 DEF Terminate, Connect, LlDisconnect, LlTermFailure, stopVars
  <1>6. CASE DisconnectEvent \/ TimerFires \/ UNCHANGED vars
    BY <1>6 DEF DisconnectEvent, TimerFires, vars, stopVars
  <1>7. QED
    BY <1>1, <1>2, <1>3, <1>4, <1>5, <1>6
       DEF Next, HostStep, Stopping, StopFinish, LastDisconnect, TerminateTimeout

(* A listener on the list of ble_hs_stop always has somebody behind it who *)
(* will call ble_hs_stop_done: a task inside ble_hs_stop, the host task,   *)
(* or the timer.  No listener is added to a list that nobody will clear,   *)
(* whoever calls ble_hs_stop again and whenever the host is restarted.     *)
ListenersGuarded ==
    waiting # {} => \/ timer \/ host = "done" \/ Expired
                    \/ \E t \in Tasks : pc[t] # "idle"

THEOREM ListenersGuardedAlways == Spec => []ListenersGuarded
  <1>1. Init => WaitingStops
    BY DEF Init, WaitingStops
  <1>2. WaitingStops /\ StopGuarded => ListenersGuarded
    BY DEF WaitingStops, StopGuarded, ListenersGuarded, Expired
  <1>3. QED
    BY <1>1, <1>2, WaitingStep, StopGuardedAlways, PTL DEF Spec
=============================================================================
