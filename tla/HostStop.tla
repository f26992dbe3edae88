------------------------------ MODULE HostStop ------------------------------
(***************************************************************************)
(* Stopping and restarting the host (ble_hs_stop.c, ble_hs_start).         *)
(*                                                                         *)
(* ble_hs_stop terminates every connection and counts them; the            *)
(* disconnection events, handled by the host task, count down, and at zero *)
(* or after a timeout ble_hs_stop_done turns the host off and calls the    *)
(* listeners.  Any task may call ble_hs_stop; the counter and the timer    *)
(* are shared with the host task without a lock.                           *)
(***************************************************************************)
EXTENDS Naturals, Sequences, FiniteSets

CONSTANTS
    Tasks,      \* tasks that call ble_hs_stop, one listener each
    Conns,      \* connections
    CntMod,     \* ble_hs_stop_conn_cnt counts modulo this (256)
    MaxStops,   \* bound: calls of ble_hs_stop
    MaxStarts,  \* bound: calls of ble_hs_start that turn the host on
    MaxConns,   \* bound: connections established
    MaxFails    \* bound: terminations that fail

ASSUME CntAssumption ==
    IsFiniteSet(Conns) /\ CntMod \in Nat /\ CntMod > Cardinality(Conns)

ASSUME BoundsAssumption ==
    MaxStops \in Nat /\ MaxStarts \in Nat /\ MaxConns \in Nat /\ MaxFails \in Nat

VARIABLES
    enabled,    \* ble_hs_enabled_state
    waiting,    \* ble_hs_stop_listeners: the tasks whose listener is in it
    watching,   \* ble_hs_stop_gap_listener is registered
    cnt,        \* ble_hs_stop_conn_cnt
    timer,      \* ble_hs_stop_terminate_tmo is armed
    pc,         \* where each task is in ble_hs_stop
    host,       \* the host task is idle or about to call ble_hs_stop_done
    conns,      \* connections of the host, and
    ending,     \* those flagged BLE_HS_CONN_F_TERMINATING
    links,      \* connections of the controller
    events,     \* events queued for the host task
    counted,    \* connections counted whose end was not seen yet
    exact,      \* nothing has put the counter off so far
    used        \* how often each bounded thing happened

stopVars == <<enabled, waiting, watching, cnt, timer>>
linkVars == <<conns, ending, links>>
vars     == <<stopVars, pc, host, linkVars, events, counted, exact, used>>

Timeout == [type |-> "timeout"]
Events  == [type : {"disc", "fail"}, c : Conns] \cup {Timeout}
Bounded == {"stop", "start", "conn", "fail"}

TypeOK ==
    /\ enabled \in {"off", "on", "stopping"}
    /\ waiting \subseteq Tasks
    /\ watching \in BOOLEAN
    /\ cnt \in 0 .. CntMod - 1
    /\ timer \in BOOLEAN
    /\ pc \in [Tasks -> {"idle", "register", "terminate", "decide", "arm", "done"}]
    /\ host \in {"idle", "done"}
    /\ ending \subseteq conns /\ conns \subseteq Conns /\ links \subseteq Conns
    /\ events \in Seq(Events)
    /\ counted \subseteq Conns
    /\ exact \in BOOLEAN
    /\ used \in [Bounded -> Nat]

Init ==
    /\ enabled = "on" /\ waiting = {} /\ watching = FALSE /\ cnt = 0 /\ timer = FALSE
    /\ pc = [t \in Tasks |-> "idle"] /\ host = "idle"
    /\ conns = {} /\ ending = {} /\ links = {} /\ events = <<>>
    /\ counted = {} /\ exact = TRUE
    /\ used = [b \in Bounded |-> 0]

Use(b, max) == used[b] < max /\ used' = [used EXCEPT ![b] = @ + 1]

At(t, from, to) == pc[t] = from /\ pc' = [pc EXCEPT ![t] = to]

-----------------------------------------------------------------------------

(* Mutant: only one of the listeners is called.                            *)
StopDoneOne ==
    /\ enabled' = "off"
    /\ waiting' = waiting \ (IF waiting = {} THEN {} ELSE {CHOOSE t \in waiting : TRUE})
    /\ watching' = FALSE
    /\ timer' = FALSE
    /\ counted' = {}
    /\ exact' = (exact /\ counted = {})
    /\ UNCHANGED <<cnt, linkVars, used>>

(* ble_hs_stop_done.  A timeout event that is already queued stays there.  *)
(* The counter keeps its value.                                            *)
StopDone ==
    /\ enabled' = "off"
    /\ waiting' = {}
    /\ watching' = FALSE
    /\ timer' = FALSE
    /\ counted' = {}
    /\ exact' = (exact /\ counted = {})
    /\ UNCHANGED <<cnt, linkVars, used>>

(* ble_hs_stop_begin; the host is on, or another stop is in progress.      *)
(* (ble_gap_preempt touches none of this state.)                           *)
StopBegin(t) ==
    /\ enabled # "off" /\ t \notin waiting
    /\ Use("stop", MaxStops)
    /\ enabled' = "stopping"
    /\ waiting' = waiting \cup {t}
    /\ At(t, "idle", IF enabled = "on" THEN "register" ELSE "idle")
    /\ UNCHANGED <<watching, cnt, timer, host, linkVars, events, counted, exact>>

(* ble_gap_event_listener_register; if it is registered already, the call  *)
(* returns.                                                                *)
StopRegister(t) ==
    /\ At(t, "register", IF watching THEN "idle" ELSE "terminate")
    /\ watching' = TRUE
    /\ UNCHANGED <<enabled, waiting, cnt, timer, host, linkVars, events, counted, exact, used>>

(* ble_hs_stop_terminate_conn on every connection, under the lock: those   *)
(* being terminated are skipped; the command fails for a link that is gone.*)
Terminated == (conns \ ending) \cap links
(* Mutant: terminations that could not be started are counted too.         *)
StopTerminateAll(t) ==
    /\ At(t, "terminate", "decide")
    /\ ending' = ending \cup Terminated
    /\ cnt' = (cnt + Cardinality(conns)) % CntMod
    /\ counted' = counted \cup Terminated
    /\ UNCHANGED <<enabled, waiting, watching, timer, host, conns, links, events, exact, used>>

StopTerminate(t) ==
    /\ At(t, "terminate", "decide")
    /\ ending' = ending \cup Terminated
    /\ cnt' = (cnt + Cardinality(Terminated)) % CntMod
    /\ counted' = counted \cup Terminated
    /\ UNCHANGED <<enabled, waiting, watching, timer, host, conns, links, events, exact, used>>

(* The count is read without a lock; by the time the timer is armed, the   *)
(* host task may have counted the last connection down and finished.       *)
StopDecide(t) ==
    /\ At(t, "decide", IF cnt > 0 THEN "arm" ELSE "done")
    /\ UNCHANGED <<stopVars, host, linkVars, events, counted, exact, used>>

(* Mutant: no timer bounds the wait for the disconnections.                *)
StopArmNoTimer(t) ==
    /\ At(t, "arm", "idle")
    /\ UNCHANGED <<stopVars, host, linkVars, events, counted, exact, used>>

StopArm(t) ==
    /\ At(t, "arm", "idle")
    /\ timer' = TRUE
    /\ UNCHANGED <<enabled, waiting, watching, cnt, host, linkVars, events, counted, exact, used>>

StopFinish(t) ==
    /\ At(t, "done", "idle")
    /\ StopDone
    /\ UNCHANGED <<host, events>>

(* ble_hs_start: the startup sequence resets the controller; nothing tells *)
(* the host that the links are gone.                                       *)
Start ==
    /\ enabled = "off"
    /\ Use("start", MaxStarts)
    /\ enabled' = "on"
    /\ links' = {}
    /\ UNCHANGED <<waiting, watching, cnt, timer, pc, host, conns, ending, events, counted, exact>>

(* ble_gap_terminate by the application.                                   *)
Terminate(c) ==
    /\ c \in (conns \ ending) \cap links
    /\ ending' = ending \cup {c}
    /\ UNCHANGED <<stopVars, pc, host, conns, links, events, counted, exact, used>>

-----------------------------------------------------------------------------
(* The host task.                                                          *)

(* ble_hs_stop_gap_event.  The mark TERMINATING stays after a failure.     *)
GapEvent(c) ==
    /\ cnt' = IF watching THEN (cnt + CntMod - 1) % CntMod ELSE cnt
    /\ host' = IF watching /\ cnt' = 0 THEN "done" ELSE "idle"
    /\ counted' = IF watching THEN counted \ {c} ELSE counted
    /\ exact' = (exact /\ (watching <=> c \in counted))

DisconnectEvent ==
    /\ host = "idle" /\ events # <<>> /\ Head(events).type \in {"disc", "fail"}
    /\ LET ev == Head(events)
           gone == IF ev.type = "disc" THEN {ev.c} ELSE {}
       IN  /\ IF ev.type = "disc" /\ ev.c \notin conns
              THEN UNCHANGED <<cnt, host, counted, exact>>
              ELSE GapEvent(ev.c)
           /\ conns' = conns \ gone
           /\ ending' = ending \ gone
    /\ events' = Tail(events)
    /\ UNCHANGED <<enabled, waiting, watching, timer, pc, links, used>>

(* ble_hs_stop_done at the end of ble_hs_stop_gap_event.                   *)
LastDisconnect ==
    /\ host = "done" /\ host' = "idle"
    /\ StopDone
    /\ UNCHANGED <<pc, events>>

(* ble_hs_stop_terminate_timeout_cb.                                       *)
TerminateTimeout ==
    /\ host = "idle" /\ events # <<>> /\ Head(events) = Timeout
    /\ StopDone
    /\ events' = Tail(events)
    /\ UNCHANGED <<pc, host>>

HostStep == DisconnectEvent \/ LastDisconnect \/ TerminateTimeout

-----------------------------------------------------------------------------
(* The controller and the timer (external).                                *)

Connect(c) ==
    /\ c \notin conns /\ c \notin links
    /\ \A i \in DOMAIN events : events[i] # Timeout => events[i].c # c
    /\ Use("conn", MaxConns)
    /\ conns' = conns \cup {c}
    /\ links' = links \cup {c}
    /\ UNCHANGED <<stopVars, pc, host, ending, events, counted, exact>>

LlDisconnect(c) ==
    /\ c \in links
    /\ links' = links \ {c}
    /\ events' = Append(events, [type |-> "disc", c |-> c])
    /\ UNCHANGED <<stopVars, pc, host, conns, ending, counted, exact, used>>

LlTermFailure(c) ==
    /\ c \in links \cap ending
    /\ Use("fail", MaxFails)
    /\ events' = Append(events, [type |-> "fail", c |-> c])
    /\ UNCHANGED <<stopVars, pc, host, linkVars, counted, exact>>

TimerFires ==
    /\ timer /\ timer' = FALSE
    /\ events' = IF \E i \in DOMAIN events : events[i] = Timeout
                 THEN events ELSE Append(events, Timeout)
    /\ UNCHANGED <<enabled, waiting, watching, cnt, pc, host, linkVars, counted, exact, used>>

-----------------------------------------------------------------------------
Stopping(t) ==
    StopRegister(t) \/ StopTerminate(t) \/ StopDecide(t) \/ StopArm(t) \/ StopFinish(t)

Next ==
    \/ HostStep \/ TimerFires \/ Start
    \/ \E t \in Tasks : StopBegin(t) \/ Stopping(t)
    \/ \E c \in Conns : Terminate(c) \/ Connect(c) \/ LlDisconnect(c) \/ LlTermFailure(c)

Spec == Init /\ [][Next]_vars

(* Tasks and the host task run, and an armed timer expires.                *)
FairSpec ==
    /\ Spec
    /\ WF_vars(HostStep) /\ WF_vars(TimerFires)
    /\ \A t \in Tasks : WF_vars(Stopping(t))

-----------------------------------------------------------------------------
(* Properties.                                                             *)

(* While nothing put it off, the counter says how many of the connections  *)
(* that ble_hs_stop terminated are still up, so that the count reaches     *)
(* zero with the last of them.  It is put off by the end of a connection   *)
(* that ble_hs_stop did not count (someone else was terminating it, or its *)
(* link was already lost) and by a timeout, after which it is never reset. *)
CountExact == exact => cnt = Cardinality(counted)

(* Whoever was told that the host is stopping hears that it stopped, even  *)
(* when the count is off, a second stop is called or terminations fail.    *)
ListenersCalled == \A t \in Tasks : t \in waiting ~> t \notin waiting

(* A stop in progress is watched: unless a task is still inside            *)
(* ble_hs_stop or the host task is about to finish, a timer is armed or    *)
(* its event is queued, so that no lost disconnection can hang the stop.   *)
StopGuarded ==
    enabled = "stopping" =>
        \/ timer \/ host = "done"
        \/ \E t \in Tasks : pc[t] # "idle"
        \/ \E i \in DOMAIN events : events[i] = Timeout

(* ble_hs_stop_gap_event: "If there are no connections, signals completion *)
(* of the stop procedure."                                                 *)
CompletesWhenGone == host = "done" => counted = {}
=============================================================================
