------------------------------ MODULE GapProofs -----------------------------
(***************************************************************************)
(* For every number of tasks, calls, connections, refused commands and     *)
(* dropped events: a GAP procedure is reported once and none is forgotten, *)
(* the host and the controller agree when nothing is under way, and a      *)
(* timer belongs to a procedure in progress.                               *)
(***************************************************************************)
EXTENDS Gap, SequenceTheorems, TLAPS

-----------------------------------------------------------------------------
(* The inductive invariants.                                               *)

Kinds    == {"conn", "disc", "adv"}
Procs    == [kind : Kinds, timed : BOOLEAN, got : Seq(Kinds),
             stat : {"starting", "active", "failed", "stopped"}]
ApiCalls == {"connect", "disc", "adv", "conn_cancel", "disc_cancel", "adv_stop",
             "pre_adv", "pre_conn", "pre_disc"}
Contexts == [at : {"idle", "send", "ack", "preempting", "insert", "extract", "adv_finished",
                   "fault"},
             call : ApiCalls \cup TimerCalls \cup {"none", "conn", "cancelled"},
             id : Nat, link : Nat, timed : BOOLEAN, ok : BOOLEAN]
Masters  == [op : {"null", "conn", "disc"}, exp : BOOLEAN, cancel : BOOLEAN,
             pre : {"null", "conn", "disc"}, cb : Nat]
Slaves   == [op : BOOLEAN, exp : BOOLEAN, connectable : BOOLEAN, pre : BOOLEAN, cb : Nat]
Events   == [type : {"master", "slave", "cancelled", "dir_timeout"}, link : Nat]
Controls == [init : BOOLEAN, scan : BOOLEAN, adv : {"off", "conn", "non"}, links : Nat]

Data ==
    /\ master \in Masters /\ slave \in Slaves /\ ll \in Controls
    /\ events \in Seq(Events) /\ procs \in Seq(Procs)
    /\ crossed \in BOOLEAN /\ calls \in Nat /\ refused \in Nat /\ lost \in SUBSET Events

Control ==
    /\ ctx \in [Tasks -> Contexts]
    /\ lock \in Tasks \cup {NoTask} /\ hci \in Tasks \cup {NoTask}

Types == Data /\ Control

(* Where a task is: in a call of the API it holds the lock, unless the     *)
(* host task sends the command of a timer, and while it waits for an       *)
(* answer it holds the command channel.                                    *)
InPlace(t, r, l, c) ==
    /\ r.at = "idle" => r = Idle
    /\ r.at = "preempting" => r.call = "none"
    /\ r.at \in {"send", "ack"} => r.call \in ApiCalls \cup TimerCalls
    /\ l = t <=> r.at \in {"send", "ack"} /\ r.call \in ApiCalls
    /\ c = t <=> r.at = "ack"
    /\ r.at = "insert" => r.call \in {"conn", "adv"}
    /\ r.at = "extract" => r.call \in {"cancelled", "timer_disc"}
    /\ r.at \in {"adv_finished", "fault"} => r.call = "none"
    /\ t # Host => /\ r.at \notin {"insert", "extract", "adv_finished", "fault"}
                   /\ r.call \notin TimerCalls

Placed == \A t \in Tasks : InPlace(t, ctx[t], lock, hci)

(* Callbacks and links are known ones.                                     *)
IsLink(e) == e.type \in {"master", "slave"}

HasLink(q, n) == \E i \in DOMAIN q : IsLink(q[i]) /\ q[i].link = n

LostLink(d, n) == \E e \in d : IsLink(e) /\ e.link = n

Refers(r, n, k) == r.id <= n /\ (r.at = "insert" => r.link \in 1 .. k)

Refs == \A t \in Tasks : Refers(ctx[t], Len(procs), ll.links)

Known ==
    /\ master.cb <= Len(procs) /\ slave.cb <= Len(procs)
    /\ conns \subseteq 1 .. ll.links
    /\ \A n \in Nat : HasLink(events, n) \/ LostLink(lost, n) => n \in 1 .. ll.links

Shape == Types /\ Placed /\ Refs /\ Known

(* The call under way, and what the host task does outside calls.          *)
Cur == IF lock = NoTask THEN Idle ELSE ctx[lock]
Hst == IF lock = Host \/ ctx[Host].at = "preempting" THEN Idle ELSE ctx[Host]

(* The command of the call was not executed; it was.                       *)
Unsent(call) == Cur.call = call /\ (Cur.at = "ack" => ~Cur.ok)
Done(call)   == Cur.call = call /\ Cur.at = "ack" /\ Cur.ok
TimerDone(call) == Hst.call = call /\ Hst.at = "ack" /\ Hst.ok

(* The queue holds an event of a type in T; at most one; one was dropped.  *)
Has(q, T)  == \E i \in DOMAIN q : q[i].type \in T
Gone(d, T) == \E e \in d : e.type \in T
Once(q, T) == \A i, j \in DOMAIN q : q[i].type \in T /\ q[j].type \in T => i = j
ConnEnds   == {"master", "cancelled"}
AdvEnds    == {"slave", "dir_timeout"}

(* A procedure of kind k that is to be reported.                           *)
Live(ps, i, k) ==
    /\ i \in DOMAIN ps /\ ps[i].kind = k /\ ps[i].got = <<>>
    /\ ps[i].stat \in {"starting", "active"}

Fresh(ps, i, k, timed) ==
    Live(ps, i, k) /\ ps[i].stat = "starting" /\ ps[i].timed = timed

(* What the call under way works on.                                       *)
Working ==
    /\ Cur.call \in {"connect", "disc"} =>
         /\ Cur.id = master.cb /\ master.pre = "null" /\ ~master.exp
         /\ Fresh(procs, Cur.id, IF Cur.call = "connect" THEN "conn" ELSE "disc", Cur.timed)
         /\ Hst.call \notin {"timer_conn", "timer_disc"}
    /\ Cur.call = "adv" =>
         /\ Cur.id = slave.cb /\ ~slave.pre /\ ~slave.exp
         /\ Fresh(procs, Cur.id, "adv", Cur.timed) /\ Hst.call # "timer_adv"
    /\ Cur.call = "disc_cancel" => Cur.id = master.cb /\ master.op = "disc"
    /\ Cur.call = "pre_disc" => master.op = "disc"
    /\ Cur.call = "adv_stop" => Cur.id = slave.cb /\ Cur.id # None /\ ~slave.pre
    /\ Cur.call = "pre_adv" => Cur.id \in {None, slave.cb} /\ ~IsPreempted
    /\ Cur.call \in {"adv_stop", "pre_adv"} =>
         IF Cur.id = None THEN ~slave.op
         ELSE slave.op \/ Hst.at = "adv_finished" \/ (Hst.at = "insert" /\ Hst.call = "adv")
    /\ Cur.call \in {"pre_conn", "pre_disc"} => master.pre = "null"

(* Who will report a procedure.                                            *)
Owned ==
    /\ master.op # "null" => Live(procs, master.cb, master.op)
    /\ master.pre = "conn" => master.op = "conn"
    /\ master.pre = "disc" => master.op = "null" /\ Live(procs, master.cb, "disc")
    /\ slave.op \/ slave.pre \/ Hst.at = "adv_finished" => Live(procs, slave.cb, "adv")
    /\ slave.pre => ~slave.op /\ Hst.at # "adv_finished"
    /\ Hst.at = "insert" =>
         /\ Live(procs, Hst.id, Hst.call)
         /\ Hst.id = master.cb => master.op = "null" /\ master.pre = "null"
         /\ Hst.id = slave.cb => ~slave.op /\ ~slave.pre
    /\ Hst.call = "timer_conn" => master.op = "conn"
    /\ Hst.call = "timer_disc" => master.op = "disc"
    /\ Hst.call = "timer_adv" => slave.op
    /\ Hst.at = "extract" /\ Hst.call = "cancelled" => master.op = "conn"

(* No procedure is reported twice; one that is still to be reported is in  *)
(* progress, preempted, or with the host task.                             *)
Told(ps) == \A i \in DOMAIN ps : ReportedOnce(ps[i])

Waiting(ps, i) ==
    i \in DOMAIN ps /\ ps[i].stat \in {"starting", "active"} /\ ps[i].got = <<>>

Held(i) ==
    \/ InProgress(i)
    \/ Hst.at = "insert" /\ Hst.id = i
    \/ Hst.at = "adv_finished" /\ slave.cb = i

Reported == Told(procs) /\ \A i \in DOMAIN procs : Waiting(procs, i) => Held(i)

(* A connection attempt is in progress until its event has been handled;   *)
(* for ever if it was dropped.                                             *)
Cancelling == Hst.at = "extract" /\ Hst.call = "cancelled"

Connecting ==
    /\ Once(events, ConnEnds)
    /\ Has(events, ConnEnds) => master.op = "conn" /\ ~ll.init /\ ~Cancelling
    /\ ll.init => master.op = "conn" /\ ~Cancelling
    /\ Unsent("connect") =>
         master.op = "conn" /\ ~ll.init /\ ~Has(events, ConnEnds) /\ ~Cancelling
    /\ master.op = "conn" =>
         \/ ll.init \/ Has(events, ConnEnds) \/ Cancelling \/ Unsent("connect")
         \/ Gone(lost, ConnEnds)
    /\ master.pre = "conn" \/ Done("pre_conn") =>
         master.op = "conn" /\ ~ll.init /\ ~Has(events, {"master"})

Discovering ==
    /\ ll.scan => master.op = "disc"
    /\ Cur.call = "disc" => master.op = "disc"
    /\ Unsent("disc") => ~ll.scan
    /\ Done("disc_cancel") \/ Done("pre_disc") \/ TimerDone("timer_disc") => ~ll.scan
    /\ Hst.at = "extract" /\ Hst.call = "timer_disc" => ~ll.scan
    /\ master.op = "disc" /\ ~ll.scan =>
         \/ Unsent("disc") \/ Done("disc_cancel") \/ Done("pre_disc") \/ TimerDone("timer_disc")
         \/ Hst.at = "extract" /\ Hst.call = "timer_disc"

Advertising ==
    /\ Once(events, AdvEnds)
    /\ Has(events, AdvEnds) =>
         slave.op /\ slave.connectable /\ ll.adv = "off" /\ Hst.at # "adv_finished"
    /\ ll.adv # "off" => slave.op /\ Hst.at # "adv_finished"
    /\ ll.adv = "conn" => slave.connectable
    /\ Unsent("adv") =>
         slave.op /\ ll.adv = "off" /\ ~Has(events, AdvEnds) /\ Hst.at # "adv_finished"
    /\ Done("adv_stop") \/ Done("pre_adv") \/ TimerDone("timer_adv") => ll.adv = "off"
    /\ slave.op /\ ll.adv = "off" =>
         \/ Unsent("adv") \/ Has(events, AdvEnds) \/ Hst.at = "adv_finished" \/ Gone(lost, AdvEnds)
         \/ Done("adv_stop") \/ Done("pre_adv") \/ TimerDone("timer_adv")

(* Every link is in the table of connections, or about to be put there, or *)
(* its event was dropped.                                                  *)
Linked ==
    \A n \in 1 .. ll.links :
        n \in conns \/ HasLink(events, n) \/ LostLink(lost, n) \/ (Hst.at = "insert" /\ Hst.link = n)

Timers ==
    /\ master.exp => master.op # "null" /\ procs[master.cb].timed
    /\ slave.exp => slave.op /\ procs[slave.cb].timed

Calm ==
    /\ Working /\ Owned /\ Reported /\ Connecting /\ Discovering /\ Advertising
    /\ Linked /\ Timers

Steady == ~crossed => Calm

Sound == Shape /\ Steady

-----------------------------------------------------------------------------
(* The two views.                                                          *)

Asked(call, id, timed) ==
    [at |-> "send", call |-> call, id |-> id, link |-> None, timed |-> timed, ok |-> TRUE]

Answer(r, ok) == [r EXCEPT !.at = "ack", !.ok = ok]

Another(r, call) == [r EXCEPT !.at = "send", !.id = None, !.call = call]

CurOK(r) ==
    /\ r \in Contexts
    /\ r = Idle \/ (r.at \in {"send", "ack"} /\ r.call \in ApiCalls)

HstOK(r) ==
    /\ r \in Contexts
    /\ \/ r = Idle
       \/ r.at \in {"send", "ack"} /\ r.call \in TimerCalls
       \/ r.at = "insert" /\ r.call \in {"conn", "adv"}
       \/ r.at = "extract" /\ r.call \in {"cancelled", "timer_disc"}
       \/ r.at \in {"adv_finished", "fault"} /\ r.call = "none"

LEMMA IdleType == Idle \in Contexts
  BY DEF Idle, Contexts, None, ApiCalls, TimerCalls

(* The views have their types.                                             *)
LEMMA ViewTypes ==
    ASSUME Control, Placed
    PROVE  CurOK(Cur) /\ HstOK(Hst)
  <1>1. Host \in Tasks /\ InPlace(Host, ctx[Host], lock, hci) /\ ctx[Host] \in Contexts
    BY DEF Control, Placed, Tasks
  <1>2. lock # NoTask => lock \in Tasks /\ InPlace(lock, ctx[lock], lock, hci) /\ ctx[lock] \in Contexts
    BY DEF Control, Placed
  <1>3. CurOK(Cur)
    <2>1. Idle.at = "idle"
      BY DEF Idle
    <2>2. lock # NoTask => ctx[lock].at \in {"send", "ack"} /\ ctx[lock].call \in ApiCalls
      BY <1>2 DEF InPlace
    <2>3. CASE lock = NoTask
      <3>1. Cur = Idle
        BY <2>3 DEF Cur
      <3> QED  BY <2>1, <3>1, IdleType DEF CurOK
    <2>4. CASE lock # NoTask
      <3>1. Cur = ctx[lock]
        BY <2>4 DEF Cur
      <3> QED  BY <1>2, <2>2, <2>4, <3>1 DEF CurOK
    <2> QED  BY <2>3, <2>4
  <1>4. HstOK(Hst)
    BY <1>1, IdleType DEF Hst, HstOK, InPlace, Idle, Contexts
  <1> QED  BY <1>3, <1>4

(* A task begins a call.                                                   *)
LEMMA CallView ==
    ASSUME Control, Placed, NEW t \in Tasks, NEW call, NEW id, NEW timed,
           ctx[t].at = "idle", lock = NoTask, Call(t, call, id, timed)
    PROVE  Cur = Idle /\ Cur' = Asked(call, id, timed) /\ Hst' = Hst
  <1>1. t # NoTask /\ Host # NoTask /\ Host \in Tasks
    BY TasksAssumption DEF Tasks
  <1>2. ctx[t] = Idle
    BY DEF Placed, InPlace
  <1>3. ctx'[t] = Asked(call, id, timed)
    BY DEF Call, Control, Asked, Idle
  <1>4. t # Host => ctx'[Host] = ctx[Host]
    BY <1>1 DEF Call, Control
  <1>5. lock' = t
    BY DEF Call
  <1> QED  BY <1>1, <1>2, <1>3, <1>4, <1>5 DEF Cur, Hst, Idle

(* It returns from it.                                                     *)
LEMMA LeaveView ==
    ASSUME Control, Placed, NEW t \in Tasks, ctx[t].at = "ack", ctx[t].call \in ApiCalls, Leave(t)
    PROVE  Cur = ctx[t] /\ Cur' = Idle /\ Hst' = Hst
  <1>1. t # NoTask /\ Host # NoTask /\ Host \in Tasks
    BY TasksAssumption DEF Tasks
  <1>2. lock = t
    BY DEF Placed, InPlace
  <1>3. ctx'[t] = Idle /\ (t # Host => ctx'[Host] = ctx[Host])
    BY <1>1 DEF Leave, Control
  <1> QED  BY <1>1, <1>2, <1>3 DEF Cur, Hst, Idle, Leave

(* It sends a command: of a call, or of a timer.                           *)
LEMMA SendView ==
    ASSUME Control, Placed, NEW t \in Tasks, NEW ok, ctx[t].at = "send", UNCHANGED lock,
           ctx' = [ctx EXCEPT ![t].at = "ack", ![t].ok = ok]
    PROVE  \/ Cur = ctx[t] /\ Cur' = Answer(Cur, ok) /\ Hst' = Hst /\ Cur.call \in ApiCalls
           \/ Hst = ctx[t] /\ Hst' = Answer(Hst, ok) /\ Cur' = Cur /\ Hst.call \in TimerCalls
  <1>1. t # NoTask /\ Host # NoTask /\ Host \in Tasks
    BY TasksAssumption DEF Tasks
  <1>2. ctx'[t] = Answer(ctx[t], ok) /\ \A u \in Tasks : u # t => ctx'[u] = ctx[u]
    BY DEF Control, Answer
  <1>3. lock \in Tasks \cup {NoTask} /\ ctx[t] \in Contexts
    BY DEF Control
  <1>4. ctx'[t].at = "ack" /\ ctx'[t].call = ctx[t].call
    <2>1. \A r \in Contexts : Answer(r, ok).at = "ack" /\ Answer(r, ok).call = r.call
      BY DEF Answer, Contexts
    <2> QED  BY <1>2, <1>3, <2>1
  <1>5. InPlace(t, ctx[t], lock, hci)
    BY DEF Placed
  <1>6. CASE lock = t
    BY <1>1, <1>2, <1>3, <1>5, <1>6 DEF Cur, Hst, InPlace, Idle
  <1>7. CASE lock # t
    <2>1. ctx[t].call \in TimerCalls /\ t = Host
      BY <1>7, <1>5 DEF InPlace
    <2>2. Cur' = Cur
      BY <1>1, <1>2, <1>3, <1>7, <2>1 DEF Cur
    <2> QED  BY <1>1, <1>2, <1>3, <1>4, <1>7, <2>1, <2>2 DEF Hst
  <1> QED  BY <1>6, <1>7

(* ble_gap_preempt_no_lock goes on, or returns.                            *)
LEMMA GoOnView ==
    ASSUME Control, Placed, NEW t \in Tasks, NEW op, ctx[t].at = "ack", ctx[t].call \in ApiCalls,
           GoOn(t, op)
    PROVE  /\ Cur = ctx[t] /\ Hst' = Hst
           /\ IF op = "null" THEN Cur' = Idle
              ELSE /\ Cur'.at = "send" /\ Cur'.id = None /\ Cur' \in Contexts
                   /\ Cur'.call = IF op = "conn" THEN "pre_conn" ELSE "pre_disc"
  <1>1. t # NoTask /\ Host # NoTask /\ Host \in Tasks
    BY TasksAssumption DEF Tasks
  <1>2. lock = t /\ ctx[t] \in Contexts
    BY DEF Placed, InPlace, Control
  <1>3. t # Host => ctx'[Host] = ctx[Host]
    BY <1>1 DEF GoOn, Control
  <1>4. CASE op = "null"
    <2>1. lock' = NoTask /\ ctx'[t].at = "preempting"
      BY <1>4, <1>2 DEF GoOn, Control, Idle
    <2> QED  BY <1>1, <1>2, <1>3, <1>4, <2>1 DEF Cur, Hst
  <1>5. CASE op # "null"
    <2>1. lock' = t
      BY <1>2, <1>5 DEF GoOn
    <2>2. ctx'[t] = [ctx[t] EXCEPT !.at = "send", !.id = None,
                                   !.call = IF op = "conn" THEN "pre_conn" ELSE "pre_disc"]
      BY <1>2, <1>5 DEF GoOn, Control
    <2>3. /\ ctx'[t].at = "send" /\ ctx'[t].id = None /\ ctx'[t] \in Contexts
          /\ ctx'[t].call = IF op = "conn" THEN "pre_conn" ELSE "pre_disc"
      <3>1. ASSUME NEW r \in Contexts, NEW c \in ApiCalls
            PROVE  /\ Another(r, c) \in Contexts /\ Another(r, c).at = "send"
                   /\ Another(r, c).id = None /\ Another(r, c).call = c
        BY DEF Contexts, None, Another
      <3>2. PICK c : c = IF op = "conn" THEN "pre_conn" ELSE "pre_disc"
        OBVIOUS
      <3>3. c \in ApiCalls
        BY <3>2 DEF ApiCalls
      <3>4. ctx'[t] = Another(ctx[t], c)
        BY <2>2, <3>2 DEF Another
      <3>5. ctx'[t].at = "send" /\ ctx'[t].id = None /\ ctx'[t] \in Contexts /\ ctx'[t].call = c
        BY <1>2, <3>1, <3>3, <3>4
      <3> QED  BY <3>2, <3>5
    <2> QED  BY <1>1, <1>2, <1>3, <1>5, <2>1, <2>3 DEF Cur, Hst, Idle
  <1> QED  BY <1>4, <1>5

Put(t, r) == ctx' = [ctx EXCEPT ![t] = r]

(* ble_gap_preempt and ble_gap_preempt_done without the lock.              *)
LEMMA PreemptView ==
    ASSUME Control, Placed, NEW t \in Tasks, NEW r, ctx[t].at \in {"idle", "preempting"},
           lock = NoTask, UNCHANGED lock, Put(t, r), r = Idle \/ r.at = "preempting"
    PROVE  Cur = Idle /\ Cur' = Idle /\ Hst' = Hst
  <1>1. t # NoTask /\ Host # NoTask /\ Host \in Tasks
    BY TasksAssumption DEF Tasks
  <1>2. ctx[t].at = "idle" => ctx[t] = Idle
    BY DEF Placed, InPlace
  <1>3. ctx'[t] = r /\ (t # Host => ctx'[Host] = ctx[Host])
    BY <1>1 DEF Control, Put
  <1> QED  BY <1>1, <1>2, <1>3 DEF Cur, Hst, Idle

(* The host task at work.                                                  *)
AtWork(r) == r.at \in {"insert", "extract", "adv_finished"} \/ r.call \in TimerCalls

LEMMA HostView ==
    ASSUME Control, Placed, NEW r, ctx[Host].at = "idle" \/ AtWork(ctx[Host]),
           UNCHANGED lock, Put(Host, r), r.at # "preempting"
    PROVE  Hst = ctx[Host] /\ Hst' = r /\ Cur' = Cur
  <1>1. Host # NoTask /\ Host \in Tasks
    BY TasksAssumption DEF Tasks
  <1>2. InPlace(Host, ctx[Host], lock, hci) /\ ctx[Host] \in Contexts
    BY <1>1 DEF Placed, Control
  <1>3. lock # Host /\ ctx[Host].at # "preempting"
    BY <1>2 DEF InPlace, AtWork, Idle, ApiCalls, TimerCalls, Contexts
  <1>4. ctx'[Host] = r /\ (lock # NoTask => ctx'[lock] = ctx[lock])
    BY <1>1, <1>3 DEF Control, Put
  <1> QED  BY <1>1, <1>3, <1>4 DEF Cur, Hst

-----------------------------------------------------------------------------
(* The queue of events.                                                    *)

(* q with e at its end; q without its head.                                *)
Longer(q, p, e) ==
    /\ \A i \in DOMAIN q : i \in DOMAIN p /\ p[i] = q[i]
    /\ \E n \in DOMAIN p : p[n] = e /\ \A i \in DOMAIN p : i \in DOMAIN q \/ i = n

Rest(q, p, e) ==
    /\ \A i \in DOMAIN p : \E j \in DOMAIN q : p[i] = q[j]
    /\ \A j \in DOMAIN q : q[j] = e \/ \E i \in DOMAIN p : p[i] = q[j]
    /\ \E j \in DOMAIN q : q[j] = e

LEMMA QueueAppend ==
    ASSUME NEW q \in Seq(Events), NEW e \in Events
    PROVE  Append(q, e) \in Seq(Events) /\ Longer(q, Append(q, e), e)
  <1> DEFINE p == Append(q, e)
            n == Len(q) + 1
  <1>1. p \in Seq(Events) /\ n \in DOMAIN p /\ p[n] = e
    OBVIOUS
  <1>2. \A i \in DOMAIN q : i \in DOMAIN p /\ p[i] = q[i]
    OBVIOUS
  <1>3. \A i \in DOMAIN p : i \in DOMAIN q \/ i = n
    OBVIOUS
  <1> HIDE DEF p, n
  <1>4. Longer(q, p, e)
    BY <1>1, <1>2, <1>3, Zenon DEF Longer
  <1> QED  BY <1>1, <1>4 DEF p

LEMMA HasAppend ==
    ASSUME NEW q \in Seq(Events), NEW e \in Events, NEW T
    PROVE  /\ Has(Append(q, e), T) <=> Has(q, T) \/ e.type \in T
           /\ Once(q, T) /\ ~(Has(q, T) /\ e.type \in T) => Once(Append(q, e), T)
  <1>1. ASSUME NEW p, Longer(q, p, e)
        PROVE  /\ Has(p, T) <=> Has(q, T) \/ e.type \in T
               /\ Once(q, T) /\ ~(Has(q, T) /\ e.type \in T) => Once(p, T)
    <2>1. PICK n \in DOMAIN p : p[n] = e /\ \A i \in DOMAIN p : i \in DOMAIN q \/ i = n
      BY <1>1 DEF Longer
    <2>2. \A i \in DOMAIN q : i \in DOMAIN p /\ p[i] = q[i]
      BY <1>1 DEF Longer
    <2>3. Has(p, T) <=> Has(q, T) \/ e.type \in T
      BY <2>1, <2>2 DEF Has
    <2>4. Once(q, T) /\ ~(Has(q, T) /\ e.type \in T) => Once(p, T)
      <3> SUFFICES ASSUME Once(q, T), ~(Has(q, T) /\ e.type \in T), NEW i \in DOMAIN p, NEW j \in DOMAIN p,
                          p[i].type \in T, p[j].type \in T
                   PROVE  i = j
        BY DEF Once
      <3>1. i \in DOMAIN q => p[i] = q[i] /\ Has(q, T)
        BY <2>2 DEF Has
      <3>2. j \in DOMAIN q => p[j] = q[j] /\ Has(q, T)
        BY <2>2 DEF Has
      <3>3. CASE i \in DOMAIN q /\ j \in DOMAIN q
        BY <3>1, <3>2, <3>3 DEF Once
      <3> QED  BY <2>1, <3>1, <3>2, <3>3
    <2> QED  BY <2>3, <2>4
  <1> QED  BY <1>1, QueueAppend

LEMMA LinkAppend ==
    ASSUME NEW q \in Seq(Events), NEW e \in Events, NEW n
    PROVE  HasLink(Append(q, e), n) <=> HasLink(q, n) \/ (IsLink(e) /\ e.link = n)
  <1>1. ASSUME NEW p, Longer(q, p, e)
        PROVE  HasLink(p, n) <=> HasLink(q, n) \/ (IsLink(e) /\ e.link = n)
    BY <1>1 DEF HasLink, Longer
  <1> QED  BY <1>1, QueueAppend

LEMMA QueueTail ==
    ASSUME NEW q \in Seq(Events), q # <<>>
    PROVE  Tail(q) \in Seq(Events) /\ Head(q) \in Events /\ Rest(q, Tail(q), Head(q))
  <1> DEFINE p == Tail(q)
            e == Head(q)
  <1>1. p \in Seq(Events) /\ e \in Events
    OBVIOUS
  <1>2. \A i \in DOMAIN p : i + 1 \in DOMAIN q /\ p[i] = q[i + 1]
    OBVIOUS
  <1>3. \A j \in DOMAIN q : j # 1 => j - 1 \in DOMAIN p /\ p[j - 1] = q[j]
    OBVIOUS
  <1>4. 1 \in DOMAIN q /\ q[1] = e
    OBVIOUS
  <1> HIDE DEF p, e
  <1>5. Rest(q, p, e)
    BY <1>2, <1>3, <1>4 DEF Rest
  <1> QED  BY <1>1, <1>5 DEF p, e

LEMMA HasTail ==
    ASSUME NEW q \in Seq(Events), q # <<>>, NEW T
    PROVE  /\ Has(Tail(q), T) => Has(q, T)
           /\ Has(q, T) => Has(Tail(q), T) \/ Head(q).type \in T
           /\ Head(q).type \in T => Has(q, T)
           /\ Once(q, T) => Once(Tail(q), T)
           /\ Once(q, T) /\ Head(q).type \in T => ~Has(Tail(q), T)
  <1>1. ASSUME NEW p, NEW e, Rest(q, p, e)
        PROVE  /\ Has(p, T) => Has(q, T)
               /\ Has(q, T) => Has(p, T) \/ e.type \in T
               /\ e.type \in T => Has(q, T)
    BY <1>1 DEF Has, Rest
  <1>2. Once(q, T) => Once(Tail(q), T)
    BY DEF Once
  <1>3. Once(q, T) /\ Head(q).type \in T => ~Has(Tail(q), T)
    BY DEF Once, Has
  <1> QED  BY <1>1, <1>2, <1>3, QueueTail

LEMMA LinkTail ==
    ASSUME NEW q \in Seq(Events), q # <<>>, NEW n
    PROVE  /\ HasLink(q, n) => HasLink(Tail(q), n) \/ (IsLink(Head(q)) /\ Head(q).link = n)
           /\ HasLink(Tail(q), n) => HasLink(q, n)
           /\ IsLink(Head(q)) /\ Head(q).link = n => HasLink(q, n)
  <1>1. ASSUME NEW p, NEW e, Rest(q, p, e)
        PROVE  /\ HasLink(q, n) => HasLink(p, n) \/ (IsLink(e) /\ e.link = n)
               /\ HasLink(p, n) => HasLink(q, n)
               /\ IsLink(e) /\ e.link = n => HasLink(q, n)
    BY <1>1 DEF HasLink, Rest
  <1> QED  BY <1>1, QueueTail

-----------------------------------------------------------------------------
(* The procedures.                                                         *)

(* The procedures keep their number, kinds and durations.                  *)
Same(ps, qs) ==
    /\ qs \in Seq(Procs) /\ Len(qs) = Len(ps) /\ DOMAIN qs = DOMAIN ps
    /\ \A i \in DOMAIN ps : qs[i].kind = ps[i].kind /\ qs[i].timed = ps[i].timed

LEMMA Delivered ==
    ASSUME NEW ps \in Seq(Procs), NEW j \in DOMAIN ps, NEW k \in Kinds, Live(ps, j, k)
    PROVE  /\ Same(ps, Deliver(ps, j, k))
           /\ Told(ps) => Told(Deliver(ps, j, k))
           /\ \A i : Waiting(Deliver(ps, j, k), i) => Waiting(ps, i) /\ i # j
           /\ \A i, l : Live(ps, i, l) /\ i # j => Live(Deliver(ps, j, k), i, l)
  <1> DEFINE qs == Deliver(ps, j, k)
  <1>1. j # None /\ qs = [ps EXCEPT ![j].got = Append(@, k)] /\ j \in Nat
    BY DEF Deliver, None
  <1>2. ps[j] \in Procs /\ ps[j].got = <<>> /\ Append(ps[j].got, k) = <<k>> /\ <<k>> \in Seq(Kinds)
    <2>1. ps[j] \in Procs /\ ps[j].got = <<>>
      BY DEF Live
    <2> QED  BY <2>1
  <1>3. DOMAIN qs = DOMAIN ps /\ \A i \in DOMAIN ps : i # j => qs[i] = ps[i]
    BY <1>1
  <1>4. qs[j] = [ps[j] EXCEPT !.got = <<k>>]
    BY <1>1, <1>2
  <1>5. /\ qs[j] \in Procs /\ qs[j].kind = ps[j].kind /\ qs[j].timed = ps[j].timed
        /\ qs[j].got = <<k>> /\ qs[j].stat = ps[j].stat
    BY <1>2, <1>4 DEF Procs
  <1>6. qs \in Seq(Procs) /\ Len(qs) = Len(ps)
    BY <1>1, <1>3, <1>5
  <1>7. <<k>> # <<>>
    OBVIOUS
  <1> HIDE DEF qs
  <1>8. Same(ps, qs)
    BY <1>3, <1>5, <1>6 DEF Same
  <1>9. Told(ps) => Told(qs)
    <2>1. ReportedOnce(qs[j])
      BY <1>5 DEF ReportedOnce, Live
    <2> QED  BY <2>1, <1>3 DEF Told
  <1>10. \A i : Waiting(qs, i) => Waiting(ps, i) /\ i # j
    BY <1>3, <1>5, <1>7 DEF Waiting
  <1>11. \A i, l : Live(ps, i, l) /\ i # j => Live(qs, i, l)
    BY <1>3 DEF Live
  <1> QED  BY <1>8, <1>9, <1>10, <1>11 DEF qs

LEMMA Stated ==
    ASSUME NEW ps \in Seq(Procs), NEW j \in DOMAIN ps, NEW k, Live(ps, j, k),
           NEW st \in {"active", "failed", "stopped"}
    PROVE  /\ Same(ps, Stat(ps, j, st))
           /\ Told(ps) => Told(Stat(ps, j, st))
           /\ \A i : Waiting(Stat(ps, j, st), i) => Waiting(ps, i) /\ (i = j => st = "active")
           /\ \A i, l : Live(ps, i, l) /\ (i = j => st = "active") => Live(Stat(ps, j, st), i, l)
  <1> DEFINE qs == Stat(ps, j, st)
  <1>1. j # None /\ qs = [ps EXCEPT ![j].stat = st] /\ j \in Nat
    BY DEF Stat, None
  <1>2. ps[j] \in Procs
    OBVIOUS
  <1>3. DOMAIN qs = DOMAIN ps /\ \A i \in DOMAIN ps : i # j => qs[i] = ps[i]
    BY <1>1
  <1>4. qs[j] = [ps[j] EXCEPT !.stat = st]
    BY <1>1, <1>2
  <1>5. /\ qs[j] \in Procs /\ qs[j].kind = ps[j].kind /\ qs[j].timed = ps[j].timed
        /\ qs[j].got = ps[j].got /\ qs[j].stat = st
    BY <1>2, <1>4 DEF Procs
  <1>6. qs \in Seq(Procs) /\ Len(qs) = Len(ps)
    BY <1>1, <1>3, <1>5
  <1> HIDE DEF qs
  <1>7. ps[j].got = <<>> /\ ps[j].stat \in {"starting", "active"} /\ ps[j].kind = k
    BY DEF Live
  <1>8. Same(ps, qs)
    BY <1>3, <1>5, <1>6 DEF Same
  <1>9. Told(ps) => Told(qs)
    <2>1. ReportedOnce(qs[j])
      BY <1>5, <1>7 DEF ReportedOnce
    <2> QED  BY <2>1, <1>3 DEF Told
  <1>10. \A i : Waiting(qs, i) => Waiting(ps, i) /\ (i = j => st = "active")
    BY <1>3, <1>5, <1>7 DEF Waiting
  <1>11. \A i, l : Live(ps, i, l) /\ (i = j => st = "active") => Live(qs, i, l)
    BY <1>3, <1>5 DEF Live
  <1> QED  BY <1>8, <1>9, <1>10, <1>11 DEF qs

(* A procedure begins.                                                     *)
Begun(kind, timed) == [kind |-> kind, timed |-> timed, stat |-> "starting", got |-> <<>>]

Grown(ps, qs, n, k, b) ==
    /\ qs \in Seq(Procs) /\ Len(qs) = n /\ n \in Nat /\ n # 0
    /\ \A i \in DOMAIN ps : i \in DOMAIN qs /\ i # n /\ qs[i] = ps[i]
    /\ Told(ps) => Told(qs)
    /\ \A i : Waiting(qs, i) => Waiting(ps, i) \/ i = n
    /\ \A i, l : Live(ps, i, l) => Live(qs, i, l) /\ i # n
    /\ Fresh(qs, n, k, b)

LEMMA Added ==
    ASSUME NEW ps \in Seq(Procs), NEW k \in Kinds, NEW b \in BOOLEAN, NEW qs, NEW n,
           qs = Append(ps, Begun(k, b)), n = Len(ps) + 1
    PROVE  Grown(ps, qs, n, k, b)
  <1>1. Begun(k, b) \in Procs
    <2>1. <<>> \in Seq(Kinds)
      OBVIOUS
    <2> QED  BY <2>1 DEF Begun, Procs
  <1>2. /\ qs \in Seq(Procs) /\ Len(qs) = n /\ n \in Nat /\ n # 0
        /\ \A i \in DOMAIN ps : i \in DOMAIN qs /\ i # n /\ qs[i] = ps[i]
        /\ \A i \in DOMAIN qs : i \in DOMAIN ps \/ i = n
        /\ qs[n] = Begun(k, b) /\ n \in DOMAIN qs
    BY <1>1
  <1>4. /\ qs[n].kind = k /\ qs[n].timed = b /\ qs[n].stat = "starting" /\ qs[n].got = <<>>
    BY <1>2 DEF Begun
  <1>5. Told(ps) => Told(qs)
    BY <1>2, <1>4 DEF Told, ReportedOnce
  <1>6. \A i : Waiting(qs, i) => Waiting(ps, i) \/ i = n
    BY <1>2 DEF Waiting
  <1>7. \A i, l : Live(ps, i, l) => Live(qs, i, l) /\ i # n
    BY <1>2 DEF Live
  <1>8. Fresh(qs, n, k, b)
    BY <1>2, <1>4 DEF Fresh, Live
  <1> QED  BY <1>2, <1>5, <1>6, <1>7, <1>8 DEF Grown

-----------------------------------------------------------------------------
(* Where the tasks are, after a step of one of them.                       *)

Moves(t, a, b) == a = b \/ (a \in {t, NoTask} /\ b \in {t, NoTask})

(* No procedure and no link is forgotten.                                  *)
Grows ==
    Len(procs) \in Nat /\ Len(procs') \in Nat /\ Len(procs) <= Len(procs')
    /\ ll.links \in Nat /\ ll'.links \in Nat /\ ll.links <= ll'.links

LEMMA RefersGrow ==
    ASSUME NEW r \in Contexts, NEW n \in Nat, NEW m \in Nat, NEW k \in Nat, NEW l \in Nat,
           Refers(r, n, k), n <= m, k <= l
    PROVE  Refers(r, m, l)
  BY DEF Refers, Contexts

LEMMA Moved ==
    ASSUME Control, Placed, Refs, Grows, NEW t \in Tasks, NEW r \in Contexts,
           ctx' = [ctx EXCEPT ![t] = r], InPlace(t, r, lock', hci'),
           Moves(t, lock, lock'), Moves(t, hci, hci'), Refers(r, Len(procs'), ll'.links)
    PROVE  Control' /\ Placed' /\ Refs'
  <1>1. Control'
    BY DEF Control, Moves
  <1>2. ctx'[t] = r /\ \A u \in Tasks : u # t => ctx'[u] = ctx[u]
    BY DEF Control
  <1>3. Placed'
    <2> SUFFICES ASSUME NEW u \in Tasks PROVE InPlace(u, ctx'[u], lock', hci')
      BY DEF Placed
    <2>1. CASE u = t
      BY <1>2, <2>1
    <2>2. CASE u # t
      <3>1. (lock = u <=> lock' = u) /\ (hci = u <=> hci' = u)
        BY <2>2, TasksAssumption DEF Moves, Tasks
      <3>2. InPlace(u, ctx[u], lock, hci) /\ ctx'[u] = ctx[u]
        BY <2>2, <1>2 DEF Placed
      <3> QED  BY <3>1, <3>2 DEF InPlace
    <2> QED  BY <2>1, <2>2
  <1>4. Refs'
    <2> SUFFICES ASSUME NEW u \in Tasks PROVE Refers(ctx'[u], Len(procs'), ll'.links)
      BY DEF Refs
    <2>1. CASE u = t
      BY <1>2, <2>1
    <2>2. CASE u # t
      <3>1. Refers(ctx[u], Len(procs), ll.links) /\ ctx[u] \in Contexts /\ ctx'[u] = ctx[u]
        BY <2>2, <1>2 DEF Refs, Control
      <3> QED  BY <3>1, RefersGrow DEF Grows
    <2> QED  BY <2>1, <2>2
  <1> QED  BY <1>1, <1>3, <1>4

LEMMA Stayed ==
    ASSUME Control, Placed, Refs, Grows, UNCHANGED <<ctx, lock, hci>>
    PROVE  Control' /\ Placed' /\ Refs'
  <1>1. Control' /\ Placed'
    BY DEF Control, Placed
  <1>2. Refs'
    <2> SUFFICES ASSUME NEW u \in Tasks PROVE Refers(ctx'[u], Len(procs'), ll'.links)
      BY DEF Refs
    <2>1. Refers(ctx[u], Len(procs), ll.links) /\ ctx[u] \in Contexts /\ ctx'[u] = ctx[u]
      BY DEF Refs, Control
    <2> QED  BY <2>1, RefersGrow DEF Grows
  <1> QED  BY <1>1, <1>2

LEMMA CallMoved ==
    ASSUME Control, Placed, Refs, Grows, NEW t \in Tasks, NEW call \in ApiCalls,
           NEW id \in Nat, NEW timed \in BOOLEAN, id <= Len(procs'),
           ctx[t].at = "idle", lock = NoTask, Call(t, call, id, timed), UNCHANGED hci
    PROVE  Control' /\ Placed' /\ Refs'
  <1> DEFINE r == Asked(call, id, timed)
  <1>1. r \in Contexts
    BY DEF Asked, Contexts, None
  <1>2. ctx' = [ctx EXCEPT ![t] = r] /\ lock' = t
    <2>1. ctx'[t] = r
      BY DEF Call, Control, Asked, Idle
    <2>2. ctx' = [ctx EXCEPT ![t] = ctx'[t]] /\ lock' = t
      BY DEF Call, Control
    <2> QED  BY <2>1, <2>2
  <1>3. hci # t
    BY DEF Placed, InPlace
  <1>4. r.at = "send" /\ r.call = call /\ r.id = id
    BY DEF Asked
  <1>5. call \notin TimerCalls
    BY DEF ApiCalls, TimerCalls
  <1> HIDE DEF r
  <1>6. InPlace(t, r, lock', hci')
    BY <1>2, <1>3, <1>4, <1>5 DEF InPlace
  <1>7. Refers(r, Len(procs'), ll'.links)
    BY <1>4 DEF Refers
  <1> QED  BY <1>1, <1>2, <1>6, <1>7, Moved DEF Moves

LEMMA IdleMoved ==
    ASSUME Control, Placed, Refs, Grows, NEW t \in Tasks, ctx' = [ctx EXCEPT ![t] = Idle],
           Moves(t, lock, lock'), Moves(t, hci, hci'), lock' # t, hci' # t
    PROVE  Control' /\ Placed' /\ Refs'
  <1>1. Idle.at = "idle" /\ Idle.id = 0 /\ Idle.call = "none"
    BY DEF Idle, None
  <1>2. InPlace(t, Idle, lock', hci')
    BY <1>1 DEF InPlace, TimerCalls
  <1>3. Refers(Idle, Len(procs'), ll'.links)
    BY <1>1 DEF Refers, Grows
  <1> QED  BY <1>2, <1>3, IdleType, Moved

LEMMA LeaveMoved ==
    ASSUME Control, Placed, Refs, Grows, NEW t \in Tasks, ctx[t].at = "ack",
           ctx[t].call \in ApiCalls, Leave(t)
    PROVE  Control' /\ Placed' /\ Refs'
  <1>1. lock = t /\ hci = t
    BY DEF Placed, InPlace
  <1>2. t # NoTask
    BY TasksAssumption DEF Tasks
  <1> QED  BY <1>1, <1>2, IdleMoved DEF Leave, Moves

LEMMA GoOnMoved ==
    ASSUME Control, Placed, Refs, Grows, NEW t \in Tasks, NEW op, ctx[t].at = "ack",
           ctx[t].call \in ApiCalls, GoOn(t, op)
    PROVE  Control' /\ Placed' /\ Refs'
  <1>1. lock = t /\ hci = t /\ ctx[t] \in Contexts
    BY DEF Placed, InPlace, Control
  <1>2. t # NoTask /\ hci' = NoTask
    BY TasksAssumption DEF Tasks, GoOn
  <1>3. CASE op = "null"
    <2> DEFINE r == [Idle EXCEPT !.at = "preempting"]
    <2>1. ctx' = [ctx EXCEPT ![t] = r] /\ lock' = NoTask
      BY <1>3 DEF GoOn
    <2>2. r \in Contexts /\ r.at = "preempting" /\ r.call = "none" /\ r.id = 0
      BY DEF Idle, Contexts, None, ApiCalls, TimerCalls
    <2> HIDE DEF r
    <2>3. InPlace(t, r, lock', hci')
      BY <1>2, <2>1, <2>2 DEF InPlace, TimerCalls
    <2>4. Refers(r, Len(procs'), ll'.links)
      BY <2>2 DEF Refers, Grows
    <2> QED  BY <1>1, <1>2, <2>1, <2>2, <2>3, <2>4, Moved DEF Moves
  <1>4. CASE op # "null"
    <2>1. PICK c : c = IF op = "conn" THEN "pre_conn" ELSE "pre_disc"
      OBVIOUS
    <2>2. c \in ApiCalls /\ c \notin TimerCalls
      BY <2>1 DEF ApiCalls, TimerCalls
    <2> DEFINE r == Another(ctx[t], c)
    <2>3. ctx' = [ctx EXCEPT ![t] = r] /\ lock' = t
      BY <1>1, <1>4, <2>1 DEF GoOn, Another, Control
    <2>4. r \in Contexts /\ r.at = "send" /\ r.call = c /\ r.id = 0
      <3>1. ASSUME NEW s \in Contexts, NEW d \in ApiCalls
            PROVE  /\ Another(s, d) \in Contexts /\ Another(s, d).at = "send"
                   /\ Another(s, d).id = 0 /\ Another(s, d).call = d
        BY DEF Contexts, None, Another
      <3> QED  BY <1>1, <2>2, <3>1
    <2> HIDE DEF r
    <2>5. InPlace(t, r, lock', hci')
      BY <1>2, <2>2, <2>3, <2>4 DEF InPlace
    <2>6. Refers(r, Len(procs'), ll'.links)
      BY <2>4 DEF Refers, Grows
    <2> QED  BY <1>1, <1>2, <2>3, <2>4, <2>5, <2>6, Moved DEF Moves
  <1> QED  BY <1>3, <1>4

LEMMA SendMoved ==
    ASSUME Control, Placed, Refs, Grows, NEW t \in Tasks, NEW ok \in BOOLEAN, ctx[t].at = "send",
           hci = NoTask, hci' = t, UNCHANGED lock,
           ctx' = [ctx EXCEPT ![t].at = "ack", ![t].ok = ok]
    PROVE  Control' /\ Placed' /\ Refs'
  <1> DEFINE r == Answer(ctx[t], ok)
  <1>1. ctx' = [ctx EXCEPT ![t] = r] /\ ctx[t] \in Contexts
    BY DEF Answer, Control
  <1>2. r \in Contexts /\ r.at = "ack" /\ r.call = ctx[t].call /\ r.id = ctx[t].id
    <2>1. ASSUME NEW s \in Contexts
          PROVE  /\ Answer(s, ok) \in Contexts /\ Answer(s, ok).at = "ack"
                 /\ Answer(s, ok).call = s.call /\ Answer(s, ok).id = s.id
      BY DEF Contexts, Answer
    <2> QED  BY <1>1, <2>1
  <1>3. InPlace(t, ctx[t], lock, hci) /\ Refers(ctx[t], Len(procs), ll.links)
    BY DEF Placed, Refs
  <1> HIDE DEF r
  <1>4. InPlace(t, r, lock', hci')
    BY <1>2, <1>3 DEF InPlace
  <1>5. Refers(r, Len(procs'), ll'.links)
    <2>1. ctx[t].id \in Nat
      BY <1>1 DEF Contexts
    <2> QED  BY <1>2, <1>3, <2>1 DEF Refers, Grows
  <1> QED  BY <1>1, <1>2, <1>4, <1>5, Moved DEF Moves

LEMMA HostMoved ==
    ASSUME Control, Placed, Refs, Grows, NEW r \in Contexts, HstOK(r), r.at # "ack",
           Refers(r, Len(procs'), ll'.links), ctx[Host].at = "idle" \/ AtWork(ctx[Host]),
           hci' = (IF ctx[Host].at = "ack" THEN NoTask ELSE hci), UNCHANGED lock,
           ctx' = [ctx EXCEPT ![Host] = r]
    PROVE  Control' /\ Placed' /\ Refs'
  <1>1. Host # NoTask /\ Host \in Tasks
    BY TasksAssumption DEF Tasks
  <1>2. InPlace(Host, ctx[Host], lock, hci) /\ ctx[Host] \in Contexts
    BY <1>1 DEF Placed, Control
  <1>3. lock # Host /\ hci' # Host /\ Moves(Host, hci, hci')
    BY <1>1, <1>2 DEF InPlace, AtWork, Idle, ApiCalls, TimerCalls, Contexts, Moves
  <1>4. r.at = "send" => r.call \notin ApiCalls
    BY DEF HstOK, Idle, ApiCalls, TimerCalls
  <1>5. InPlace(Host, r, lock', hci')
    BY <1>3, <1>4 DEF InPlace, HstOK, Idle
  <1> QED  BY <1>1, <1>3, <1>5, Moved DEF Moves

-----------------------------------------------------------------------------
(* Types and places are kept.                                              *)

LEMMA DeliverType ==
    ASSUME NEW ps \in Seq(Procs), NEW j \in Nat, j <= Len(ps), NEW k \in Kinds
    PROVE  Deliver(ps, j, k) \in Seq(Procs) /\ Len(Deliver(ps, j, k)) = Len(ps)
  <1>1. CASE j = None
    BY <1>1 DEF Deliver
  <1>2. CASE j # None
    <2>1. j \in DOMAIN ps /\ ps[j] \in Procs /\ ps[j].got \in Seq(Kinds)
      <3>1. j \in DOMAIN ps /\ ps[j] \in Procs
        BY <1>2 DEF None
      <3> QED  BY <3>1 DEF Procs
    <2>2. Append(ps[j].got, k) \in Seq(Kinds)
      BY <2>1
    <2>3. Deliver(ps, j, k) = [ps EXCEPT ![j] = [ps[j] EXCEPT !.got = Append(ps[j].got, k)]]
      BY <1>2, <2>1 DEF Deliver
    <2>4. [ps[j] EXCEPT !.got = Append(ps[j].got, k)] \in Procs
      BY <2>1, <2>2 DEF Procs
    <2> QED  BY <2>1, <2>3, <2>4
  <1> QED  BY <1>1, <1>2

LEMMA StatType ==
    ASSUME NEW ps \in Seq(Procs), NEW j \in Nat, j <= Len(ps),
           NEW st \in {"active", "failed", "stopped"}
    PROVE  Stat(ps, j, st) \in Seq(Procs) /\ Len(Stat(ps, j, st)) = Len(ps)
  <1>1. CASE j = None
    BY <1>1 DEF Stat
  <1>2. CASE j # None
    <2>1. j \in DOMAIN ps /\ ps[j] \in Procs
      BY <1>2 DEF None
    <2>2. Stat(ps, j, st) = [ps EXCEPT ![j] = [ps[j] EXCEPT !.stat = st]]
      BY <1>2, <2>1 DEF Stat
    <2>3. [ps[j] EXCEPT !.stat = st] \in Procs
      BY <2>1 DEF Procs
    <2> QED  BY <2>1, <2>2, <2>3
  <1> QED  BY <1>1, <1>2

LEMMA MasterReseted ==
    ASSUME NEW m \in Masters
    PROVE  /\ MasterReset(m) \in Masters
           /\ MasterReset(m).op = "null" /\ ~MasterReset(m).exp
           /\ MasterReset(m).pre = m.pre /\ MasterReset(m).cb = m.cb
  BY DEF Masters, MasterReset

LEMMA SlaveReseted ==
    ASSUME NEW s \in Slaves
    PROVE  /\ SlaveReset(s) \in Slaves
           /\ ~SlaveReset(s).op /\ ~SlaveReset(s).exp
           /\ SlaveReset(s).pre = s.pre /\ SlaveReset(s).cb = s.cb
  BY DEF Slaves, SlaveReset

(* A step that leaves the links and the procedures' number alone.          *)
LEMMA ShapeKept ==
    ASSUME Shape, Data', Control', Placed', Refs', Len(procs') = Len(procs),
           ll'.links = ll.links, UNCHANGED <<conns, events, lost>>,
           master'.cb = master.cb, slave'.cb = slave.cb
    PROVE  Shape'
  <1>1. Known'
    BY DEF Shape, Known
  <1> QED  BY <1>1 DEF Shape, Types

LEMMA GrowsKept ==
    ASSUME Shape, Len(procs') = Len(procs), ll'.links = ll.links
    PROVE  Grows
  <1>1. Len(procs) \in Nat /\ ll.links \in Nat
    BY DEF Shape, Types, Data, Controls
  <1> QED  BY <1>1 DEF Grows

LEMMA ConnectShape ==
    ASSUME Shape, NEW t \in Tasks, NEW timed \in BOOLEAN,
           Connect(t, timed) \/ Disc(t, timed) \/ \E b \in BOOLEAN : AdvStart(t, timed, b)
    PROVE  Shape'
  <1>1. PICK call, kind : /\ <<call, kind>> \in {<<"connect", "conn">>, <<"disc", "disc">>, <<"adv", "adv">>}
                          /\ Call(t, call, NewId, timed) /\ procs' = Append(procs, Begun(kind, timed))
    <2>1. CASE Connect(t, timed)
      <3> WITNESS "connect", "conn"
      <3> QED  BY <2>1 DEF Connect, Begin, Begun
    <2>2. CASE Disc(t, timed)
      <3> WITNESS "disc", "disc"
      <3> QED  BY <2>2 DEF Disc, Begin, Begun
    <2>3. CASE \E b \in BOOLEAN : AdvStart(t, timed, b)
      <3>1. Call(t, "adv", NewId, timed) /\ procs' = Append(procs, Begun("adv", timed))
        BY <2>3, Zenon DEF AdvStart, Begin, Begun
      <3> QED  BY <3>1
    <2> QED  BY <2>1, <2>2, <2>3
  <1>2. call \in ApiCalls /\ kind \in Kinds
    BY <1>1 DEF ApiCalls, Kinds
  <1>3. /\ ctx[t].at = "idle" /\ lock = NoTask /\ calls \in Nat /\ calls' \in Nat
        /\ UNCHANGED <<conns, hci, ll, events, lost, refused>> /\ crossed' \in BOOLEAN
    <2>1. calls \in Nat /\ calls + 1 \in Nat /\ crossed \in BOOLEAN
      BY DEF Shape, Types, Data
    <2>2. CASE Connect(t, timed)
      BY <2>1, <2>2, Zenon DEF Connect, MayCall
    <2>3. CASE Disc(t, timed)
      BY <2>1, <2>3, Zenon DEF Disc, MayCall
    <2>4. CASE \E b \in BOOLEAN : AdvStart(t, timed, b)
      BY <2>1, <2>4, Zenon DEF AdvStart, MayCall
    <2> QED  BY <2>2, <2>3, <2>4
  <1>4. procs \in Seq(Procs) /\ Len(procs) \in Nat /\ ll.links \in Nat /\ NewId = Len(procs) + 1
    BY DEF Shape, Types, Data, Controls, NewId
  <1>5. procs' \in Seq(Procs) /\ Len(procs') = NewId /\ NewId \in Nat
    BY <1>1, <1>2, <1>4, Added DEF Grown
  <1>6. /\ master' \in Masters /\ slave' \in Slaves
        /\ master'.cb \in {master.cb, NewId} /\ slave'.cb \in {slave.cb, NewId}
    <2>a. master \in Masters /\ slave \in Slaves
      BY DEF Shape, Types, Data
    <2>b. ASSUME Connect(t, timed) \/ Disc(t, timed)
          PROVE  /\ slave' = slave
                 /\ \E m \in {"conn", "disc"} : master' = [master EXCEPT !.op = m, !.cb = NewId]
      BY <2>b, Zenon DEF Connect, Disc
    <2>1. CASE Connect(t, timed) \/ Disc(t, timed)
      BY <1>5, <2>1, <2>a, <2>b DEF Masters, Slaves
    <2>2. ASSUME NEW b \in BOOLEAN, AdvStart(t, timed, b)
          PROVE  slave' = [slave EXCEPT !.op = TRUE, !.cb = NewId, !.connectable = b] /\ master' = master
      BY <2>2, Zenon DEF AdvStart
    <2>3. CASE \E b \in BOOLEAN : AdvStart(t, timed, b)
      BY <1>5, <2>2, <2>3, <2>a DEF Slaves
    <2> QED  BY <2>1, <2>3
  <1>7. Grows
    BY <1>3, <1>4, <1>5 DEF Grows
  <1>8. Control' /\ Placed' /\ Refs'
    BY <1>1, <1>2, <1>3, <1>5, <1>7, CallMoved DEF Shape, Types
  <1>9. Data'
    BY <1>3, <1>5, <1>6 DEF Shape, Types, Data
  <1>10. Known'
    <2>1. master.cb \in Nat /\ slave.cb \in Nat /\ master.cb <= Len(procs) /\ slave.cb <= Len(procs)
      BY DEF Shape, Types, Data, Known, Masters, Slaves
    <2>2. master'.cb <= Len(procs') /\ slave'.cb <= Len(procs')
      BY <1>4, <1>5, <1>6, <2>1
    <2> QED  BY <1>3, <2>2 DEF Shape, Known
  <1> QED  BY <1>8, <1>9, <1>10 DEF Shape, Types

LEMMA CancelShape ==
    ASSUME Shape, NEW t \in Tasks, Cancel(t) \/ AdvStop(t) \/ Preempt(t)
    PROVE  Shape'
  <1>1. /\ ctx[t].at = "idle" /\ lock = NoTask /\ calls \in Nat /\ calls' \in Nat
        /\ UNCHANGED <<master, slave, conns, hci, ll, events, lost, procs, crossed, refused>>
    <2>1. calls \in Nat /\ calls + 1 \in Nat
      BY DEF Shape, Types, Data
    <2> QED  BY <2>1, Zenon DEF Cancel, AdvStop, Preempt, MayCall
  <1>2. Grows
    BY <1>1, GrowsKept
  <1>3. Data'
    BY <1>1 DEF Shape, Types, Data
  <1>4. /\ master.cb \in Nat /\ master.cb <= Len(procs') /\ slave.cb \in Nat /\ slave.cb <= Len(procs')
        /\ 0 <= Len(procs')
    BY <1>1 DEF Shape, Types, Data, Known, Masters, Slaves
  <1>5. Control' /\ Placed' /\ Refs'
    <2>1. ASSUME NEW call \in ApiCalls, NEW id \in Nat, id <= Len(procs'), Call(t, call, id, FALSE)
          PROVE  Control' /\ Placed' /\ Refs'
      BY <1>1, <1>2, <2>1, CallMoved DEF Shape, Types
    <2>2. CASE Cancel(t)
      <3>1. PICK call : call = IF master.op = "conn" THEN "conn_cancel" ELSE "disc_cancel"
        OBVIOUS
      <3>2. Call(t, call, master.cb, FALSE)
        BY <2>2, <3>1 DEF Cancel
      <3> QED  BY <1>4, <2>1, <3>1, <3>2 DEF ApiCalls
    <2>3. CASE AdvStop(t)
      <3>1. Call(t, "adv_stop", slave.cb, FALSE)
        BY <2>3 DEF AdvStop
      <3> QED  BY <1>4, <2>1, <3>1 DEF ApiCalls
    <2>4. CASE Preempt(t)
      <3>1. CASE ~IsPreempted
        <4>1. PICK id : id = IF slave.op THEN slave.cb ELSE None
          OBVIOUS
        <4>2. Call(t, "pre_adv", id, FALSE)
          BY <2>4, <3>1, <4>1 DEF Preempt
        <4> QED  BY <1>4, <2>1, <4>1, <4>2 DEF ApiCalls, None
      <3>2. CASE IsPreempted
        <4> DEFINE r == [Idle EXCEPT !.at = "preempting"]
        <4>1. ctx[t] = Idle
          BY <1>1 DEF Shape, Placed, InPlace
        <4>2. ctx' = [ctx EXCEPT ![t] = r] /\ lock' = lock /\ hci' = hci
          BY <1>1, <2>4, <3>2, <4>1 DEF Preempt, Shape, Types, Control
        <4>3. r \in Contexts /\ r.at = "preempting" /\ r.call = "none" /\ r.id = 0
          BY DEF Idle, Contexts, None, ApiCalls, TimerCalls
        <4>4. InPlace(t, ctx[t], lock, hci)
          BY DEF Shape, Placed
        <4> HIDE DEF r
        <4>5. InPlace(t, r, lock', hci')
          BY <1>1, <4>2, <4>3, <4>4 DEF InPlace, TimerCalls
        <4>6. Refers(r, Len(procs'), ll'.links)
          BY <1>4, <4>3 DEF Refers
        <4> QED  BY <1>2, <4>2, <4>3, <4>5, <4>6, Moved DEF Moves, Shape, Types
      <3> QED  BY <3>1, <3>2
    <2> QED  BY <2>2, <2>3, <2>4
  <1> QED  BY <1>1, <1>3, <1>5, ShapeKept

(* Commands: what they do to the controller and the queue.                 *)
(* An event is queued or dropped.                                          *)
LEMMA EmitTypes ==
    ASSUME NEW e \in Events, Emit(e), events \in Seq(Events), lost \in SUBSET Events
    PROVE  /\ events' \in Seq(Events) /\ lost' \in SUBSET Events
           /\ \A n : HasLink(events, n) => HasLink(events', n)
           /\ \A n : LostLink(lost, n) => LostLink(lost', n)
           /\ \A n : HasLink(events', n) => HasLink(events, n) \/ (IsLink(e) /\ e.link = n)
           /\ \A n : LostLink(lost', n) => LostLink(lost, n) \/ (IsLink(e) /\ e.link = n)
           /\ \A n : IsLink(e) /\ e.link = n => HasLink(events', n) \/ LostLink(lost', n)
  <1>1. CASE events' = Append(events, e) /\ lost' = lost
    BY <1>1, QueueAppend, LinkAppend
  <1>2. CASE events' = events /\ lost' = lost \cup {e}
    BY <1>2 DEF LostLink
  <1> QED  BY <1>1, <1>2 DEF Emit

LEMMA EmitFx ==
    ASSUME NEW e \in Events, Emit(e), events \in Seq(Events), lost \in SUBSET Events
    PROVE  /\ \A T : Has(events, T) => Has(events', T)
           /\ \A T : Has(events', T) => Has(events, T) \/ e.type \in T
           /\ \A T : e.type \in T => Has(events', T) \/ Gone(lost', T)
           /\ \A T : Gone(lost, T) => Gone(lost', T)
           /\ \A T : Once(events, T) /\ ~(Has(events, T) /\ e.type \in T) => Once(events', T)
  <1>1. CASE events' = Append(events, e) /\ lost' = lost
    BY <1>1, HasAppend
  <1>2. CASE events' = events /\ lost' = lost \cup {e}
    BY <1>2 DEF Gone
  <1> QED  BY <1>1, <1>2 DEF Emit

LEMMA ExecutedTypes ==
    ASSUME Shape, NEW call \in ApiCalls \cup TimerCalls, Executed(call)
    PROVE  /\ ll' \in Controls /\ ll'.links = ll.links
           /\ events' \in Seq(Events) /\ lost' \in SUBSET Events
           /\ \A n \in Nat : HasLink(events', n) <=> HasLink(events, n)
           /\ \A n \in Nat : LostLink(lost', n) <=> LostLink(lost, n)
  <1>1. ll \in Controls /\ events \in Seq(Events) /\ lost \in SUBSET Events
    BY DEF Shape, Types, Data
  <1>2. ll' \in Controls /\ ll'.links = ll.links
    BY <1>1 DEF Executed, Controls, ApiCalls, TimerCalls
  <1>3. CASE call \in {"conn_cancel", "pre_conn", "timer_conn"}
    <2> DEFINE e == [type |-> "cancelled", link |-> None]
    <2>1. e \in Events /\ ~IsLink(e)
      BY DEF Events, IsLink, None
    <2>2. Emit(e)
      BY <1>3 DEF Executed
    <2> HIDE DEF e
    <2> QED  BY <1>1, <1>2, <2>1, <2>2, EmitTypes
  <1>4. CASE call \notin {"conn_cancel", "pre_conn", "timer_conn"}
    BY <1>1, <1>2, <1>4 DEF Executed
  <1> QED  BY <1>3, <1>4

LEMMA SendShape ==
    ASSUME Shape, NEW t \in Tasks, Send(t)
    PROVE  Shape'
  <1>1. ctx[t].at = "send" /\ hci = NoTask /\ hci' = t
    BY DEF Send
  <1>2. UNCHANGED <<master, slave, conns, lock, procs, crossed, calls>>
    BY DEF Send
  <1>3. ctx[t].call \in ApiCalls \cup TimerCalls
    BY <1>1 DEF Shape, Placed, InPlace
  <1>4. PICK ok \in BOOLEAN : ctx' = [ctx EXCEPT ![t].at = "ack", ![t].ok = ok]
    BY DEF Send
  <1>5. refused' \in Nat
    BY DEF Send, Shape, Types, Data
  <1>6. /\ ll' \in Controls /\ ll'.links = ll.links /\ events' \in Seq(Events)
        /\ lost' \in SUBSET Events
        /\ \A n \in Nat : HasLink(events', n) <=> HasLink(events, n)
        /\ \A n \in Nat : LostLink(lost', n) <=> LostLink(lost, n)
    <2>1. Executed(ctx[t].call) \/ UNCHANGED <<ll, events, lost>>
      BY DEF Send
    <2>2. CASE UNCHANGED <<ll, events, lost>>
      BY <2>2 DEF Shape, Types, Data
    <2> QED  BY <1>3, <2>1, <2>2, ExecutedTypes
  <1>7. Grows
    BY <1>2, <1>6, GrowsKept
  <1>8. Control' /\ Placed' /\ Refs'
    BY <1>1, <1>2, <1>4, <1>7, SendMoved DEF Shape, Types
  <1>9. Data'
    BY <1>2, <1>5, <1>6 DEF Shape, Types, Data
  <1>10. Known'
    BY <1>2, <1>6 DEF Shape, Known
  <1> QED  BY <1>8, <1>9, <1>10 DEF Shape, Types

(* The rest of a call.                                                     *)
LEMMA AnsweredIn ==
    ASSUME Shape, NEW t \in Tasks, NEW W, W \subseteq ApiCalls, Answered(t, W)
    PROVE  /\ ctx[t].at = "ack" /\ ctx[t].call \in ApiCalls /\ ctx[t].call \in W
           /\ ctx[t].id \in Nat /\ ctx[t].id <= Len(procs) /\ ctx[t].timed \in BOOLEAN
           /\ ctx[t].ok \in BOOLEAN
  <1>1. ctx[t] \in Contexts /\ Refers(ctx[t], Len(procs), ll.links)
    BY DEF Shape, Types, Control, Refs
  <1>2. ctx[t].at = "ack" /\ ctx[t].call \in ApiCalls /\ ctx[t].call \in W
    BY DEF Answered
  <1> QED  BY <1>1, <1>2 DEF Contexts, Refers

LEMMA LeaveShape ==
    ASSUME Shape, NEW t \in Tasks,
           MasterStarted(t) \/ AdvStarted(t) \/ ConnCancelled(t) \/ DiscCancelled(t) \/ AdvStopped(t)
    PROVE  Shape'
  <1>1. PICK W : W \subseteq ApiCalls /\ Answered(t, W)
    <2>1. /\ {"connect", "disc"} \subseteq ApiCalls /\ {"adv"} \subseteq ApiCalls
          /\ {"conn_cancel"} \subseteq ApiCalls /\ {"disc_cancel"} \subseteq ApiCalls
          /\ {"adv_stop"} \subseteq ApiCalls
      BY DEF ApiCalls
    <2> QED  BY <2>1, Zenon DEF MasterStarted, AdvStarted, ConnCancelled, DiscCancelled, AdvStopped
  <1>2. /\ Leave(t) /\ UNCHANGED <<conns, ll, events, lost, calls, refused>>
        /\ ctx[t].at = "ack" /\ ctx[t].call \in ApiCalls /\ ctx[t].id \in Nat
        /\ ctx[t].id <= Len(procs) /\ ctx[t].timed \in BOOLEAN
    BY <1>1, AnsweredIn DEF MasterStarted, AdvStarted, ConnCancelled, DiscCancelled, AdvStopped
  <1>3. master \in Masters /\ slave \in Slaves /\ procs \in Seq(Procs) /\ crossed \in BOOLEAN
    BY DEF Shape, Types, Data
  <1>4. procs' \in Seq(Procs) /\ Len(procs') = Len(procs)
    <2>1. procs' = procs \/ \E st \in {"active", "failed", "stopped"} : procs' = Stat(procs, ctx[t].id, st)
      BY DEF MasterStarted, AdvStarted, ConnCancelled, DiscCancelled, AdvStopped
    <2> QED  BY <1>2, <1>3, <2>1, StatType
  <1>5. master' \in Masters /\ master'.cb = master.cb
    <2>1. \/ master' = master \/ master' = MasterReset(master)
          \/ master' = [master EXCEPT !.exp = @ \/ ctx[t].timed]
          \/ master' = [master EXCEPT !.cancel = TRUE]
      BY DEF MasterStarted, AdvStarted, ConnCancelled, DiscCancelled, AdvStopped
    <2>2. [master EXCEPT !.exp = @ \/ ctx[t].timed] \in Masters
      BY <1>2, <1>3 DEF Masters
    <2> QED  BY <1>3, <2>1, <2>2, MasterReseted DEF Masters
  <1>6. slave' \in Slaves /\ slave'.cb = slave.cb
    <2>1. \/ slave' = slave \/ slave' = SlaveReset(slave)
          \/ slave' = [slave EXCEPT !.exp = @ \/ ctx[t].timed]
      BY DEF MasterStarted, AdvStarted, ConnCancelled, DiscCancelled, AdvStopped
    <2>2. [slave EXCEPT !.exp = @ \/ ctx[t].timed] \in Slaves
      BY <1>2, <1>3 DEF Slaves
    <2> QED  BY <1>3, <2>1, <2>2, SlaveReseted DEF Slaves
  <1>7. crossed' \in BOOLEAN
    BY <1>3, Zenon DEF MasterStarted, AdvStarted, ConnCancelled, DiscCancelled, AdvStopped
  <1>8. Grows
    BY <1>2, <1>4, GrowsKept
  <1>9. Control' /\ Placed' /\ Refs'
    BY <1>2, <1>8, LeaveMoved DEF Shape, Types
  <1>10. Data'
    BY <1>2, <1>4, <1>5, <1>6, <1>7 DEF Shape, Types, Data
  <1> QED  BY <1>2, <1>4, <1>5, <1>6, <1>9, <1>10, ShapeKept

LEMMA PreShape ==
    ASSUME Shape, NEW t \in Tasks, PreAdv(t) \/ PreMaster(t)
    PROVE  Shape'
  <1>1. PICK op : GoOn(t, op)
    BY DEF PreAdv, PreMaster
  <1>2. PICK W : W \subseteq ApiCalls /\ Answered(t, W)
    <2>1. {"pre_adv"} \subseteq ApiCalls /\ {"pre_conn", "pre_disc"} \subseteq ApiCalls
      BY DEF ApiCalls
    <2> QED  BY <2>1, Zenon DEF PreAdv, PreMaster
  <1>3. UNCHANGED <<conns, ll, events, lost, procs, calls, refused>> /\ ctx[t].at = "ack" /\ ctx[t].call \in ApiCalls
    BY <1>2, AnsweredIn DEF PreAdv, PreMaster
  <1>4. master \in Masters /\ slave \in Slaves /\ crossed \in BOOLEAN
    BY DEF Shape, Types, Data
  <1>5. master' \in Masters /\ master'.cb = master.cb
    <2>1. CASE PreAdv(t)
      BY <1>4, <2>1 DEF PreAdv
    <2>2. CASE PreMaster(t)
      <3>1. ctx[t].call \in {"pre_conn", "pre_disc"} /\ ctx[t].ok \in BOOLEAN
        BY <1>2, <2>2, AnsweredIn DEF PreMaster, Answered
      <3>2. \/ master' = master \/ master' = [master EXCEPT !.cancel = TRUE, !.pre = "conn"]
            \/ master' = [MasterReset(master) EXCEPT !.pre = "disc"]
        BY <2>2, <3>1 DEF PreMaster
      <3> QED  BY <1>4, <3>2, MasterReseted DEF Masters
    <2> QED  BY <2>1, <2>2
  <1>6. slave' \in Slaves /\ slave'.cb = slave.cb
    <2>1. \/ slave' = slave
          \/ \E b \in BOOLEAN : slave' = [SlaveReset(slave) EXCEPT !.pre = b]
      BY DEF PreAdv, PreMaster
    <2> QED  BY <1>4, <2>1, SlaveReseted DEF Slaves
  <1>7. crossed' \in BOOLEAN
    BY <1>4, Zenon DEF PreAdv, PreMaster
  <1>8. Grows
    BY <1>3, GrowsKept
  <1>9. Control' /\ Placed' /\ Refs'
    BY <1>1, <1>3, <1>8, GoOnMoved DEF Shape, Types
  <1>10. Data'
    BY <1>3, <1>4, <1>5, <1>6, <1>7 DEF Shape, Types, Data
  <1> QED  BY <1>3, <1>5, <1>6, <1>9, <1>10, ShapeKept

LEMMA PreemptDoneShape ==
    ASSUME Shape, NEW t \in Tasks, PreemptDone(t)
    PROVE  Shape'
  <1>1. /\ ctx[t].at = "preempting" /\ lock = NoTask /\ ctx' = [ctx EXCEPT ![t] = Idle]
        /\ UNCHANGED <<conns, lock, hci, ll, events, lost, crossed, calls, refused>>
    BY DEF PreemptDone
  <1>2. master \in Masters /\ slave \in Slaves /\ procs \in Seq(Procs)
    BY DEF Shape, Types, Data
  <1>3. procs' \in Seq(Procs) /\ Len(procs') = Len(procs)
    <2>1. PICK a, b : /\ a = (IF slave.pre THEN slave.cb ELSE None)
                      /\ b = (IF master.pre = "disc" THEN master.cb ELSE None)
      OBVIOUS
    <2>2. a \in Nat /\ b \in Nat /\ a <= Len(procs) /\ b <= Len(procs)
      BY <1>2, <2>1 DEF Shape, Known, Masters, Slaves, None
    <2>3. PICK ps : ps = Deliver(procs, a, "adv")
      OBVIOUS
    <2>4. ps \in Seq(Procs) /\ Len(ps) = Len(procs)
      BY <1>2, <2>2, <2>3, DeliverType DEF Kinds
    <2>5. procs' = Deliver(ps, b, "disc")
      BY <2>1, <2>3 DEF PreemptDone
    <2> QED  BY <2>2, <2>4, <2>5, DeliverType DEF Kinds
  <1>4. master' \in Masters /\ slave' \in Slaves /\ master'.cb = master.cb /\ slave'.cb = slave.cb
    BY <1>2 DEF PreemptDone, Masters, Slaves
  <1>5. Grows
    BY <1>1, <1>3, GrowsKept
  <1>6. Control' /\ Placed' /\ Refs'
    <2>1. lock' # t /\ hci' # t
      BY <1>1, TasksAssumption DEF Shape, Placed, InPlace, Tasks
    <2> QED  BY <1>1, <1>5, <2>1, IdleMoved DEF Shape, Types, Moves
  <1>7. Data'
    BY <1>1, <1>3, <1>4 DEF Shape, Types, Data
  <1> QED  BY <1>1, <1>3, <1>4, <1>6, <1>7, ShapeKept

(* The controller on its own.                                              *)
LEMMA LlShape ==
    ASSUME Shape, LlConnected \/ LlDirTimeout
    PROVE  Shape'
  <1>1. /\ UNCHANGED <<master, slave, conns, lock, hci, ctx, procs, crossed, calls, refused>>
    BY DEF LlConnected, LlDirTimeout
  <1>2. ll \in Controls /\ events \in Seq(Events) /\ lost \in SUBSET Events /\ ll.links \in Nat /\ Len(procs) \in Nat
    BY DEF Shape, Types, Data, Controls
  <1>3. PICK e : /\ e \in [type : {"master", "slave", "dir_timeout"}, link : {ll.links + 1}]
                 /\ Emit(e)
                 /\ IF IsLink(e) THEN ll'.links = ll.links + 1 ELSE ll'.links = ll.links
                 /\ ll' \in Controls
    <2>1. PICK y \in {"master", "slave", "dir_timeout"} :
             /\ Notify(y) /\ ll' \in Controls
             /\ IF y \in {"master", "slave"} THEN ll'.links = ll.links + 1 ELSE ll'.links = ll.links
      <3>1. CASE LlDirTimeout
        <4>1. Notify("dir_timeout") /\ ll' \in Controls /\ ll'.links = ll.links
          BY <1>2, <3>1 DEF LlDirTimeout, Controls
        <4> QED  BY <4>1
      <3>2. ASSUME NEW y \in {"master", "slave"}, Notify(y),
                   \/ ll' = [ll EXCEPT !.init = FALSE, !.links = @ + 1]
                   \/ ll' = [ll EXCEPT !.adv = "off", !.links = @ + 1]
            PROVE  Notify(y) /\ ll' \in Controls /\ ll'.links = ll.links + 1
        <4>1. PICK n \in Nat : n = ll.links + 1
          BY <1>2
        <4>2. /\ [ll EXCEPT !.init = FALSE, !.links = n] \in Controls
              /\ [ll EXCEPT !.init = FALSE, !.links = n].links = n
              /\ [ll EXCEPT !.adv = "off", !.links = n] \in Controls
              /\ [ll EXCEPT !.adv = "off", !.links = n].links = n
          BY <1>2 DEF Controls
        <4>3. \/ ll' = [ll EXCEPT !.init = FALSE, !.links = n]
              \/ ll' = [ll EXCEPT !.adv = "off", !.links = n]
          BY <1>2, <3>2, <4>1 DEF Controls
        <4> QED  BY <3>2, <4>1, <4>2, <4>3
      <3>3. CASE LlConnected
        BY <3>2, <3>3 DEF LlConnected
      <3> QED  BY <3>1, <3>3
    <2> WITNESS [type |-> y, link |-> ll.links + 1]
    <2> QED  BY <2>1 DEF Notify, IsLink
  <1>4. e \in Events /\ e.link = ll.links + 1
    BY <1>2, <1>3 DEF Events
  <1>5. ll'.links \in Nat /\ ll.links <= ll'.links
    BY <1>2, <1>3
  <1>6. Control' /\ Placed' /\ Refs'
    BY <1>1, <1>2, <1>5, Stayed DEF Grows, Shape, Types
  <1>9. /\ events' \in Seq(Events) /\ lost' \in SUBSET Events
        /\ \A n : HasLink(events', n) => HasLink(events, n) \/ (IsLink(e) /\ e.link = n)
        /\ \A n : LostLink(lost', n) => LostLink(lost, n) \/ (IsLink(e) /\ e.link = n)
    BY <1>2, <1>3, <1>4, EmitTypes
  <1>7. Data'
    BY <1>1, <1>2, <1>3, <1>4, <1>9 DEF Shape, Types, Data
  <1>8. Known'
    <2>1. conns \subseteq 1 .. ll.links /\ \A n \in Nat : HasLink(events, n) \/ LostLink(lost, n) => n \in 1 .. ll.links
      BY DEF Shape, Known
    <2>2. \A n \in 1 .. ll.links : n \in 1 .. ll'.links
      BY <1>2, <1>5
    <2>3. \A n \in Nat : HasLink(events', n) \/ LostLink(lost', n) => n \in 1 .. ll'.links
      <3> SUFFICES ASSUME NEW n \in Nat, HasLink(events', n) \/ LostLink(lost', n) PROVE n \in 1 .. ll'.links
        OBVIOUS
      <3>1. HasLink(events, n) \/ LostLink(lost, n) \/ (IsLink(e) /\ e.link = n)
        BY <1>9
      <3>2. CASE HasLink(events, n) \/ LostLink(lost, n)
        BY <2>1, <2>2, <3>2
      <3>3. CASE IsLink(e) /\ e.link = n
        BY <1>2, <1>3, <1>4, <3>3
      <3> QED  BY <3>1, <3>2, <3>3
    <2> QED  BY <1>1, <2>1, <2>2, <2>3 DEF Shape, Known
  <1> QED  BY <1>6, <1>7, <1>8 DEF Shape, Types

(* The host task reads an event.                                           *)
LEMMA RxShape ==
    ASSUME Shape, RxMaster \/ RxSlave \/ RxCancelled \/ RxDirTimeout
    PROVE  Shape'
  <1>1. PICK type : Rx(type)
    BY DEF RxMaster, RxSlave, RxCancelled, RxDirTimeout
  <1>2. ctx[Host].at = "idle" /\ events # <<>> /\ events' = Tail(events)
    BY <1>1 DEF Rx
  <1>3. UNCHANGED <<conns, lock, hci, ll, procs, crossed, calls, refused, lost>>
    BY DEF RxMaster, RxSlave, RxCancelled, RxDirTimeout
  <1>4. master \in Masters /\ slave \in Slaves /\ events \in Seq(Events) /\ procs \in Seq(Procs)
    BY DEF Shape, Types, Data
  <1>5. Head(events) \in Events /\ events' \in Seq(Events)
    BY <1>2, <1>4, QueueTail
  <1>6. master' \in Masters /\ slave' \in Slaves /\ master'.cb = master.cb /\ slave'.cb = slave.cb
    <2>1. master' \in {master, MasterReset(master)} /\ slave' \in {slave, SlaveReset(slave)}
      BY DEF RxMaster, RxSlave, RxCancelled, RxDirTimeout
    <2> QED  BY <1>4, <2>1, MasterReseted, SlaveReseted
  <1>7. Data'
    BY <1>3, <1>5, <1>6 DEF Shape, Types, Data
  <1>8. Known'
    <2>1. \A n \in Nat : HasLink(events', n) => HasLink(events, n)
      BY <1>2, <1>4, LinkTail
    <2> QED  BY <1>3, <1>6, <2>1 DEF Shape, Known
  <1>9. Grows
    BY <1>3, GrowsKept
  <1>10. Control' /\ Placed' /\ Refs'
    <2>1. CASE UNCHANGED ctx
      BY <1>3, <1>9, <2>1, Stayed DEF Shape, Types
    <2>2. ASSUME NEW r \in Contexts, HstOK(r), r.at # "ack", Refers(r, Len(procs'), ll'.links),
                 ctx' = [ctx EXCEPT ![Host] = r]
          PROVE  Control' /\ Placed' /\ Refs'
      BY <1>2, <1>3, <1>9, <2>2, HostMoved DEF Shape, Types
    <2>3. ASSUME NEW kind \in {"conn", "adv"}, NEW cb \in Nat, cb <= Len(procs), GotoInsert(kind, cb),
                 IsLink(Head(events))
          PROVE  Control' /\ Placed' /\ Refs'
      <3> DEFINE r == [Idle EXCEPT !.at = "insert", !.call = kind, !.id = cb, !.link = Head(events).link]
      <3>1. Head(events).link \in Nat
        BY <1>5 DEF Events
      <3>2. /\ r \in Contexts /\ r.at = "insert" /\ r.call = kind /\ r.id = cb
            /\ r.link = Head(events).link
        BY <3>1 DEF Idle, Contexts, None, ApiCalls
      <3>3. ctx' = [ctx EXCEPT ![Host] = r]
        BY <2>3 DEF GotoInsert
      <3>4. Head(events).link \in 1 .. ll.links
        <4>1. HasLink(events, Head(events).link)
          BY <1>2, <1>4, <2>3, LinkTail
        <4> QED  BY <3>1, <4>1 DEF Shape, Known
      <3> HIDE DEF r
      <3>5. HstOK(r) /\ Refers(r, Len(procs'), ll'.links)
        BY <1>3, <2>3, <3>2, <3>4 DEF HstOK, Refers
      <3> QED  BY <2>2, <3>2, <3>3, <3>5
    <2>4. ASSUME NEW at, NEW call, HostGoto(at, call),
                 <<at, call>> \in {<<"extract", "cancelled">>, <<"adv_finished", "none">>}
          PROVE  Control' /\ Placed' /\ Refs'
      <3> DEFINE r == [Idle EXCEPT !.at = at, !.call = call]
      <3>1. r \in Contexts /\ r.at = at /\ r.call = call /\ r.id = 0
        BY <2>4 DEF Idle, Contexts, None, ApiCalls, TimerCalls
      <3>2. ctx' = [ctx EXCEPT ![Host] = r]
        BY <2>4 DEF HostGoto
      <3> HIDE DEF r
      <3>3. HstOK(r) /\ Refers(r, Len(procs'), ll'.links)
        BY <1>9, <2>4, <3>1 DEF HstOK, Refers, Grows
      <3> QED  BY <2>2, <2>4, <3>1, <3>2, <3>3
    <2>5. CASE RxMaster
      <3>1. IsLink(Head(events)) /\ master.cb \in Nat /\ master.cb <= Len(procs)
        BY <1>4, <2>5 DEF RxMaster, Rx, IsLink, Masters, Shape, Known
      <3>2. UNCHANGED ctx \/ GotoInsert("conn", master.cb)
        BY <2>5 DEF RxMaster
      <3> QED  BY <2>1, <2>3, <3>1, <3>2
    <2>6. CASE RxSlave
      <3>1. IsLink(Head(events)) /\ slave.cb \in Nat /\ slave.cb <= Len(procs)
        BY <1>4, <2>6 DEF RxSlave, Rx, IsLink, Slaves, Shape, Known
      <3>2. UNCHANGED ctx \/ GotoInsert("adv", slave.cb)
        BY <2>6 DEF RxSlave
      <3> QED  BY <2>1, <2>3, <3>1, <3>2
    <2>7. CASE RxCancelled
      BY <2>1, <2>4, <2>7 DEF RxCancelled
    <2>8. CASE RxDirTimeout
      BY <2>1, <2>4, <2>8 DEF RxDirTimeout
    <2> QED  BY <2>5, <2>6, <2>7, <2>8
  <1> QED  BY <1>7, <1>8, <1>10 DEF Shape, Types

(* The host task inserts a connection, reports, runs a timer.              *)
LEMMA HostGotoMoved ==
    ASSUME Shape, Grows, NEW at, NEW call, HostGoto(at, call), UNCHANGED lock,
           <<at, call>> \in {<<"idle", "none">>, <<"send", "timer_conn">>, <<"send", "timer_disc">>,
               <<"send", "timer_adv">>, <<"extract", "timer_disc">>, <<"adv_finished", "none">>,
               <<"fault", "none">>},
           ctx[Host].at = "idle" \/ AtWork(ctx[Host]),
           hci' = (IF ctx[Host].at = "ack" THEN NoTask ELSE hci)
    PROVE  Control' /\ Placed' /\ Refs'
  <1> DEFINE r == [Idle EXCEPT !.at = at, !.call = call]
  <1>1. r \in Contexts /\ r.at = at /\ r.call = call /\ r.id = 0
    BY DEF Idle, Contexts, None, ApiCalls, TimerCalls
  <1>2. ctx' = [ctx EXCEPT ![Host] = r]
    BY DEF HostGoto
  <1>3. at = "idle" => r = Idle
    <2>1. PICK x : x = [Idle EXCEPT !.at = at, !.call = call]
      OBVIOUS
    <2>3. x = [at |-> at, call |-> call, id |-> 0, link |-> 0, timed |-> FALSE, ok |-> TRUE]
      BY <2>1 DEF Idle, None
    <2>2. at = "idle" => call = "none"
      OBVIOUS
    <2>4. at = "idle" => x = Idle
      BY <2>2, <2>3 DEF Idle, None
    <2> QED  BY <2>1, <2>4
  <1> HIDE DEF r
  <1>4. HstOK(r) /\ Refers(r, Len(procs'), ll'.links)
    BY <1>1, <1>3 DEF HstOK, Refers, Grows, TimerCalls
  <1> QED  BY <1>1, <1>2, <1>4, HostMoved DEF Shape, Types

LEMMA HostShape ==
    ASSUME Shape, Insert \/ Extract \/ AdvFinished \/ MasterTimer \/ SlaveTimer \/ RxFault
    PROVE  Shape'
  <1>1. /\ UNCHANGED <<lock, hci, ll, events, lost, crossed, calls, refused>>
        /\ ctx[Host].at \in {"idle", "insert", "extract", "adv_finished"}
    BY DEF Insert, Extract, AdvFinished, MasterTimer, SlaveTimer, RxFault
  <1>2. master \in Masters /\ slave \in Slaves /\ procs \in Seq(Procs)
    BY DEF Shape, Types, Data
  <1>3. /\ ctx[Host] \in Contexts /\ Refers(ctx[Host], Len(procs), ll.links)
        /\ InPlace(Host, ctx[Host], lock, hci)
    BY DEF Shape, Types, Control, Refs, Placed, Tasks
  <1>4. master.cb \in Nat /\ slave.cb \in Nat /\ master.cb <= Len(procs) /\ slave.cb <= Len(procs)
    BY <1>2 DEF Shape, Known, Masters, Slaves
  <1>5. procs' \in Seq(Procs) /\ Len(procs') = Len(procs)
    <2>1. CASE Insert
      <3>1. ctx[Host].id \in Nat /\ ctx[Host].id <= Len(procs) /\ ctx[Host].call \in Kinds
        BY <1>3, <2>1 DEF Insert, Contexts, Refers, InPlace, Kinds
      <3> QED  BY <1>2, <2>1, <3>1, DeliverType DEF Insert
    <2>2. CASE Extract
      <3>1. PICK k \in Kinds : procs' = Deliver(procs, master.cb, k)
        BY <2>2 DEF Extract, Kinds
      <3> QED  BY <1>2, <1>4, <3>1, DeliverType
    <2>3. CASE AdvFinished
      BY <1>2, <1>4, <2>3, DeliverType DEF AdvFinished, Kinds
    <2>4. CASE MasterTimer \/ SlaveTimer \/ RxFault
      BY <1>2, <2>4 DEF MasterTimer, SlaveTimer, RxFault
    <2> QED  BY <2>1, <2>2, <2>3, <2>4
  <1>6. master' \in Masters /\ slave' \in Slaves /\ master'.cb = master.cb /\ slave'.cb = slave.cb
    <2>1. /\ master' \in {master, [MasterReset(master) EXCEPT !.pre = "null"]}
          /\ slave' \in {slave, SlaveReset(slave)}
      BY DEF Insert, Extract, AdvFinished, MasterTimer, SlaveTimer, RxFault
    <2>2. [MasterReset(master) EXCEPT !.pre = "null"] \in Masters
          /\ [MasterReset(master) EXCEPT !.pre = "null"].cb = master.cb
      BY <1>2, MasterReseted DEF Masters
    <2> QED  BY <1>2, <2>1, <2>2, SlaveReseted
  <1>7. Grows
    BY <1>1, <1>5, GrowsKept
  <1>8. Data'
    BY <1>1, <1>5, <1>6 DEF Shape, Types, Data
  <1>9. Control' /\ Placed' /\ Refs'
    <2>1. PICK at, call : /\ HostGoto(at, call)
                          /\ <<at, call>> \in {<<"idle", "none">>, <<"send", "timer_conn">>,
                                               <<"send", "timer_disc">>, <<"send", "timer_adv">>,
                                               <<"fault", "none">>}
      <3>1. CASE Insert \/ Extract \/ AdvFinished
        BY <3>1 DEF Insert, Extract, AdvFinished
      <3>2. CASE MasterTimer
        BY <3>2 DEF MasterTimer
      <3>3. CASE SlaveTimer
        BY <3>3 DEF SlaveTimer
      <3>4. CASE RxFault
        BY <3>4 DEF RxFault
      <3> QED  BY <3>1, <3>2, <3>3, <3>4
    <2> QED  BY <1>1, <1>7, <2>1, HostGotoMoved DEF AtWork
  <1>10. Known'
    <2>1. conns' \subseteq 1 .. ll.links
      BY <1>3 DEF Insert, Extract, AdvFinished, MasterTimer, SlaveTimer, RxFault, Shape, Known, Refers
    <2> QED  BY <1>1, <1>5, <1>6, <2>1 DEF Shape, Known
  <1> QED  BY <1>8, <1>9, <1>10 DEF Shape, Types

LEMMA TimerShape ==
    ASSUME Shape, TimerAnswered
    PROVE  Shape'
  <1>1. /\ UNCHANGED <<conns, lock, ll, events, lost, procs, calls, refused>>
        /\ ctx[Host].at = "ack" /\ hci' = NoTask /\ ctx[Host].call \in TimerCalls
    BY DEF TimerAnswered, Answered
  <1>2. master \in Masters /\ slave \in Slaves /\ crossed \in BOOLEAN
    BY DEF Shape, Types, Data
  <1>3. master' \in Masters /\ slave' \in Slaves /\ master'.cb = master.cb /\ slave'.cb = slave.cb
    <2>1. /\ master' \in {master, [master EXCEPT !.exp = FALSE]}
          /\ slave' \in {slave, SlaveReset(slave)}
      BY DEF TimerAnswered
    <2>2. [master EXCEPT !.exp = FALSE] \in Masters /\ [master EXCEPT !.exp = FALSE].cb = master.cb
      BY <1>2 DEF Masters
    <2> QED  BY <1>2, <2>1, <2>2, SlaveReseted
  <1>4. crossed' \in BOOLEAN
    BY <1>2, Zenon DEF TimerAnswered
  <1>5. Grows
    BY <1>1, GrowsKept
  <1>6. Data'
    BY <1>1, <1>3, <1>4 DEF Shape, Types, Data
  <1>7. Control' /\ Placed' /\ Refs'
    <2>1. \/ HostGoto("idle", "none") \/ HostGoto("extract", "timer_disc")
          \/ HostGoto("adv_finished", "none")
      BY DEF TimerAnswered
    <2> QED  BY <1>1, <1>5, <2>1, HostGotoMoved DEF AtWork
  <1> QED  BY <1>1, <1>3, <1>6, <1>7, ShapeKept

(* The types and places, whatever happens.                                 *)
LEMMA ShapeInit ==
    ASSUME Init PROVE Shape
  <1>1. <<>> \in Seq(Events) /\ <<>> \in Seq(Procs)
    OBVIOUS
  <1>2. Data
    BY <1>1 DEF Init, Data, Masters, Slaves, Controls, None
  <1>3. Control /\ \A t \in Tasks : ctx[t] = Idle
    BY IdleType DEF Init, Control
  <1>4. Idle.at = "idle" /\ Idle.call = "none" /\ Idle.id = 0
    BY DEF Idle, None
  <1>5. Placed
    BY <1>3, <1>4, TasksAssumption DEF Init, Placed, InPlace, Tasks, TimerCalls
  <1>6. Refs
    BY <1>3, <1>4 DEF Init, Refs, Refers
  <1>7. Known
    BY DEF Init, Known, HasLink, LostLink, None
  <1> QED  BY <1>2, <1>3, <1>5, <1>6, <1>7 DEF Shape, Types

LEMMA ShapeStep ==
    ASSUME Shape, [Next]_vars
    PROVE  Shape'
  <1>1. CASE UNCHANGED vars
    BY <1>1 DEF vars, Shape, Types, Data, Control, Placed, Refs, Known
  <1>2. ASSUME NEW t \in Tasks, Api(t) PROVE Shape'
    BY <1>2, ConnectShape, CancelShape DEF Api
  <1>3. ASSUME NEW t \in Tasks, Step(t) PROVE Shape'
    BY <1>3, SendShape, LeaveShape, PreShape, PreemptDoneShape DEF Step
  <1>4. CASE HostStep
    BY <1>4, RxShape, HostShape, TimerShape DEF HostStep, HostRx
  <1>5. CASE LlConnected \/ LlDirTimeout
    BY <1>5, LlShape
  <1> QED  BY <1>1, <1>2, <1>3, <1>4, <1>5 DEF Next

-----------------------------------------------------------------------------
(* What holds of the procedures as long as no call met an end on its way.  *)

LEMMA AskedFields ==
    ASSUME NEW call, NEW id, NEW timed
    PROVE  /\ Asked(call, id, timed).at = "send" /\ Asked(call, id, timed).call = call
           /\ Asked(call, id, timed).id = id /\ Asked(call, id, timed).timed = timed
  BY DEF Asked

LEMMA IdleFields == Idle.at = "idle" /\ Idle.call = "none"
  BY DEF Idle

(* A call that begins: nothing but what it works on changes.               *)
LEMMA ConnectCalm ==
    ASSUME Shape, Calm, NEW t \in Tasks, NEW timed \in BOOLEAN, Connect(t, timed)
    PROVE  Calm'
  <1>1. PICK n : n = NewId
    OBVIOUS
  <1>2. /\ Cur = Idle /\ Cur' = Asked("connect", n, timed) /\ Hst' = Hst
    BY <1>1, CallView DEF Connect, MayCall, Shape, Types
  <1>3. /\ Cur.at = "idle" /\ Cur.call = "none" /\ Cur'.at = "send" /\ Cur'.call = "connect"
        /\ Cur'.id = n /\ Cur'.timed = timed
    BY <1>2, AskedFields, IdleFields
  <1>4. master \in Masters /\ procs \in Seq(Procs)
    BY DEF Shape, Types, Data
  <1>5. /\ master.op = "null" /\ master.pre = "null" /\ ~slave.pre
        /\ UNCHANGED <<slave, conns, ll, events, lost>>
    BY DEF Connect, IsPreempted
  <1>6. ~master.exp
    BY <1>5 DEF Calm, Timers
  <1>7. master'.op = "conn" /\ master'.cb = n /\ ~master'.exp /\ master'.pre = "null"
    BY <1>1, <1>4, <1>5, <1>6 DEF Connect, Masters
  <1>8. procs' = Append(procs, Begun("conn", timed)) /\ "conn" \in Kinds
    BY DEF Connect, Begin, Begun, Kinds
  <1>9. /\ \A i \in DOMAIN procs : i \in DOMAIN procs' /\ i # n /\ procs'[i] = procs[i]
        /\ Told(procs) => Told(procs')
        /\ \A i : Waiting(procs', i) => Waiting(procs, i) \/ i = n
        /\ \A i, l : Live(procs, i, l) => Live(procs', i, l) /\ i # n
        /\ Fresh(procs', n, "conn", timed)
    <2>1. n = Len(procs) + 1
      BY <1>1 DEF NewId
    <2>2. Grown(procs, procs', n, "conn", timed)
      BY <1>4, <1>8, <2>1, Added
    <2> QED  BY <2>2 DEF Grown
  <1>10. Working'
    BY <1>2, <1>3, <1>5, <1>7, <1>9 DEF Working, Calm, Owned
  <1>11. Owned'
    BY <1>2, <1>5, <1>7, <1>9 DEF Owned, Calm, Fresh
  <1>12. Connecting'
    BY <1>2, <1>3, <1>5, <1>7 DEF Connecting, Calm, Owned, Unsent, Done, Cancelling
  <1>13. Discovering'
    BY <1>2, <1>3, <1>5, <1>7 DEF Discovering, Calm, Owned, Unsent, Done, TimerDone
  <1>14. Advertising'
    BY <1>2, <1>3, <1>5 DEF Advertising, Calm, Unsent, Done, TimerDone
  <1>15. Linked' /\ Timers'
    BY <1>2, <1>5, <1>7, <1>9 DEF Linked, Timers, Calm, Owned, Live
  <1>16. Reported'
    <2> SUFFICES ASSUME NEW i \in DOMAIN procs', Waiting(procs', i) PROVE Held(i)'
      BY <1>9 DEF Reported, Calm
    <2>1. CASE i = n
      BY <1>7, <1>9, <2>1 DEF Held, InProgress, Fresh, Live
    <2>2. CASE i # n
      <3>1. Waiting(procs, i) /\ i \in DOMAIN procs /\ procs[i].kind \in Kinds
        <4>1. Waiting(procs, i) /\ i \in DOMAIN procs
          BY <1>9, <2>2 DEF Waiting
        <4>2. procs[i] \in Procs
          BY <1>4, <4>1
        <4> QED  BY <4>1, <4>2 DEF Procs
      <3>2. Held(i)
        BY <3>1 DEF Calm, Reported
      <3> QED  BY <1>2, <1>5, <1>9, <3>1, <3>2 DEF Held, InProgress, Kinds
    <2> QED  BY <2>1, <2>2
  <1> QED  BY <1>10, <1>11, <1>12, <1>13, <1>14, <1>15, <1>16 DEF Calm

LEMMA DiscCalm ==
    ASSUME Shape, Calm, NEW t \in Tasks, NEW timed \in BOOLEAN, Disc(t, timed)
    PROVE  Calm'
  <1>1. PICK n : n = NewId
    OBVIOUS
  <1>2. /\ Cur = Idle /\ Cur' = Asked("disc", n, timed) /\ Hst' = Hst
    BY <1>1, CallView DEF Disc, MayCall, Shape, Types
  <1>3. /\ Cur.at = "idle" /\ Cur.call = "none" /\ Cur'.at = "send" /\ Cur'.call = "disc"
        /\ Cur'.id = n /\ Cur'.timed = timed
    BY <1>2, AskedFields, IdleFields
  <1>4. master \in Masters /\ procs \in Seq(Procs)
    BY DEF Shape, Types, Data
  <1>5. /\ master.op = "null" /\ master.pre = "null" /\ ~slave.pre
        /\ UNCHANGED <<slave, conns, ll, events, lost>>
    BY DEF Disc, IsPreempted
  <1>6. ~master.exp
    BY <1>5 DEF Calm, Timers
  <1>7. master'.op = "disc" /\ master'.cb = n /\ ~master'.exp /\ master'.pre = "null"
    BY <1>1, <1>4, <1>5, <1>6 DEF Disc, Masters
  <1>8. procs' = Append(procs, Begun("disc", timed)) /\ "disc" \in Kinds
    BY DEF Disc, Begin, Begun, Kinds
  <1>9. Grown(procs, procs', n, "disc", timed)
    <2>1. n = Len(procs) + 1
      BY <1>1 DEF NewId
    <2> QED  BY <1>4, <1>8, <2>1, Added
  <1>10. Working'
    BY <1>2, <1>3, <1>5, <1>7, <1>9 DEF Working, Calm, Owned, Grown
  <1>11. Owned'
    BY <1>2, <1>5, <1>7, <1>9 DEF Owned, Calm, Fresh, Grown
  <1>12. Connecting'
    BY <1>2, <1>3, <1>5, <1>7 DEF Connecting, Calm, Owned, Unsent, Done, Cancelling
  <1>13. Discovering'
    BY <1>2, <1>3, <1>5, <1>7 DEF Discovering, Calm, Owned, Unsent, Done, TimerDone
  <1>14. Advertising'
    BY <1>2, <1>3, <1>5 DEF Advertising, Calm, Unsent, Done, TimerDone
  <1>15. Linked' /\ Timers'
    BY <1>2, <1>5, <1>7, <1>9 DEF Linked, Timers, Calm, Owned, Live, Grown
  <1>16. Reported'
    <2> SUFFICES ASSUME NEW i \in DOMAIN procs', Waiting(procs', i) PROVE Held(i)'
      BY <1>9 DEF Reported, Calm, Grown
    <2>1. CASE i = n
      BY <1>7, <1>9, <2>1 DEF Held, InProgress, Fresh, Live, Grown
    <2>2. CASE i # n
      <3>1. Waiting(procs, i) /\ i \in DOMAIN procs /\ procs[i].kind \in Kinds
        <4>1. Waiting(procs, i) /\ i \in DOMAIN procs
          BY <1>9, <2>2 DEF Waiting, Grown
        <4>2. procs[i] \in Procs
          BY <1>4, <4>1
        <4> QED  BY <4>1, <4>2 DEF Procs
      <3>2. Held(i)
        BY <3>1 DEF Calm, Reported
      <3> QED  BY <1>2, <1>5, <1>9, <3>1, <3>2 DEF Held, InProgress, Kinds, Grown
    <2> QED  BY <2>1, <2>2
  <1> QED  BY <1>10, <1>11, <1>12, <1>13, <1>14, <1>15, <1>16 DEF Calm

LEMMA AdvStartCalm ==
    ASSUME Shape, Calm, NEW t \in Tasks, NEW timed \in BOOLEAN, NEW connectable \in BOOLEAN,
           AdvStart(t, timed, connectable), ~crossed'
    PROVE  Calm'
  <1>1. PICK n : n = NewId
    OBVIOUS
  <1>2. /\ Cur = Idle /\ Cur' = Asked("adv", n, timed) /\ Hst' = Hst
    BY <1>1, CallView DEF AdvStart, MayCall, Shape, Types
  <1>3. /\ Cur.at = "idle" /\ Cur.call = "none" /\ Cur'.at = "send" /\ Cur'.call = "adv"
        /\ Cur'.id = n /\ Cur'.timed = timed
    BY <1>2, AskedFields, IdleFields
  <1>4. slave \in Slaves /\ procs \in Seq(Procs) /\ ll \in Controls
    BY DEF Shape, Types, Data
  <1>5. /\ ~slave.op /\ master.pre = "null" /\ ~slave.pre
        /\ UNCHANGED <<master, conns, ll, events, lost>>
    BY DEF AdvStart, IsPreempted
  <1>6. Hst.at # "adv_finished"
    BY IdleFields DEF AdvStart, AdvEnding, Hst
  <1>7. ~slave.exp
    BY <1>5 DEF Calm, Timers
  <1>8. slave'.op /\ slave'.cb = n /\ ~slave'.exp /\ ~slave'.pre
    BY <1>1, <1>4, <1>5, <1>7 DEF AdvStart, Slaves
  <1>9. procs' = Append(procs, Begun("adv", timed)) /\ "adv" \in Kinds
    BY DEF AdvStart, Begin, Begun, Kinds
  <1>10. Grown(procs, procs', n, "adv", timed)
    <2>1. n = Len(procs) + 1
      BY <1>1 DEF NewId
    <2> QED  BY <1>4, <1>9, <2>1, Added
  <1>11. Working'
    BY <1>2, <1>3, <1>5, <1>8, <1>10 DEF Working, Calm, Owned, Grown
  <1>12. Owned'
    BY <1>2, <1>5, <1>8, <1>10 DEF Owned, Calm, Fresh, Grown
  <1>13. Connecting'
    BY <1>2, <1>3, <1>5 DEF Connecting, Calm, Unsent, Done, Cancelling
  <1>14. Discovering'
    BY <1>2, <1>3, <1>5 DEF Discovering, Calm, Unsent, Done, TimerDone
  <1>15. Advertising'
    BY <1>2, <1>3, <1>4, <1>5, <1>6, <1>8
       DEF Advertising, Calm, Owned, Unsent, Done, TimerDone, Controls
  <1>16. Linked' /\ Timers'
    BY <1>2, <1>5, <1>8, <1>10 DEF Linked, Timers, Calm, Owned, Live, Grown
  <1>17. Reported'
    <2> SUFFICES ASSUME NEW i \in DOMAIN procs', Waiting(procs', i) PROVE Held(i)'
      BY <1>10 DEF Reported, Calm, Grown
    <2>1. CASE i = n
      BY <1>8, <1>10, <2>1 DEF Held, InProgress
    <2>2. CASE i # n
      <3>1. Waiting(procs, i) /\ i \in DOMAIN procs
        BY <1>10, <2>2 DEF Waiting, Grown
      <3>2. Held(i)
        BY <3>1 DEF Calm, Reported
      <3> QED  BY <1>2, <1>5, <1>6, <1>10, <3>1, <3>2 DEF Held, InProgress, Grown
    <2> QED  BY <2>1, <2>2
  <1> QED  BY <1>11, <1>12, <1>13, <1>14, <1>15, <1>16, <1>17 DEF Calm

(* Nothing but the call under way changes.                                 *)
LEMMA Frame ==
    ASSUME Calm, UNCHANGED <<master, slave, procs, conns, ll, events, lost>>, Hst' = Hst
    PROVE  Owned' /\ Reported' /\ Linked' /\ Timers'
  BY DEF Calm, Owned, Reported, Held, InProgress, Linked, Timers

LEMMA LiveIsSome ==
    ASSUME NEW ps \in Seq(Procs), NEW i, NEW k, Live(ps, i, k)
    PROVE  i # 0 /\ i \in DOMAIN ps
  BY DEF Live

LEMMA CancelCalm ==
    ASSUME Shape, Calm, NEW t \in Tasks, Cancel(t) \/ AdvStop(t) \/ Preempt(t)
    PROVE  Calm'
  <1>1. /\ ctx[t].at = "idle" /\ lock = NoTask /\ Control /\ Placed
        /\ UNCHANGED <<master, slave, procs, conns, ll, events, lost>>
    BY DEF Cancel, AdvStop, Preempt, MayCall, Shape, Types
  <1>2. master \in Masters /\ slave \in Slaves /\ procs \in Seq(Procs)
    BY DEF Shape, Types, Data
  <1>3. slave.op => slave.cb # 0 /\ ~slave.pre
    BY <1>2, LiveIsSome DEF Calm, Owned
  <1>4. ASSUME NEW call \in {"conn_cancel", "disc_cancel", "adv_stop", "pre_adv"}, NEW id,
               Call(t, call, id, FALSE),
               call = "disc_cancel" => id = master.cb /\ master.op = "disc",
               call = "adv_stop" => id = slave.cb /\ slave.op,
               call = "pre_adv" => id = (IF slave.op THEN slave.cb ELSE None) /\ ~IsPreempted
        PROVE  Calm'
    <2>9. PICK f : f = FALSE
      OBVIOUS
    <2>10. Call(t, call, id, f)
      BY <1>4, <2>9
    <2>1. Cur = Idle /\ Cur' = Asked(call, id, f) /\ Hst' = Hst
      BY <1>1, <2>10, CallView
    <2>2. /\ Cur.at = "idle" /\ Cur.call = "none" /\ Cur'.at = "send" /\ Cur'.call = call
          /\ Cur'.id = id
      BY <2>1, AskedFields, IdleFields
    <2>3. Owned' /\ Reported' /\ Linked' /\ Timers'
      BY <1>1, <2>1, Frame
    <2>4. Working'
      BY <1>1, <1>3, <1>4, <2>1, <2>2 DEF Working, IsPreempted, None
    <2>5. Connecting'
      BY <1>1, <1>4, <2>1, <2>2 DEF Connecting, Calm, Unsent, Done, Cancelling
    <2>6. Discovering'
      BY <1>1, <1>4, <2>1, <2>2 DEF Discovering, Calm, Unsent, Done, TimerDone
    <2>7. Advertising'
      BY <1>1, <1>4, <2>1, <2>2 DEF Advertising, Calm, Unsent, Done, TimerDone
    <2> QED  BY <2>3, <2>4, <2>5, <2>6, <2>7 DEF Calm
  <1>5. CASE Cancel(t)
    <2>1. CASE master.op = "conn"
      BY <1>4, <1>5, <2>1 DEF Cancel
    <2>2. CASE master.op # "conn"
      <3>1. master.op = "disc" /\ Call(t, "disc_cancel", master.cb, FALSE)
        BY <1>2, <1>5, <2>2 DEF Cancel, Masters
      <3> QED  BY <1>4, <3>1
    <2> QED  BY <2>1, <2>2
  <1>6. CASE AdvStop(t)
    BY <1>4, <1>6 DEF AdvStop
  <1>7. CASE Preempt(t) /\ ~IsPreempted
    <2>1. PICK id : id = (IF slave.op THEN slave.cb ELSE None)
      OBVIOUS
    <2>2. Call(t, "pre_adv", id, FALSE)
      BY <1>7, <2>1 DEF Preempt
    <2> QED  BY <1>4, <1>7, <2>1, <2>2
  <1>8. CASE Preempt(t) /\ IsPreempted
    <2>1. ctx' = [ctx EXCEPT ![t].at = "preempting"] /\ UNCHANGED lock
      BY <1>8 DEF Preempt
    <2>2. PICK r : r = [ctx[t] EXCEPT !.at = "preempting"]
      OBVIOUS
    <2>3. ctx[t] \in Contexts
      BY <1>1 DEF Control
    <2>4. r.at = "preempting" /\ ctx' = [ctx EXCEPT ![t] = r]
      BY <1>1, <2>1, <2>2, <2>3 DEF Control, Contexts
    <2>5. Cur = Idle /\ Cur' = Idle /\ Hst' = Hst
      <3>1. ctx[t].at \in {"idle", "preempting"} /\ (r = Idle \/ r.at = "preempting")
        BY <1>1, <2>4
      <3>2. UNCHANGED lock /\ Put(t, r)
        BY <2>1, <2>4 DEF Put
      <3> QED  BY <1>1, <3>1, <3>2, PreemptView
    <2>6. Owned' /\ Reported' /\ Linked' /\ Timers'
      BY <1>1, <2>5, Frame
    <2>7. Working'
      BY <2>5, IdleFields DEF Working
    <2>8. Connecting'
      BY <1>1, <2>5 DEF Connecting, Calm, Unsent, Done, Cancelling
    <2>9. Discovering'
      BY <1>1, <2>5 DEF Discovering, Calm, Unsent, Done, TimerDone
    <2>10. Advertising'
      BY <1>1, <2>5 DEF Advertising, Calm, Unsent, Done, TimerDone
    <2> QED  BY <2>6, <2>7, <2>8, <2>9, <2>10 DEF Calm
  <1> QED  BY <1>5, <1>6, <1>7, <1>8

(* The commands.                                                           *)
CancelCalls == {"conn_cancel", "pre_conn", "timer_conn"}
DiscCalls   == {"disc_cancel", "pre_disc", "timer_disc"}
StopCalls   == {"adv_stop", "pre_adv", "timer_adv"}

LEMMA ExecutedFx ==
    ASSUME Shape, NEW call \in ApiCalls \cup TimerCalls, Executed(call)
    PROVE  /\ ll'.init <=> (call = "connect" \/ (call \notin CancelCalls /\ ll.init))
           /\ ll'.scan <=> (call = "disc" \/ (call \notin DiscCalls /\ ll.scan))
           /\ call \in StopCalls => ll'.adv = "off"
           /\ call = "adv" => ll'.adv = IF slave.connectable THEN "conn" ELSE "non"
           /\ call \notin StopCalls \cup {"adv"} => ll'.adv = ll.adv
           /\ ll'.links = ll.links
           /\ \A n \in Nat : HasLink(events', n) <=> HasLink(events, n)
           /\ \A n \in Nat : LostLink(lost', n) <=> LostLink(lost, n)
           /\ \A T : Has(events, T) => Has(events', T)
           /\ \A T : Has(events', T) => Has(events, T) \/ (call \in CancelCalls /\ "cancelled" \in T)
           /\ \A T : Gone(lost, T) => Gone(lost', T)
           /\ \A T : call \in CancelCalls /\ "cancelled" \in T => Has(events', T) \/ Gone(lost', T)
           /\ \A T : Once(events, T) /\ ~(Has(events, T) /\ call \in CancelCalls) => Once(events', T)
           /\ Once(events, AdvEnds) => Once(events', AdvEnds)
  <1>1. ll \in Controls /\ events \in Seq(Events) /\ lost \in SUBSET Events
    BY DEF Shape, Types, Data
  <1>2. ll'.init <=> (call = "connect" \/ (call \notin CancelCalls /\ ll.init))
    BY <1>1 DEF Executed, Controls, ApiCalls, TimerCalls, CancelCalls
  <1>3. ll'.scan <=> (call = "disc" \/ (call \notin DiscCalls /\ ll.scan))
    BY <1>1 DEF Executed, Controls, ApiCalls, TimerCalls, DiscCalls
  <1>4. /\ call \in StopCalls => ll'.adv = "off"
        /\ call = "adv" => ll'.adv = IF slave.connectable THEN "conn" ELSE "non"
        /\ call \notin StopCalls \cup {"adv"} => ll'.adv = ll.adv
    BY <1>1 DEF Executed, Controls, ApiCalls, TimerCalls, StopCalls
  <1>5. /\ \A T : Has(events, T) => Has(events', T)
        /\ \A T : Has(events', T) => Has(events, T) \/ (call \in CancelCalls /\ "cancelled" \in T)
        /\ \A T : Gone(lost, T) => Gone(lost', T)
        /\ \A T : call \in CancelCalls /\ "cancelled" \in T => Has(events', T) \/ Gone(lost', T)
        /\ \A T : Once(events, T) /\ ~(Has(events, T) /\ call \in CancelCalls) => Once(events', T)
        /\ Once(events, AdvEnds) => Once(events', AdvEnds)
    <2>1. CASE call \in CancelCalls
      <3> DEFINE e == [type |-> "cancelled", link |-> None]
      <3>1. e \in Events /\ e.type = "cancelled" /\ e.type \notin AdvEnds
        BY DEF Events, None, AdvEnds
      <3>2. Emit(e)
        BY <2>1 DEF Executed, CancelCalls
      <3> HIDE DEF e
      <3> QED  BY <1>1, <2>1, <3>1, <3>2, EmitFx
    <2>2. CASE call \notin CancelCalls
      <3>1. events' = events /\ lost' = lost
        BY <2>2 DEF Executed, CancelCalls
      <3> QED  BY <2>2, <3>1
    <2> QED  BY <2>1, <2>2
  <1> QED  BY <1>2, <1>3, <1>4, <1>5, ExecutedTypes

LEMMA AnswerFields ==
    ASSUME NEW r \in Contexts, NEW ok \in BOOLEAN
    PROVE  /\ Answer(r, ok).at = "ack" /\ Answer(r, ok).ok = ok /\ Answer(r, ok).call = r.call
           /\ Answer(r, ok).id = r.id /\ Answer(r, ok).timed = r.timed
  BY DEF Answer, Contexts

(* What a call works on does not change, nor do the links.                 *)
LEMMA WorkFrame ==
    ASSUME Calm, UNCHANGED <<master, slave, procs, conns>>, ll'.links = ll.links,
           \A n \in Nat : HasLink(events', n) <=> HasLink(events, n), ll.links \in Nat,
           \A n \in Nat : LostLink(lost', n) <=> LostLink(lost, n),
           Cur'.call = Cur.call, Cur'.id = Cur.id, Cur'.timed = Cur.timed,
           Hst'.call = Hst.call, Hst'.id = Hst.id, Hst'.link = Hst.link,
           Hst'.at = Hst.at \/ {Hst.at, Hst'.at} \subseteq {"send", "ack"}
    PROVE  Working' /\ Owned' /\ Reported' /\ Linked' /\ Timers'
  <1>1. \A a \in {"insert", "adv_finished", "extract"} : Hst'.at = a <=> Hst.at = a
    OBVIOUS
  <1>2. Working'
    BY <1>1 DEF Calm, Working, IsPreempted
  <1>3. Owned'
    BY <1>1 DEF Calm, Owned
  <1>4. Reported'
    BY <1>1 DEF Calm, Reported, Held, InProgress
  <1>5. Linked' /\ Timers'
    BY <1>1 DEF Calm, Linked, Timers
  <1> QED  BY <1>2, <1>3, <1>4, <1>5

LEMMA ConnEndsHas ==
    ASSUME NEW q
    PROVE  Has(q, {"master"}) => Has(q, ConnEnds)
  BY DEF Has, ConnEnds

LEMMA SendCalm ==
    ASSUME Shape, Calm, NEW t \in Tasks, Send(t)
    PROVE  Calm'
  <1>1. /\ ctx[t].at = "send" /\ Control /\ Placed /\ UNCHANGED <<master, slave, conns, lock, procs>>
    BY DEF Send, Shape, Types
  <1>2. /\ ctx[t] \in Contexts /\ ctx[t].call \in ApiCalls \cup TimerCalls
        /\ ll.links \in Nat /\ ll \in Controls
    BY <1>1 DEF Control, Placed, InPlace, Shape, Types, Data, Controls
  <1>3. PICK ok \in BOOLEAN : /\ ctx' = [ctx EXCEPT ![t].at = "ack", ![t].ok = ok]
                              /\ IF ok THEN Accepts(ctx[t].call) /\ Executed(ctx[t].call)
                                 ELSE UNCHANGED <<ll, events, lost>>
    BY DEF Send
  <1>4. /\ ll'.links = ll.links /\ \A n \in Nat : HasLink(events', n) <=> HasLink(events, n)
        /\ \A n \in Nat : LostLink(lost', n) <=> LostLink(lost, n)
    BY <1>2, <1>3, ExecutedFx
  <1>5. CurOK(Cur) /\ HstOK(Hst)
    BY <1>1, ViewTypes
  <1>6. ok => (ctx[t].call \in CancelCalls => ll.init)
    BY <1>3 DEF Accepts, CancelCalls
  <1>7. CASE /\ Cur = ctx[t] /\ Cur' = Answer(Cur, ok) /\ Hst' = Hst /\ Cur.call \in ApiCalls
    <2>1. /\ Cur'.at = "ack" /\ Cur'.ok = ok /\ Cur'.call = Cur.call /\ Cur'.id = Cur.id
          /\ Cur'.timed = Cur.timed /\ Cur.at = "send" /\ Hst' = Hst
      BY <1>1, <1>2, <1>7, AnswerFields
    <2>2. Working' /\ Owned' /\ Reported' /\ Linked' /\ Timers'
      BY <1>1, <1>2, <1>4, <2>1, WorkFrame
    <2>3. CASE ~ok
      <3>1. Connecting' /\ Discovering' /\ Advertising'
        BY <1>1, <1>3, <2>1, <2>3
           DEF Calm, Connecting, Discovering, Advertising, Unsent, Done, TimerDone, Cancelling
      <3> QED  BY <2>2, <3>1 DEF Calm
    <2>4. CASE ok
      <3>1. Executed(Cur.call) /\ Cur.call \in ApiCalls \cup TimerCalls
        BY <1>2, <1>3, <1>7, <2>4
      <3>2. Cur.call \in CancelCalls => ll.init
        BY <1>6, <1>7, <2>4
      <3>12. PICK c : c = Cur.call
        OBVIOUS
      <3>6. /\ ll'.init <=> (c = "connect" \/ (c \notin CancelCalls /\ ll.init))
            /\ ll'.scan <=> (c = "disc" \/ (c \notin DiscCalls /\ ll.scan))
            /\ c \in StopCalls => ll'.adv = "off"
            /\ c = "adv" => ll'.adv = IF slave.connectable THEN "conn" ELSE "non"
            /\ c \notin StopCalls \cup {"adv"} => ll'.adv = ll.adv
        BY <3>1, <3>12, ExecutedFx
      <3>7. /\ \A T : Has(events, T) => Has(events', T)
            /\ \A T : Has(events', T) => Has(events, T) \/ (c \in CancelCalls /\ "cancelled" \in T)
            /\ \A T : Gone(lost, T) => Gone(lost', T)
            /\ \A T : c \in CancelCalls /\ "cancelled" \in T => Has(events', T) \/ Gone(lost', T)
        BY <3>1, <3>12, ExecutedFx
      <3>8. /\ \A T : Once(events, T) /\ ~(Has(events, T) /\ c \in CancelCalls) => Once(events', T)
            /\ Once(events, AdvEnds) => Once(events', AdvEnds)
        BY <3>1, <3>12, ExecutedFx
      <3>9. Cur.call = c /\ Cur'.call = c /\ c \notin {"timer_conn", "timer_disc", "timer_adv"}
        BY <1>7, <2>1, <3>12 DEF ApiCalls
      <3>10. Cur'.at = "ack" /\ Cur'.ok /\ Cur.at = "send" /\ Hst' = Hst
        BY <2>1, <2>4
      <3>11. c \in CancelCalls => ll.init
        BY <3>2, <3>9
      <3>3. Connecting'
        <4>1. /\ Has(events, ConnEnds) => Has(events', ConnEnds)
              /\ Has(events', ConnEnds) => Has(events, ConnEnds) \/ c \in CancelCalls
              /\ c \in CancelCalls => Has(events', ConnEnds) \/ Gone(lost', ConnEnds)
              /\ Gone(lost, ConnEnds) => Gone(lost', ConnEnds)
              /\ Has(events', {"master"}) => Has(events, {"master"})
          BY <3>7 DEF ConnEnds
        <4> QED  BY <1>1, <3>6, <3>8, <3>9, <3>10, <3>11, <4>1, ConnEndsHas
                 DEF Calm, Working, Connecting, Unsent, Done, Cancelling, CancelCalls
      <3>4. Discovering'
        BY <1>1, <3>6, <3>9, <3>10
           DEF Calm, Working, Discovering, Unsent, Done, TimerDone, DiscCalls
      <3>5. Advertising'
        <4>1. /\ Has(events', AdvEnds) <=> Has(events, AdvEnds)
              /\ Gone(lost, AdvEnds) => Gone(lost', AdvEnds)
          BY <3>7 DEF AdvEnds
        <4> QED  BY <1>1, <1>2, <3>6, <3>8, <3>9, <3>10, <4>1
                 DEF Calm, Working, Advertising, Unsent, Done, TimerDone, StopCalls, Controls
      <3> QED  BY <2>2, <3>3, <3>4, <3>5 DEF Calm
    <2> QED  BY <2>3, <2>4
  <1>8. CASE /\ Hst = ctx[t] /\ Hst' = Answer(Hst, ok) /\ Cur' = Cur /\ Hst.call \in TimerCalls
    <2>1. /\ Hst'.at = "ack" /\ Hst'.ok = ok /\ Hst'.call = Hst.call /\ Hst'.id = Hst.id
          /\ Hst'.link = Hst.link /\ Hst.at = "send" /\ Cur' = Cur
      BY <1>1, <1>2, <1>8, AnswerFields DEF Answer, Contexts
    <2>2. Working' /\ Owned' /\ Reported' /\ Linked' /\ Timers'
      BY <1>1, <1>2, <1>4, <2>1, WorkFrame
    <2>3. CASE ~ok
      <3>1. Connecting' /\ Discovering' /\ Advertising'
        BY <1>1, <1>3, <2>1, <2>3
           DEF Calm, Connecting, Discovering, Advertising, Unsent, Done, TimerDone, Cancelling
      <3> QED  BY <2>2, <3>1 DEF Calm
    <2>4. CASE ok
      <3>1. Executed(Hst.call) /\ Hst.call \in ApiCalls \cup TimerCalls
        BY <1>2, <1>3, <1>8, <2>4
      <3>2. Hst.call \in CancelCalls => ll.init
        BY <1>6, <1>8, <2>4
      <3>3. Connecting'
        BY <1>1, <1>8, <2>1, <2>4, <3>1, <3>2, ExecutedFx, ConnEndsHas
           DEF Calm, Connecting, Unsent, Done, Cancelling, CancelCalls, ConnEnds, TimerCalls
      <3>4. Discovering'
        BY <1>1, <1>8, <2>1, <2>4, <3>1, ExecutedFx
           DEF Calm, Working, Discovering, Unsent, Done, TimerDone, DiscCalls, TimerCalls
      <3>5. Advertising'
        BY <1>1, <1>2, <1>5, <1>8, <2>1, <2>4, <3>1, ExecutedFx
           DEF Calm, Working, Advertising, Unsent, Done, TimerDone, StopCalls, CancelCalls, AdvEnds,
               Controls, TimerCalls
      <3> QED  BY <2>2, <3>3, <3>4, <3>5 DEF Calm
    <2> QED  BY <2>3, <2>4
  <1> QED  BY <1>1, <1>3, <1>7, <1>8, SendView

(* The rest of a call.                                                     *)
LEMMA AnswerView ==
    ASSUME Shape, NEW t \in Tasks, NEW W, W \subseteq ApiCalls, Answered(t, W), Leave(t)
    PROVE  /\ Cur = ctx[t] /\ Hst' = Hst /\ Cur.at = "ack" /\ Cur.call \in W
           /\ Cur'.at = "idle" /\ Cur'.call = "none" /\ Cur.ok \in BOOLEAN /\ Cur.timed \in BOOLEAN
  <1>1. /\ ctx[t].at = "ack" /\ ctx[t].call \in ApiCalls /\ ctx[t].call \in W
        /\ ctx[t].ok \in BOOLEAN /\ ctx[t].timed \in BOOLEAN
    BY AnsweredIn
  <1>2. Control /\ Placed
    BY DEF Shape, Types
  <1>3. Cur = ctx[t] /\ Cur' = Idle /\ Hst' = Hst
    BY <1>1, <1>2, LeaveView
  <1> QED  BY <1>1, <1>3, IdleFields

(* The procedures, after one of them changed its state.                    *)
Altered(ps, qs, j, ends) ==
    /\ Same(ps, qs)
    /\ Told(ps) => Told(qs)
    /\ \A i : Waiting(qs, i) => Waiting(ps, i) /\ (i = j => ~ends)
    /\ \A i, l : Live(ps, i, l) /\ (i = j => ~ends) => Live(qs, i, l)

LEMMA StatedAltered ==
    ASSUME NEW ps \in Seq(Procs), NEW j, NEW k, Live(ps, j, k),
           NEW st \in {"active", "failed", "stopped"}
    PROVE  Altered(ps, Stat(ps, j, st), j, st # "active")
  <1>1. j \in DOMAIN ps
    BY DEF Live
  <1> QED  BY <1>1, Stated DEF Altered

LEMMA DeliveredAltered ==
    ASSUME NEW ps \in Seq(Procs), NEW j, NEW k \in Kinds, Live(ps, j, k)
    PROVE  Altered(ps, Deliver(ps, j, k), j, TRUE)
  <1>1. j \in DOMAIN ps
    BY DEF Live
  <1> QED  BY <1>1, Delivered DEF Altered

(* Once the call is over, what it worked on is not said any more.          *)
LEMMA WorkOver ==
    ASSUME Cur'.call = "none" PROVE Working'
  BY DEF Working

LEMMA MasterStartedCalm ==
    ASSUME Shape, Calm, NEW t \in Tasks, MasterStarted(t), ~crossed'
    PROVE  Calm'
  <1>1. /\ Cur = ctx[t] /\ Hst' = Hst /\ Cur.at = "ack" /\ Cur.call \in {"connect", "disc"}
        /\ Cur'.at = "idle" /\ Cur'.call = "none" /\ Cur.ok \in BOOLEAN /\ Cur.timed \in BOOLEAN
    <2>1. {"connect", "disc"} \subseteq ApiCalls
      BY DEF ApiCalls
    <2> QED  BY <2>1, AnswerView DEF MasterStarted
  <1>2. master \in Masters /\ procs \in Seq(Procs)
    BY DEF Shape, Types, Data
  <1>3. UNCHANGED <<slave, conns, ll, events, lost>>
    BY DEF MasterStarted
  <1>4. PICK k : k = IF Cur.call = "connect" THEN "conn" ELSE "disc"
    OBVIOUS
  <1>5. /\ Cur.id = master.cb /\ master.pre = "null" /\ ~master.exp
        /\ Fresh(procs, Cur.id, k, Cur.timed)
        /\ Hst.call \notin {"timer_conn", "timer_disc"}
    BY <1>1, <1>4 DEF Calm, Working
  <1>6. Live(procs, Cur.id, k)
    BY <1>5 DEF Fresh
  <1>7. Working'
    BY <1>1, WorkOver
  <1>8. CASE Cur.ok
    <2>1. Altered(procs, procs', Cur.id, FALSE)
      <3>1. procs' = Stat(procs, Cur.id, "active")
        BY <1>1, <1>8 DEF MasterStarted
      <3> QED  BY <1>2, <1>6, <3>1, StatedAltered
    <2>2. /\ master'.op = master.op /\ master'.cb = master.cb /\ master'.pre = master.pre
          /\ master'.exp => (master.exp \/ Cur.timed)
      BY <1>1, <1>2, <1>8 DEF MasterStarted, Masters
    <2>3. Cur.timed => master.op # "null"
      BY <1>1, <1>8 DEF MasterStarted
    <2>4. Owned'
      BY <1>1, <1>3, <2>1, <2>2 DEF Calm, Owned, Altered
    <2>5. Reported'
      BY <1>1, <1>3, <2>1, <2>2 DEF Calm, Reported, Held, InProgress, Altered, Same
    <2>6. Connecting'
      BY <1>1, <1>3, <1>8, <2>2 DEF Calm, Connecting, Unsent, Done, Cancelling
    <2>7. Discovering'
      BY <1>1, <1>3, <1>8, <2>2 DEF Calm, Discovering, Unsent, Done, TimerDone
    <2>8. Advertising'
      BY <1>1, <1>3, <1>8 DEF Calm, Advertising, Unsent, Done, TimerDone
    <2>9. Linked'
      BY <1>1, <1>3 DEF Calm, Linked
    <2>10. Timers'
      <3>1. master'.exp => master'.op # "null" /\ procs'[master'.cb].timed
        <4>1. procs[master.cb].timed = Cur.timed /\ master.cb \in DOMAIN procs
          BY <1>5, <1>6 DEF Fresh, Live
        <4>2. procs'[master.cb].timed = Cur.timed
          BY <2>1, <4>1 DEF Altered, Same
        <4> QED  BY <1>5, <2>2, <2>3, <4>2
      <3>2. slave.exp => slave.op /\ procs'[slave.cb].timed
        BY <2>1 DEF Calm, Timers, Owned, Live, Altered, Same
      <3> QED  BY <1>3, <3>1, <3>2 DEF Timers
    <2> QED  BY <1>7, <2>4, <2>5, <2>6, <2>7, <2>8, <2>9, <2>10 DEF Calm
  <1>9. CASE ~Cur.ok
    <2>1. Altered(procs, procs', Cur.id, TRUE)
      <3>1. procs' = Stat(procs, Cur.id, "failed")
        BY <1>1, <1>9 DEF MasterStarted
      <3> QED  BY <1>2, <1>6, <3>1, StatedAltered
    <2>2. /\ master'.op = "null" /\ master'.cb = master.cb /\ master'.pre = "null" /\ ~master'.exp
      BY <1>1, <1>2, <1>5, <1>9, MasterReseted DEF MasterStarted
    <2>3. master.op = k /\ ~ll.init /\ ~ll.scan /\ ~Has(events, ConnEnds) /\ ~Cancelling
      BY <1>1, <1>4, <1>9 DEF Calm, Connecting, Discovering, Unsent, Owned, Cancelling
    <2>4. (Hst.at = "insert" => Hst.id # Cur.id) /\ k # "null" /\ k # "adv"
      BY <1>4, <1>5, <2>3 DEF Calm, Owned
    <2>5. Live(procs, slave.cb, "adv") => slave.cb # Cur.id
      BY <1>6, <2>4 DEF Live
    <2>6. Owned'
      BY <1>1, <1>3, <1>5, <2>1, <2>2, <2>3, <2>4, <2>5 DEF Calm, Owned, Altered, Cancelling
    <2>7. Reported'
      BY <1>1, <1>3, <1>5, <2>1, <2>2 DEF Calm, Reported, Held, InProgress, Altered, Same
    <2>8. Connecting'
      BY <1>1, <1>3, <2>2, <2>3, ConnEndsHas DEF Calm, Connecting, Unsent, Done
    <2>9. Discovering'
      BY <1>1, <1>3, <1>5, <2>2, <2>3 DEF Calm, Discovering, Unsent, Done, TimerDone
    <2>10. Advertising'
      BY <1>1, <1>3 DEF Calm, Advertising, Unsent, Done, TimerDone
    <2>11. Linked'
      BY <1>1, <1>3 DEF Calm, Linked
    <2>12. Timers'
      <3>1. slave.exp => slave.op /\ procs'[slave.cb].timed
        BY <2>1 DEF Calm, Timers, Owned, Live, Altered, Same
      <3> QED  BY <1>3, <2>2, <3>1 DEF Timers
    <2> QED  BY <1>7, <2>6, <2>7, <2>8, <2>9, <2>10, <2>11, <2>12 DEF Calm
  <1> QED  BY <1>1, <1>8, <1>9

LEMMA AdvStartedCalm ==
    ASSUME Shape, Calm, NEW t \in Tasks, AdvStarted(t), ~crossed'
    PROVE  Calm'
  <1>1. /\ Cur = ctx[t] /\ Hst' = Hst /\ Cur.at = "ack" /\ Cur.call = "adv"
        /\ Cur'.at = "idle" /\ Cur'.call = "none" /\ Cur.ok \in BOOLEAN /\ Cur.timed \in BOOLEAN
    <2>1. {"adv"} \subseteq ApiCalls
      BY DEF ApiCalls
    <2> QED  BY <2>1, AnswerView DEF AdvStarted
  <1>2. slave \in Slaves /\ procs \in Seq(Procs)
    BY DEF Shape, Types, Data
  <1>3. UNCHANGED <<master, conns, ll, events, lost>>
    BY DEF AdvStarted
  <1>4. /\ Cur.id = slave.cb /\ ~slave.pre /\ ~slave.exp
        /\ Fresh(procs, Cur.id, "adv", Cur.timed) /\ Hst.call # "timer_adv"
    BY <1>1 DEF Calm, Working
  <1>5. Live(procs, Cur.id, "adv")
    BY <1>4 DEF Fresh
  <1>6. Working'
    BY <1>1, WorkOver
  <1>7. CASE Cur.ok
    <2>1. Altered(procs, procs', Cur.id, FALSE)
      <3>1. procs' = Stat(procs, Cur.id, "active")
        BY <1>1, <1>7 DEF AdvStarted
      <3> QED  BY <1>2, <1>5, <3>1, StatedAltered
    <2>2. /\ slave'.op = slave.op /\ slave'.cb = slave.cb /\ slave'.pre = slave.pre
          /\ slave'.connectable = slave.connectable
          /\ slave'.exp => (slave.exp \/ Cur.timed)
      BY <1>1, <1>2, <1>7 DEF AdvStarted, Slaves
    <2>3. Cur.timed => slave.op
      BY <1>1, <1>7 DEF AdvStarted
    <2>4. Owned'
      BY <1>1, <1>3, <2>1, <2>2 DEF Calm, Owned, Altered
    <2>5. Reported'
      BY <1>1, <1>3, <2>1, <2>2 DEF Calm, Reported, Held, InProgress, Altered, Same
    <2>6. Connecting'
      BY <1>1, <1>3, <1>7 DEF Calm, Connecting, Unsent, Done, Cancelling
    <2>7. Discovering'
      BY <1>1, <1>3, <1>7 DEF Calm, Discovering, Unsent, Done, TimerDone
    <2>8. Advertising'
      BY <1>1, <1>3, <1>7, <2>2 DEF Calm, Advertising, Unsent, Done, TimerDone
    <2>9. Linked'
      BY <1>1, <1>3 DEF Calm, Linked
    <2>10. Timers'
      <3>1. slave'.exp => slave'.op /\ procs'[slave'.cb].timed
        <4>1. procs[slave.cb].timed = Cur.timed /\ slave.cb \in DOMAIN procs
          BY <1>4, <1>5 DEF Fresh, Live
        <4>2. procs'[slave.cb].timed = Cur.timed
          BY <2>1, <4>1 DEF Altered, Same
        <4> QED  BY <1>4, <2>2, <2>3, <4>2
      <3>2. master.exp => master.op # "null" /\ procs'[master.cb].timed
        BY <2>1 DEF Calm, Timers, Owned, Live, Altered, Same
      <3> QED  BY <1>3, <3>1, <3>2 DEF Timers
    <2> QED  BY <1>6, <2>4, <2>5, <2>6, <2>7, <2>8, <2>9, <2>10 DEF Calm
  <1>8. CASE ~Cur.ok
    <2>1. Altered(procs, procs', Cur.id, TRUE)
      <3>1. procs' = Stat(procs, Cur.id, "failed")
        BY <1>1, <1>8 DEF AdvStarted
      <3> QED  BY <1>2, <1>5, <3>1, StatedAltered
    <2>2. ~slave'.op /\ slave'.cb = slave.cb /\ ~slave'.pre /\ ~slave'.exp
      BY <1>1, <1>2, <1>4, <1>8, SlaveReseted DEF AdvStarted
    <2>3. slave.op /\ ll.adv = "off" /\ ~Has(events, AdvEnds) /\ Hst.at # "adv_finished"
      BY <1>1, <1>8 DEF Calm, Advertising, Unsent
    <2>4. (Hst.at = "insert" => Hst.id # Cur.id)
      BY <1>4, <2>3 DEF Calm, Owned
    <2>5. \A k : Live(procs, master.cb, k) /\ k # "adv" => master.cb # Cur.id
      BY <1>5 DEF Live
    <2>6. master.op # "adv"
      BY DEF Shape, Types, Data, Masters
    <2>7. Owned'
      BY <1>1, <1>3, <1>4, <2>1, <2>2, <2>3, <2>4, <2>5, <2>6 DEF Calm, Owned, Altered
    <2>8. Reported'
      BY <1>1, <1>3, <1>4, <2>1, <2>2, <2>3 DEF Calm, Reported, Held, InProgress, Altered, Same
    <2>9. Connecting'
      BY <1>1, <1>3 DEF Calm, Connecting, Unsent, Done, Cancelling
    <2>10. Discovering'
      BY <1>1, <1>3 DEF Calm, Discovering, Unsent, Done, TimerDone
    <2>11. Advertising'
      BY <1>1, <1>3, <2>2, <2>3 DEF Calm, Advertising, Unsent, Done, TimerDone
    <2>12. Linked'
      BY <1>1, <1>3 DEF Calm, Linked
    <2>13. Timers'
      <3>1. master.exp => master.op # "null" /\ procs'[master.cb].timed
        BY <2>1 DEF Calm, Timers, Owned, Live, Altered, Same
      <3> QED  BY <1>3, <2>2, <3>1 DEF Timers
    <2> QED  BY <1>6, <2>7, <2>8, <2>9, <2>10, <2>11, <2>12, <2>13 DEF Calm
  <1> QED  BY <1>1, <1>7, <1>8

LEMMA ConnCancelledCalm ==
    ASSUME Shape, Calm, NEW t \in Tasks, ConnCancelled(t)
    PROVE  Calm'
  <1>1. /\ Hst' = Hst /\ Cur.call = "conn_cancel" /\ Cur'.at = "idle" /\ Cur'.call = "none"
    <2>1. {"conn_cancel"} \subseteq ApiCalls
      BY DEF ApiCalls
    <2> QED  BY <2>1, AnswerView DEF ConnCancelled
  <1>2. UNCHANGED <<slave, conns, ll, events, lost, procs>>
    BY DEF ConnCancelled
  <1>3. /\ master'.op = master.op /\ master'.cb = master.cb /\ master'.pre = master.pre
        /\ master'.exp = master.exp
    BY DEF ConnCancelled, Shape, Types, Data, Masters
  <1>4. Working'
    BY <1>1, WorkOver
  <1>5. Owned' /\ Linked' /\ Timers'
    BY <1>1, <1>2, <1>3 DEF Calm, Owned, Linked, Timers
  <1>6. Reported'
    BY <1>1, <1>2, <1>3 DEF Calm, Reported, Held, InProgress
  <1>7. Connecting'
    BY <1>1, <1>2, <1>3 DEF Calm, Connecting, Unsent, Done, Cancelling
  <1>8. Discovering'
    BY <1>1, <1>2, <1>3 DEF Calm, Discovering, Unsent, Done, TimerDone
  <1>9. Advertising'
    BY <1>1, <1>2 DEF Calm, Advertising, Unsent, Done, TimerDone
  <1> QED  BY <1>4, <1>5, <1>6, <1>7, <1>8, <1>9 DEF Calm

LEMMA HstIs ==
    ASSUME ctx[Host].call # "timer_disc" PROVE Hst.call # "timer_disc"
  BY IdleFields DEF Hst

LEMMA AdvNotOver ==
    ASSUME ~AdvOver
    PROVE  /\ ~Has(events, AdvEnds) /\ Hst.call # "timer_adv" /\ Hst.at # "adv_finished"
           /\ ~(Hst.at = "insert" /\ Hst.call = "adv")
  BY IdleFields DEF AdvOver, AdvQueued, AdvEnding, Has, AdvEnds, Hst

LEMMA DiscCancelledCalm ==
    ASSUME Shape, Calm, NEW t \in Tasks, DiscCancelled(t), ~crossed'
    PROVE  Calm'
  <1>1. /\ Cur = ctx[t] /\ Hst' = Hst /\ Cur.at = "ack" /\ Cur.call = "disc_cancel"
        /\ Cur'.at = "idle" /\ Cur'.call = "none" /\ Cur.ok \in BOOLEAN
    <2>1. {"disc_cancel"} \subseteq ApiCalls
      BY DEF ApiCalls
    <2> QED  BY <2>1, AnswerView DEF DiscCancelled
  <1>2. master \in Masters /\ procs \in Seq(Procs)
    BY DEF Shape, Types, Data
  <1>3. UNCHANGED <<slave, conns, ll, events, lost>>
    BY DEF DiscCancelled
  <1>4. Cur.id = master.cb /\ master.op = "disc" /\ master.pre = "null"
    BY <1>1, <1>2 DEF Calm, Working, Owned, Masters
  <1>5. Live(procs, Cur.id, "disc")
    BY <1>4 DEF Calm, Owned
  <1>6. Working'
    BY <1>1, WorkOver
  <1>7. CASE ~Cur.ok
    <2>1. UNCHANGED <<master, procs>>
      BY <1>1, <1>7 DEF DiscCancelled
    <2>2. Owned' /\ Reported' /\ Linked' /\ Timers'
      BY <1>1, <1>3, <2>1, Frame
    <2>3. Connecting'
      BY <1>1, <1>3, <2>1 DEF Calm, Connecting, Unsent, Done, Cancelling
    <2>4. Discovering'
      BY <1>1, <1>3, <1>7, <2>1 DEF Calm, Discovering, Unsent, Done, TimerDone
    <2>5. Advertising'
      BY <1>1, <1>3, <2>1 DEF Calm, Advertising, Unsent, Done, TimerDone
    <2> QED  BY <1>6, <2>2, <2>3, <2>4, <2>5 DEF Calm
  <1>8. CASE Cur.ok
    <2>1. Altered(procs, procs', Cur.id, TRUE)
      <3>1. procs' = Stat(procs, Cur.id, "stopped")
        BY <1>1, <1>8 DEF DiscCancelled
      <3> QED  BY <1>2, <1>5, <3>1, StatedAltered
    <2>2. master'.op = "null" /\ master'.cb = master.cb /\ master'.pre = "null" /\ ~master'.exp
      BY <1>1, <1>2, <1>4, <1>8, MasterReseted DEF DiscCancelled
    <2>3. Hst.call # "timer_disc"
      BY <1>1, <1>8, HstIs DEF DiscCancelled, DiscEnding
    <2>4. ~ll.init /\ ~ll.scan /\ ~Has(events, ConnEnds) /\ ~Cancelling /\ Hst.call # "timer_conn"
      BY <1>1, <1>4, <1>8 DEF Calm, Connecting, Discovering, Done, Owned, Cancelling
    <2>5. Hst.at = "insert" => Hst.id # Cur.id
      BY <1>4 DEF Calm, Owned
    <2>6. Live(procs, slave.cb, "adv") => slave.cb # Cur.id
      BY <1>5 DEF Live
    <2>7. Owned'
      BY <1>1, <1>3, <1>4, <2>1, <2>2, <2>3, <2>4, <2>5, <2>6 DEF Calm, Owned, Altered, Cancelling
    <2>8. Reported'
      BY <1>1, <1>3, <1>4, <2>1, <2>2 DEF Calm, Reported, Held, InProgress, Altered, Same
    <2>9. Connecting'
      BY <1>1, <1>3, <2>2, <2>4, ConnEndsHas DEF Calm, Connecting, Unsent, Done
    <2>10. Discovering'
      BY <1>1, <1>3, <2>2, <2>3, <2>4 DEF Calm, Discovering, Unsent, Done, TimerDone
    <2>11. Advertising'
      BY <1>1, <1>3 DEF Calm, Advertising, Unsent, Done, TimerDone
    <2>12. Linked'
      BY <1>1, <1>3 DEF Calm, Linked
    <2>13. Timers'
      <3>1. slave.exp => slave.op /\ procs'[slave.cb].timed
        BY <2>1 DEF Calm, Timers, Owned, Live, Altered, Same
      <3> QED  BY <1>3, <2>2, <3>1 DEF Timers
    <2> QED  BY <1>6, <2>7, <2>8, <2>9, <2>10, <2>11, <2>12, <2>13 DEF Calm
  <1> QED  BY <1>1, <1>7, <1>8

LEMMA AdvStoppedCalm ==
    ASSUME Shape, Calm, NEW t \in Tasks, AdvStopped(t), ~crossed'
    PROVE  Calm'
  <1>1. /\ Cur = ctx[t] /\ Hst' = Hst /\ Cur.at = "ack" /\ Cur.call = "adv_stop"
        /\ Cur'.at = "idle" /\ Cur'.call = "none" /\ Cur.ok \in BOOLEAN
    <2>1. {"adv_stop"} \subseteq ApiCalls
      BY DEF ApiCalls
    <2> QED  BY <2>1, AnswerView DEF AdvStopped
  <1>2. slave \in Slaves /\ procs \in Seq(Procs)
    BY DEF Shape, Types, Data
  <1>3. UNCHANGED <<master, conns, ll, events, lost>>
    BY DEF AdvStopped
  <1>4. Working'
    BY <1>1, WorkOver
  <1>5. CASE ~Cur.ok
    <2>1. UNCHANGED <<slave, procs>>
      BY <1>1, <1>5 DEF AdvStopped
    <2>2. Owned' /\ Reported' /\ Linked' /\ Timers'
      BY <1>1, <1>3, <2>1, Frame
    <2>3. Connecting'
      BY <1>1, <1>3, <2>1 DEF Calm, Connecting, Unsent, Done, Cancelling
    <2>4. Discovering'
      BY <1>1, <1>3, <2>1 DEF Calm, Discovering, Unsent, Done, TimerDone
    <2>5. Advertising'
      BY <1>1, <1>3, <1>5, <2>1 DEF Calm, Advertising, Unsent, Done, TimerDone
    <2> QED  BY <1>4, <2>2, <2>3, <2>4, <2>5 DEF Calm
  <1>6. CASE Cur.ok
    <2>1. /\ ~Has(events, AdvEnds) /\ Hst.call # "timer_adv" /\ Hst.at # "adv_finished"
          /\ ~(Hst.at = "insert" /\ Hst.call = "adv")
      BY <1>1, <1>6, AdvNotOver DEF AdvStopped
    <2>2. Cur.id = slave.cb /\ slave.op /\ ~slave.pre
      BY <1>1, <2>1 DEF Calm, Working
    <2>3. Live(procs, Cur.id, "adv")
      BY <2>2 DEF Calm, Owned
    <2>4. Altered(procs, procs', Cur.id, TRUE)
      <3>1. procs' = Stat(procs, Cur.id, "stopped")
        BY <1>1, <1>6 DEF AdvStopped
      <3> QED  BY <1>2, <2>3, <3>1, StatedAltered
    <2>5. ~slave'.op /\ slave'.cb = slave.cb /\ ~slave'.pre /\ ~slave'.exp
      BY <1>1, <1>2, <1>6, <2>2, SlaveReseted DEF AdvStopped
    <2>6. ll.adv = "off"
      BY <1>1, <1>6 DEF Calm, Advertising, Done
    <2>7. Hst.at = "insert" => Hst.id # Cur.id
      BY <2>2 DEF Calm, Owned
    <2>8. \A k : Live(procs, master.cb, k) /\ k # "adv" => master.cb # Cur.id
      BY <2>3 DEF Live
    <2>9. master.op # "adv"
      BY DEF Shape, Types, Data, Masters
    <2>10. Owned'
      BY <1>1, <1>3, <2>1, <2>2, <2>4, <2>5, <2>7, <2>8, <2>9 DEF Calm, Owned, Altered
    <2>11. Reported'
      BY <1>1, <1>3, <2>1, <2>2, <2>4, <2>5 DEF Calm, Reported, Held, InProgress, Altered, Same
    <2>12. Connecting'
      BY <1>1, <1>3 DEF Calm, Connecting, Unsent, Done, Cancelling
    <2>13. Discovering'
      BY <1>1, <1>3 DEF Calm, Discovering, Unsent, Done, TimerDone
    <2>14. Advertising'
      BY <1>1, <1>3, <2>1, <2>5, <2>6 DEF Calm, Advertising, Unsent, Done, TimerDone
    <2>15. Linked'
      BY <1>1, <1>3 DEF Calm, Linked
    <2>16. Timers'
      <3>1. master.exp => master.op # "null" /\ procs'[master.cb].timed
        BY <2>4 DEF Calm, Timers, Owned, Live, Altered, Same
      <3> QED  BY <1>3, <2>5, <3>1 DEF Timers
    <2> QED  BY <1>4, <2>10, <2>11, <2>12, <2>13, <2>14, <2>15, <2>16 DEF Calm
  <1> QED  BY <1>1, <1>5, <1>6

LEMMA PreAdvCalm ==
    ASSUME Shape, Calm, NEW t \in Tasks, PreAdv(t), ~crossed'
    PROVE  Calm'
  <1>1. /\ Cur = ctx[t] /\ Hst' = Hst /\ Cur.at = "ack" /\ Cur.call = "pre_adv" /\ Cur.ok \in BOOLEAN
        /\ IF master.op = "null" THEN Cur'.at = "idle" /\ Cur'.call = "none"
           ELSE Cur'.at = "send" /\ Cur'.call = IF master.op = "conn" THEN "pre_conn" ELSE "pre_disc"
    <2>1. {"pre_adv"} \subseteq ApiCalls
      BY DEF ApiCalls
    <2>2. ctx[t].at = "ack" /\ ctx[t].call = "pre_adv" /\ ctx[t].call \in ApiCalls /\ ctx[t].ok \in BOOLEAN
      BY <2>1, AnsweredIn DEF PreAdv
    <2>3. Control /\ Placed /\ GoOn(t, master.op)
      BY DEF Shape, Types, PreAdv
    <2> QED  BY <2>2, <2>3, GoOnView, IdleFields
  <1>2. slave \in Slaves /\ procs \in Seq(Procs) /\ master \in Masters
    BY DEF Shape, Types, Data
  <1>3. UNCHANGED <<master, conns, ll, events, lost, procs>>
    BY DEF PreAdv
  <1>4. /\ master.pre = "null" /\ ~slave.pre /\ Cur.id \in {None, slave.cb}
        /\ IF Cur.id = None THEN ~slave.op
           ELSE slave.op \/ Hst.at = "adv_finished" \/ (Hst.at = "insert" /\ Hst.call = "adv")
    BY <1>1 DEF Calm, Working, IsPreempted
  <1>5. Working'
    BY <1>1, <1>2, <1>3, <1>4 DEF Working, Masters
  <1>6. Connecting'
    BY <1>1, <1>3 DEF Calm, Connecting, Unsent, Done, Cancelling
  <1>7. Discovering'
    BY <1>1, <1>3 DEF Calm, Discovering, Unsent, Done, TimerDone
  <1>8. Linked'
    BY <1>1, <1>3 DEF Calm, Linked
  <1>9. CASE ~Cur.ok
    <2>1. UNCHANGED slave
      BY <1>1, <1>9 DEF PreAdv
    <2>2. Owned' /\ Reported' /\ Linked' /\ Timers'
      BY <1>1, <1>3, <2>1, Frame
    <2>3. Advertising'
      BY <1>1, <1>3, <1>9, <2>1 DEF Calm, Advertising, Unsent, Done, TimerDone
    <2> QED  BY <1>5, <1>6, <1>7, <2>2, <2>3 DEF Calm
  <1>10. CASE Cur.ok
    <2>1. /\ ~Has(events, AdvEnds) /\ Hst.call # "timer_adv" /\ Hst.at # "adv_finished"
          /\ ~(Hst.at = "insert" /\ Hst.call = "adv")
      BY <1>1, <1>10, AdvNotOver DEF PreAdv
    <2>2. /\ ~slave'.op /\ slave'.cb = slave.cb /\ ~slave'.exp /\ (slave'.pre <=> Cur.id # None)
      <3>1. PICK r \in Slaves : r = SlaveReset(slave) /\ ~r.op /\ ~r.exp /\ r.cb = slave.cb
        BY <1>2, SlaveReseted
      <3>2. PICK b \in BOOLEAN : b <=> Cur.id # None
        OBVIOUS
      <3>3. slave' = [r EXCEPT !.pre = b]
        BY <1>1, <1>10, <3>1, <3>2 DEF PreAdv
      <3> QED  BY <3>1, <3>2, <3>3 DEF Slaves
    <2>3. slave.op <=> slave'.pre
      BY <1>4, <2>1, <2>2
    <2>4. ll.adv = "off"
      BY <1>1, <1>10 DEF Calm, Advertising, Done
    <2>5. Owned'
      BY <1>1, <1>3, <1>4, <2>1, <2>2, <2>3 DEF Calm, Owned
    <2>6. Reported'
      BY <1>1, <1>3, <1>4, <2>2, <2>3 DEF Calm, Reported, Held, InProgress
    <2>7. Advertising'
      BY <1>1, <1>3, <2>1, <2>2, <2>4 DEF Calm, Advertising, Unsent, Done, TimerDone
    <2>8. Timers'
      BY <1>3, <2>2 DEF Calm, Timers
    <2> QED  BY <1>5, <1>6, <1>7, <1>8, <2>5, <2>6, <2>7, <2>8 DEF Calm
  <1> QED  BY <1>1, <1>9, <1>10

LEMMA KindType ==
    ASSUME NEW ps \in Seq(Procs), NEW i \in DOMAIN ps
    PROVE  ps[i].kind \in Kinds /\ ps[i].kind # "null"
  <1>1. ps[i] \in Procs
    OBVIOUS
  <1> QED  BY <1>1 DEF Procs, Kinds

LEMMA PreMasterCalm ==
    ASSUME Shape, Calm, NEW t \in Tasks, PreMaster(t), ~crossed'
    PROVE  Calm'
  <1>1. /\ Cur = ctx[t] /\ Hst' = Hst /\ Cur.at = "ack" /\ Cur.call \in {"pre_conn", "pre_disc"}
        /\ Cur.ok \in BOOLEAN /\ Cur'.at = "idle" /\ Cur'.call = "none"
    <2>1. {"pre_conn", "pre_disc"} \subseteq ApiCalls
      BY DEF ApiCalls
    <2>2. /\ ctx[t].at = "ack" /\ ctx[t].call \in {"pre_conn", "pre_disc"} /\ ctx[t].call \in ApiCalls
          /\ ctx[t].ok \in BOOLEAN
      BY <2>1, AnsweredIn DEF PreMaster
    <2>3. Control /\ Placed /\ GoOn(t, "null")
      BY DEF Shape, Types, PreMaster
    <2> QED  BY <2>2, <2>3, GoOnView, IdleFields
  <1>2. procs \in Seq(Procs) /\ master \in Masters
    BY DEF Shape, Types, Data
  <1>3. UNCHANGED <<slave, conns, ll, events, lost, procs>>
    BY DEF PreMaster
  <1>4. master.pre = "null" /\ (Cur.call = "pre_disc" => master.op = "disc")
    BY <1>1 DEF Calm, Working
  <1>5. Working'
    BY <1>1, WorkOver
  <1>6. Linked'
    BY <1>1, <1>3 DEF Calm, Linked
  <1>7. Advertising'
    BY <1>1, <1>3 DEF Calm, Advertising, Unsent, Done, TimerDone
  <1>8. CASE ~Cur.ok
    <2>1. UNCHANGED master
      BY <1>1, <1>8 DEF PreMaster
    <2>2. Owned' /\ Reported' /\ Linked' /\ Timers'
      BY <1>1, <1>3, <2>1, Frame
    <2>3. Connecting'
      BY <1>1, <1>3, <1>8, <2>1 DEF Calm, Connecting, Unsent, Done, Cancelling
    <2>4. Discovering'
      BY <1>1, <1>3, <1>8, <2>1 DEF Calm, Discovering, Unsent, Done, TimerDone
    <2> QED  BY <1>5, <1>7, <2>2, <2>3, <2>4 DEF Calm
  <1>9. CASE Cur.ok /\ Cur.call = "pre_conn"
    <2>1. /\ master'.op = master.op /\ master'.cb = master.cb /\ master'.exp = master.exp
          /\ master'.pre = "conn"
      BY <1>1, <1>2, <1>9 DEF PreMaster, Masters
    <2>2. master.op = "conn" /\ ~ll.init /\ ~Has(events, {"master"})
      BY <1>1, <1>9 DEF Calm, Connecting, Done
    <2>3. Owned'
      BY <1>1, <1>3, <1>4, <2>1, <2>2 DEF Calm, Owned
    <2>4. Reported'
      BY <1>1, <1>2, <1>3, <1>4, <2>1, <2>2, KindType DEF Calm, Reported, Held, InProgress
    <2>5. Connecting'
      BY <1>1, <1>3, <2>1, <2>2 DEF Calm, Connecting, Unsent, Done, Cancelling
    <2>6. Discovering'
      BY <1>1, <1>3, <1>9, <2>1 DEF Calm, Discovering, Unsent, Done, TimerDone
    <2>7. Timers'
      BY <1>3, <2>1 DEF Calm, Timers
    <2> QED  BY <1>5, <1>6, <1>7, <2>3, <2>4, <2>5, <2>6, <2>7 DEF Calm
  <1>10. CASE Cur.ok /\ Cur.call = "pre_disc"
    <2>1. master'.op = "null" /\ master'.cb = master.cb /\ ~master'.exp /\ master'.pre = "disc"
      <3>1. master' = [MasterReset(master) EXCEPT !.pre = "disc"]
        BY <1>1, <1>10 DEF PreMaster
      <3> QED  BY <1>2, <3>1, MasterReseted DEF Masters
    <2>2. Hst.call # "timer_disc"
      BY <1>1, <1>10, HstIs DEF PreMaster, DiscEnding
    <2>3. ~ll.init /\ ~ll.scan /\ ~Has(events, ConnEnds) /\ ~Cancelling /\ Hst.call # "timer_conn"
      BY <1>1, <1>4, <1>10 DEF Calm, Connecting, Discovering, Done, Owned, Cancelling
    <2>4. Owned'
      BY <1>1, <1>3, <1>4, <1>10, <2>1, <2>2, <2>3 DEF Calm, Owned, Cancelling
    <2>5. Reported'
      BY <1>1, <1>2, <1>3, <1>4, <1>10, <2>1, KindType DEF Calm, Reported, Held, InProgress
    <2>6. Connecting'
      BY <1>1, <1>3, <2>1, <2>3, ConnEndsHas DEF Calm, Connecting, Unsent, Done
    <2>7. Discovering'
      BY <1>1, <1>3, <2>1, <2>2, <2>3 DEF Calm, Discovering, Unsent, Done, TimerDone
    <2>8. Timers'
      BY <1>3, <2>1 DEF Calm, Timers
    <2> QED  BY <1>5, <1>6, <1>7, <2>4, <2>5, <2>6, <2>7, <2>8 DEF Calm
  <1> QED  BY <1>1, <1>8, <1>9, <1>10

LEMMA PreemptDoneCalm ==
    ASSUME Shape, Calm, NEW t \in Tasks, PreemptDone(t)
    PROVE  Calm'
  <1>1. Cur = Idle /\ Cur' = Idle /\ Hst' = Hst
    <2>1. /\ Control /\ Placed /\ ctx[t].at \in {"idle", "preempting"} /\ lock = NoTask
          /\ UNCHANGED lock /\ Put(t, Idle)
      BY DEF PreemptDone, Shape, Types, Put
    <2> QED  BY <2>1, PreemptView
  <1>2. procs \in Seq(Procs) /\ master \in Masters /\ slave \in Slaves
    BY DEF Shape, Types, Data
  <1>3. UNCHANGED <<conns, ll, events, lost>>
    BY DEF PreemptDone
  <1>4. /\ master'.op = master.op /\ master'.cb = master.cb /\ master'.exp = master.exp
        /\ master'.pre = IF master.pre = "disc" THEN "null" ELSE master.pre
    BY <1>2 DEF PreemptDone, Masters
  <1>5. slave'.op = slave.op /\ slave'.cb = slave.cb /\ slave'.exp = slave.exp /\ ~slave'.pre
        /\ slave'.connectable = slave.connectable
    BY <1>2 DEF PreemptDone, Slaves
  <1>6. /\ Same(procs, procs') /\ (Told(procs) => Told(procs'))
        /\ \A i : Waiting(procs', i) => /\ Waiting(procs, i) /\ (slave.pre => i # slave.cb)
                                        /\ (master.pre = "disc" => i # master.cb)
        /\ \A i, l : (/\ Live(procs, i, l) /\ (slave.pre => i # slave.cb)
                      /\ (master.pre = "disc" => i # master.cb)) => Live(procs', i, l)
    <2>1. PICK ps : ps = Deliver(procs, IF slave.pre THEN slave.cb ELSE None, "adv")
      OBVIOUS
    <2>2. /\ Same(procs, ps) /\ (Told(procs) => Told(ps)) /\ ps \in Seq(Procs)
          /\ \A i : Waiting(ps, i) => Waiting(procs, i) /\ (slave.pre => i # slave.cb)
          /\ \A i, l : Live(procs, i, l) /\ (slave.pre => i # slave.cb) => Live(ps, i, l)
      <3>1. CASE slave.pre
        <4>1. Live(procs, slave.cb, "adv") /\ ps = Deliver(procs, slave.cb, "adv") /\ "adv" \in Kinds
          BY <2>1, <3>1 DEF Calm, Owned, Kinds
        <4>2. Altered(procs, ps, slave.cb, TRUE)
          BY <1>2, <4>1, DeliveredAltered
        <4> QED  BY <3>1, <4>2 DEF Altered, Same
      <3>2. CASE ~slave.pre
        <4>1. ps = procs
          BY <2>1, <3>2 DEF Deliver
        <4> QED  BY <1>2, <3>2, <4>1 DEF Same
      <3> QED  BY <3>1, <3>2
    <2>3. procs' = Deliver(ps, IF master.pre = "disc" THEN master.cb ELSE None, "disc")
      BY <2>1 DEF PreemptDone
    <2>4. CASE master.pre = "disc"
      <3>1. Live(procs, master.cb, "disc")
        BY <2>4 DEF Calm, Owned
      <3>2. slave.pre => master.cb # slave.cb
        BY <3>1 DEF Calm, Owned, Live
      <3>3. Live(ps, master.cb, "disc") /\ procs' = Deliver(ps, master.cb, "disc") /\ "disc" \in Kinds
        BY <2>2, <2>3, <2>4, <3>1, <3>2 DEF Kinds
      <3>4. Altered(ps, procs', master.cb, TRUE)
        BY <2>2, <3>3, DeliveredAltered
      <3> QED  BY <2>2, <2>4, <3>4 DEF Altered, Same
    <2>5. CASE master.pre # "disc"
      <3>1. procs' = ps
        BY <2>3, <2>5 DEF Deliver
      <3> QED  BY <2>2, <2>5, <3>1
    <2> QED  BY <2>4, <2>5
  <1>7. Working'
    BY <1>1, IdleFields DEF Working
  <1>8. Owned'
    <2>1. slave.pre => Live(procs, slave.cb, "adv")
      BY DEF Calm, Owned
    <2>2. master.pre = "disc" => Live(procs, master.cb, "disc") /\ master.op = "null"
      BY DEF Calm, Owned
    <2>3. master.op # "null" => /\ Live(procs, master.cb, master.op) /\ master.pre # "disc"
                                /\ (slave.pre => master.cb # slave.cb)
      BY <1>2, <2>1, <2>2 DEF Calm, Owned, Live, Masters
    <2>4. slave.op \/ Hst.at = "adv_finished" =>
             /\ Live(procs, slave.cb, "adv") /\ ~slave.pre
             /\ (master.pre = "disc" => master.cb # slave.cb)
      BY <2>2 DEF Calm, Owned, Live
    <2>5. Hst.at = "insert" => /\ Live(procs, Hst.id, Hst.call)
                               /\ (slave.pre => Hst.id # slave.cb)
                               /\ (master.pre = "disc" => Hst.id # master.cb)
      BY DEF Calm, Owned
    <2> QED  BY <1>1, <1>4, <1>5, <1>6, <2>3, <2>4, <2>5 DEF Calm, Owned
  <1>9. Reported'
    BY <1>1, <1>2, <1>4, <1>5, <1>6, KindType DEF Calm, Reported, Held, InProgress, Same
  <1>10. Connecting'
    BY <1>1, <1>3, <1>4 DEF Calm, Connecting, Unsent, Done, Cancelling
  <1>11. Discovering'
    BY <1>1, <1>3, <1>4 DEF Calm, Discovering, Unsent, Done, TimerDone
  <1>12. Advertising'
    BY <1>1, <1>3, <1>5 DEF Calm, Advertising, Unsent, Done, TimerDone
  <1>13. Linked'
    BY <1>1, <1>3 DEF Calm, Linked
  <1>14. Timers'
    <2>1. master.exp => procs'[master.cb].timed
      BY <1>6 DEF Calm, Timers, Owned, Live, Same
    <2>2. slave.exp => procs'[slave.cb].timed
      BY <1>6 DEF Calm, Timers, Owned, Live, Same
    <2> QED  BY <1>4, <1>5, <2>1, <2>2 DEF Calm, Timers
  <1> QED  BY <1>7, <1>8, <1>9, <1>10, <1>11, <1>12, <1>13, <1>14 DEF Calm

(* The controller on its own, and the host task: the call under way goes   *)
(* on.                                                                     *)
LEMMA Undisturbed ==
    ASSUME UNCHANGED <<ctx, lock>> PROVE Cur' = Cur /\ Hst' = Hst
  BY DEF Cur, Hst

LEMMA SameWork ==
    ASSUME Calm, UNCHANGED <<master, slave, procs>>, Cur' = Cur, Hst' = Hst
    PROVE  Working' /\ Owned' /\ Reported' /\ Timers'
  <1>1. Working'
    BY DEF Calm, Working, IsPreempted
  <1>2. Owned' /\ Timers'
    BY DEF Calm, Owned, Timers
  <1>3. Reported'
    BY DEF Calm, Reported, Held, InProgress
  <1> QED  BY <1>1, <1>2, <1>3

LEMMA LlFx ==
    ASSUME Shape, LlConnected \/ LlDirTimeout
    PROVE  \E y \in {"master", "slave", "dir_timeout"} :
              /\ IF y = "master" THEN ll.init /\ ~ll'.init /\ ll'.adv = ll.adv
                 ELSE ll.adv = "conn" /\ ll'.adv = "off" /\ ll'.init = ll.init
              /\ ll'.scan = ll.scan
              /\ \A T : Has(events, T) => Has(events', T)
              /\ \A T : Has(events', T) => Has(events, T) \/ y \in T
              /\ \A T : Gone(lost, T) => Gone(lost', T)
              /\ \A T : y \in T => Has(events', T) \/ Gone(lost', T)
              /\ \A T : Once(events, T) /\ ~(Has(events, T) /\ y \in T) => Once(events', T)
              /\ \A n \in Nat : HasLink(events, n) => HasLink(events', n)
              /\ \A n \in Nat : LostLink(lost, n) => LostLink(lost', n)
              /\ \/ ll'.links = ll.links
                 \/ HasLink(events', ll.links + 1) \/ LostLink(lost', ll.links + 1)
              /\ ll'.links \in {ll.links, ll.links + 1}
  <1>1. ll \in Controls /\ events \in Seq(Events) /\ lost \in SUBSET Events /\ ll.links \in Nat
    BY DEF Shape, Types, Data, Controls
  <1>2. PICK y \in {"master", "slave", "dir_timeout"} :
           /\ Notify(y)
           /\ IF y = "master" THEN ll.init /\ ~ll'.init /\ ll'.adv = ll.adv
              ELSE ll.adv = "conn" /\ ll'.adv = "off" /\ ll'.init = ll.init
           /\ ll'.scan = ll.scan
           /\ ll'.links = IF y = "dir_timeout" THEN ll.links ELSE ll.links + 1
    <2>1. PICK n \in Nat : n = ll.links + 1
      BY <1>1
    <2>2. CASE LlDirTimeout
      <3>1. Notify("dir_timeout") /\ ll.adv = "conn" /\ ll'.adv = "off" /\ ll'.init = ll.init
            /\ ll'.scan = ll.scan /\ ll'.links = ll.links
        BY <1>1, <2>2 DEF LlDirTimeout, Controls
      <3> QED  BY <3>1
    <2>3. CASE ll.init /\ ll' = [ll EXCEPT !.init = FALSE, !.links = @ + 1] /\ Notify("master")
      <3>1. ll' = [ll EXCEPT !.init = FALSE, !.links = n]
        BY <1>1, <2>1, <2>3 DEF Controls
      <3>2. ~ll'.init /\ ll'.adv = ll.adv /\ ll'.scan = ll.scan /\ ll'.links = n
        BY <1>1, <3>1 DEF Controls
      <3> QED  BY <2>1, <2>3, <3>2
    <2>4. CASE ll.adv = "conn" /\ ll' = [ll EXCEPT !.adv = "off", !.links = @ + 1] /\ Notify("slave")
      <3>1. ll' = [ll EXCEPT !.adv = "off", !.links = n]
        BY <1>1, <2>1, <2>4 DEF Controls
      <3>2. ll'.init = ll.init /\ ll'.adv = "off" /\ ll'.scan = ll.scan /\ ll'.links = n
        BY <1>1, <3>1 DEF Controls
      <3> QED  BY <2>1, <2>4, <3>2
    <2> QED  BY <2>2, <2>3, <2>4 DEF LlConnected
  <1> DEFINE e == [type |-> y, link |-> ll.links + 1]
  <1>3. /\ e \in Events /\ e.type = y /\ e.link = ll.links + 1 /\ Emit(e)
        /\ IsLink(e) <=> y # "dir_timeout"
    BY <1>1, <1>2 DEF Events, Notify, IsLink
  <1> HIDE DEF e
  <1>4. /\ \A T : Has(events, T) => Has(events', T)
        /\ \A T : Has(events', T) => Has(events, T) \/ y \in T
        /\ \A T : Gone(lost, T) => Gone(lost', T)
        /\ \A T : y \in T => Has(events', T) \/ Gone(lost', T)
        /\ \A T : Once(events, T) /\ ~(Has(events, T) /\ y \in T) => Once(events', T)
    BY <1>1, <1>3, EmitFx
  <1>5. /\ \A n \in Nat : HasLink(events, n) => HasLink(events', n)
        /\ \A n \in Nat : LostLink(lost, n) => LostLink(lost', n)
        /\ y # "dir_timeout" => HasLink(events', ll.links + 1) \/ LostLink(lost', ll.links + 1)
    BY <1>1, <1>3, EmitTypes
  <1>6. \/ ll'.links = ll.links
        \/ HasLink(events', ll.links + 1) \/ LostLink(lost', ll.links + 1)
    BY <1>1, <1>2, <1>5
  <1> QED  BY <1>2, <1>4, <1>5, <1>6

LEMMA LlCalm ==
    ASSUME Shape, Calm, LlConnected \/ LlDirTimeout
    PROVE  Calm'
  <1>1. UNCHANGED <<master, slave, conns, procs>> /\ Cur' = Cur /\ Hst' = Hst
    BY Undisturbed DEF LlConnected, LlDirTimeout
  <1>2. PICK y \in {"master", "slave", "dir_timeout"} :
              /\ IF y = "master" THEN ll.init /\ ~ll'.init /\ ll'.adv = ll.adv
                 ELSE ll.adv = "conn" /\ ll'.adv = "off" /\ ll'.init = ll.init
              /\ ll'.scan = ll.scan
              /\ \A T : Has(events, T) => Has(events', T)
              /\ \A T : Has(events', T) => Has(events, T) \/ y \in T
              /\ \A T : Gone(lost, T) => Gone(lost', T)
              /\ \A T : y \in T => Has(events', T) \/ Gone(lost', T)
              /\ \A T : Once(events, T) /\ ~(Has(events, T) /\ y \in T) => Once(events', T)
              /\ \A n \in Nat : HasLink(events, n) => HasLink(events', n)
              /\ \A n \in Nat : LostLink(lost, n) => LostLink(lost', n)
              /\ \/ ll'.links = ll.links
                 \/ HasLink(events', ll.links + 1) \/ LostLink(lost', ll.links + 1)
              /\ ll'.links \in {ll.links, ll.links + 1}
    BY LlFx
  <1>3. Working' /\ Owned' /\ Reported' /\ Timers'
    BY <1>1, SameWork
  <1>4. Connecting'
    <2>1. /\ Has(events, ConnEnds) => Has(events', ConnEnds)
          /\ Has(events', ConnEnds) => Has(events, ConnEnds) \/ y = "master"
          /\ Gone(lost, ConnEnds) => Gone(lost', ConnEnds)
          /\ y = "master" => Has(events', ConnEnds) \/ Gone(lost', ConnEnds)
          /\ Has(events', {"master"}) => Has(events, {"master"}) \/ y = "master"
      BY <1>2 DEF ConnEnds
    <2>2. Once(events, ConnEnds) /\ ~(Has(events, ConnEnds) /\ y = "master") => Once(events', ConnEnds)
      BY <1>2 DEF ConnEnds
    <2>3. IF y = "master" THEN ll.init /\ ~ll'.init ELSE ll'.init = ll.init
      BY <1>2
    <2> QED  BY <1>1, <2>1, <2>2, <2>3 DEF Calm, Connecting, Unsent, Done, Cancelling
  <1>5. Discovering'
    BY <1>1, <1>2 DEF Calm, Discovering, Unsent, Done, TimerDone
  <1>6. Advertising'
    <2>1. /\ Has(events, AdvEnds) => Has(events', AdvEnds)
          /\ Has(events', AdvEnds) => Has(events, AdvEnds) \/ y # "master"
          /\ Gone(lost, AdvEnds) => Gone(lost', AdvEnds)
          /\ y # "master" => Has(events', AdvEnds) \/ Gone(lost', AdvEnds)
      BY <1>2 DEF AdvEnds
    <2>2. Once(events, AdvEnds) /\ ~(Has(events, AdvEnds) /\ y # "master") => Once(events', AdvEnds)
      BY <1>2 DEF AdvEnds
    <2>3. IF y = "master" THEN ll'.adv = ll.adv ELSE ll.adv = "conn" /\ ll'.adv = "off"
      BY <1>2
    <2> QED  BY <1>1, <2>1, <2>2, <2>3 DEF Calm, Advertising, Unsent, Done, TimerDone
  <1>7. Linked'
    <2>1. ll.links \in Nat
      BY DEF Shape, Types, Data, Controls
    <2> SUFFICES ASSUME NEW n \in 1 .. ll'.links
                 PROVE  (n \in conns \/ HasLink(events, n) \/ LostLink(lost, n) \/ (Hst.at = "insert" /\ Hst.link = n))'
      BY DEF Linked
    <2>2. n \in Nat /\ (n \in 1 .. ll.links \/ (n = ll.links + 1 /\ ll'.links # ll.links))
      BY <1>2, <2>1
    <2>3. CASE n \in 1 .. ll.links
      BY <1>1, <1>2, <2>2, <2>3 DEF Calm, Linked
    <2>4. CASE n = ll.links + 1 /\ ll'.links # ll.links
      BY <1>2, <2>4
    <2> QED  BY <2>2, <2>3, <2>4
  <1> QED  BY <1>3, <1>4, <1>5, <1>6, <1>7 DEF Calm

(* The host task reads an event.                                           *)
LEMMA HostGotoView ==
    ASSUME Shape, NEW at, NEW call, HostGoto(at, call), UNCHANGED lock, at # "preempting",
           ctx[Host].at = "idle" \/ AtWork(ctx[Host])
    PROVE  Hst = ctx[Host] /\ Cur' = Cur /\ Hst'.at = at /\ Hst'.call = call
  <1>1. PICK r : r = [Idle EXCEPT !.at = at, !.call = call]
    OBVIOUS
  <1>2. r.at = at /\ r.call = call
    BY <1>1 DEF Idle
  <1>3. Put(Host, r) /\ Control /\ Placed
    BY <1>1 DEF HostGoto, Put, Shape, Types
  <1> QED  BY <1>2, <1>3, HostView

LEMMA GotoInsertView ==
    ASSUME Shape, NEW kind, NEW cb, GotoInsert(kind, cb), UNCHANGED lock, ctx[Host].at = "idle"
    PROVE  /\ Hst = ctx[Host] /\ Cur' = Cur /\ Hst'.at = "insert" /\ Hst'.call = kind
           /\ Hst'.id = cb /\ Hst'.link = Head(events).link
  <1>1. PICK n : n = Head(events).link
    OBVIOUS
  <1>2. PICK r : r = [Idle EXCEPT !.at = "insert", !.call = kind, !.id = cb, !.link = n]
    OBVIOUS
  <1>3. r.at = "insert" /\ r.call = kind /\ r.id = cb /\ r.link = n
    BY <1>2 DEF Idle
  <1>4. Put(Host, r) /\ Control /\ Placed
    BY <1>1, <1>2 DEF GotoInsert, Put, Shape, Types
  <1>5. r.at # "preempting"
    BY <1>3
  <1>6. Hst = ctx[Host] /\ Hst' = r /\ Cur' = Cur
    BY <1>4, <1>5, HostView
  <1> QED  BY <1>1, <1>3, <1>6

LEMMA HostIdle ==
    ASSUME Shape, ctx[Host].at = "idle"
    PROVE  ctx[Host].call = "none"
  <1>1. InPlace(Host, ctx[Host], lock, hci)
    BY DEF Shape, Placed, Tasks
  <1> QED  BY <1>1, IdleFields DEF InPlace

LEMMA RxFx ==
    ASSUME Shape, NEW y, Rx(y)
    PROVE  /\ \A T : /\ y \in T => Has(events, T)
                     /\ y \in T /\ Once(events, T) => ~Has(events', T)
                     /\ y \notin T => (Has(events', T) <=> Has(events, T))
                     /\ Has(events', T) => Has(events, T)
                     /\ Once(events, T) => Once(events', T)
           /\ \A n \in Nat : HasLink(events, n) =>
                 HasLink(events', n) \/ (y \in {"master", "slave"} /\ n = Head(events).link)
           /\ ctx[Host].at = "idle" /\ ctx[Host].call = "none"
  <1>1. /\ events \in Seq(Events) /\ events # <<>> /\ events' = Tail(events) /\ Head(events).type = y
        /\ ctx[Host].at = "idle"
    BY DEF Shape, Types, Data, Rx
  <1>2. ctx[Host].call = "none"
    BY <1>1, HostIdle
  <1>3. \A n \in Nat : HasLink(events, n) =>
                 HasLink(events', n) \/ (y \in {"master", "slave"} /\ n = Head(events).link)
    BY <1>1, LinkTail DEF IsLink
  <1>4. \A T : /\ y \in T => Has(events, T)
               /\ y \in T /\ Once(events, T) => ~Has(events', T)
               /\ y \notin T => (Has(events', T) <=> Has(events, T))
               /\ Has(events', T) => Has(events, T)
               /\ Once(events, T) => Once(events', T)
    BY <1>1, HasTail
  <1> QED  BY <1>1, <1>2, <1>3, <1>4

LEMMA RxMasterCalm ==
    ASSUME Shape, Calm, RxMaster
    PROVE  Calm'
  <1>1. Rx("master") /\ UNCHANGED <<slave, conns, lock, ll, lost, procs>>
    BY DEF RxMaster
  <1>2. /\ Has(events, ConnEnds) /\ Has(events, {"master"}) /\ Once(events', ConnEnds)
        /\ ~Has(events', ConnEnds)
        /\ Has(events', AdvEnds) <=> Has(events, AdvEnds)
        /\ Once(events, AdvEnds) => Once(events', AdvEnds)
        /\ ctx[Host].at = "idle" /\ ctx[Host].call = "none"
    <2>1. "master" \in ConnEnds /\ "master" \notin AdvEnds /\ Once(events, ConnEnds)
      BY DEF ConnEnds, AdvEnds, Calm, Connecting
    <2> QED  BY <1>1, <2>1, RxFx
  <1>3. /\ master.op = "conn" /\ ~ll.init /\ ~Cancelling /\ ~Unsent("connect") /\ ~Done("pre_conn")
        /\ master.pre = "null"
    BY <1>2 DEF Calm, Connecting, Owned, Shape, Types, Data, Masters
  <1>4. master' = MasterReset(master) /\ GotoInsert("conn", master.cb)
    BY <1>3 DEF RxMaster
  <1>5. master'.op = "null" /\ ~master'.exp /\ master'.pre = "null" /\ master'.cb = master.cb
    BY <1>3, <1>4, MasterReseted DEF Shape, Types, Data
  <1>6. /\ Hst.at = "idle" /\ Hst.call = "none" /\ Cur' = Cur /\ Hst'.at = "insert" /\ Hst'.call = "conn"
        /\ Hst'.id = master.cb /\ Hst'.link = Head(events).link
    BY <1>1, <1>2, <1>4, GotoInsertView
  <1>7. Live(procs, master.cb, "conn") /\ procs \in Seq(Procs)
    BY <1>3 DEF Calm, Owned, Shape, Types, Data
  <1>8. Working'
    BY <1>1, <1>3, <1>5, <1>6 DEF Calm, Working, Discovering, IsPreempted
  <1>9. Owned'
    <2>1. Live(procs, slave.cb, "adv") => slave.cb # master.cb
      BY <1>7 DEF Live
    <2> QED  BY <1>1, <1>5, <1>6, <1>7, <2>1 DEF Calm, Owned
  <1>10. Reported'
    BY <1>1, <1>5, <1>6 DEF Calm, Reported, Held, InProgress
  <1>11. Connecting'
    BY <1>1, <1>2, <1>3, <1>5, <1>6, ConnEndsHas DEF Connecting, Unsent, Done, Cancelling
  <1>12. Discovering'
    BY <1>1, <1>3, <1>5, <1>6 DEF Calm, Discovering, Unsent, Done, TimerDone
  <1>13. Advertising'
    BY <1>1, <1>2, <1>6 DEF Calm, Advertising, Unsent, Done, TimerDone
  <1>14. Linked'
    BY <1>1, <1>6, RxFx DEF Calm, Linked
  <1>15. Timers'
    BY <1>1, <1>5 DEF Calm, Timers
  <1> QED  BY <1>8, <1>9, <1>10, <1>11, <1>12, <1>13, <1>14, <1>15 DEF Calm

LEMMA RxSlaveCalm ==
    ASSUME Shape, Calm, RxSlave
    PROVE  Calm'
  <1>1. Rx("slave") /\ UNCHANGED <<master, conns, lock, ll, lost, procs>>
    BY DEF RxSlave
  <1>2. /\ Has(events, AdvEnds) /\ ~Has(events', AdvEnds) /\ Once(events', AdvEnds)
        /\ Has(events', ConnEnds) <=> Has(events, ConnEnds)
        /\ Has(events', {"master"}) <=> Has(events, {"master"})
        /\ Once(events, ConnEnds) => Once(events', ConnEnds)
        /\ ctx[Host].at = "idle" /\ ctx[Host].call = "none"
    <2>1. "slave" \in AdvEnds /\ "slave" \notin ConnEnds /\ "slave" \notin {"master"}
          /\ Once(events, AdvEnds)
      BY DEF ConnEnds, AdvEnds, Calm, Advertising
    <2> QED  BY <1>1, <2>1, RxFx
  <1>3. slave.op /\ slave.connectable /\ ll.adv = "off" /\ ~Unsent("adv") /\ ~slave.pre
    BY <1>2 DEF Calm, Advertising, Owned
  <1>4. slave' = SlaveReset(slave) /\ GotoInsert("adv", slave.cb)
    BY <1>3 DEF RxSlave
  <1>5. ~slave'.op /\ ~slave'.exp /\ ~slave'.pre /\ slave'.cb = slave.cb
    BY <1>3, <1>4, SlaveReseted DEF Shape, Types, Data
  <1>6. /\ Hst.at = "idle" /\ Hst.call = "none" /\ Cur' = Cur /\ Hst'.at = "insert" /\ Hst'.call = "adv"
        /\ Hst'.id = slave.cb /\ Hst'.link = Head(events).link
    BY <1>1, <1>2, <1>4, GotoInsertView
  <1>7. Live(procs, slave.cb, "adv") /\ procs \in Seq(Procs) /\ master.op # "adv"
    BY <1>3 DEF Calm, Owned, Shape, Types, Data, Masters
  <1>8. Working'
    BY <1>1, <1>3, <1>5, <1>6 DEF Calm, Working, IsPreempted
  <1>9. Owned'
    <2>1. \A k : k # "adv" /\ Live(procs, master.cb, k) => slave.cb # master.cb
      BY <1>7 DEF Live
    <2>2. master.op # "null" \/ master.pre # "null" => slave.cb # master.cb
      BY <1>7, <2>1 DEF Calm, Owned, Shape, Types, Data, Masters
    <2> QED  BY <1>1, <1>5, <1>6, <1>7, <2>2 DEF Calm, Owned
  <1>10. Reported'
    BY <1>1, <1>5, <1>6 DEF Calm, Reported, Held, InProgress
  <1>11. Connecting'
    BY <1>1, <1>2, <1>6 DEF Calm, Connecting, Unsent, Done, Cancelling
  <1>12. Discovering'
    BY <1>1, <1>6 DEF Calm, Discovering, Unsent, Done, TimerDone
  <1>13. Advertising'
    BY <1>1, <1>2, <1>3, <1>5, <1>6 DEF Calm, Advertising, Unsent, Done, TimerDone
  <1>14. Linked'
    BY <1>1, <1>6, RxFx DEF Calm, Linked
  <1>15. Timers'
    BY <1>1, <1>5 DEF Calm, Timers
  <1> QED  BY <1>8, <1>9, <1>10, <1>11, <1>12, <1>13, <1>14, <1>15 DEF Calm

LEMMA RxCancelledCalm ==
    ASSUME Shape, Calm, RxCancelled
    PROVE  Calm'
  <1>1. Rx("cancelled") /\ UNCHANGED <<master, slave, conns, lock, ll, lost, procs>>
    BY DEF RxCancelled
  <1>2. /\ Has(events, ConnEnds) /\ ~Has(events', ConnEnds) /\ Once(events', ConnEnds)
        /\ Has(events', AdvEnds) <=> Has(events, AdvEnds)
        /\ Once(events, AdvEnds) => Once(events', AdvEnds)
        /\ ctx[Host].at = "idle" /\ ctx[Host].call = "none"
    <2>1. "cancelled" \in ConnEnds /\ "cancelled" \notin AdvEnds /\ Once(events, ConnEnds)
      BY DEF ConnEnds, AdvEnds, Calm, Connecting
    <2> QED  BY <1>1, <2>1, RxFx
  <1>3. master.op = "conn" /\ ~ll.init /\ ~Unsent("connect")
    BY <1>2 DEF Calm, Connecting
  <1>4. HostGoto("extract", "cancelled")
    BY <1>3 DEF RxCancelled
  <1>5. /\ Hst.at = "idle" /\ Hst.call = "none" /\ Cur' = Cur
        /\ Hst'.at = "extract" /\ Hst'.call = "cancelled"
    BY <1>1, <1>2, <1>4, HostGotoView
  <1>6. Working'
    BY <1>1, <1>5 DEF Calm, Working, IsPreempted
  <1>7. Owned'
    BY <1>1, <1>3, <1>5 DEF Calm, Owned
  <1>8. Reported'
    BY <1>1, <1>5 DEF Calm, Reported, Held, InProgress
  <1>9. Connecting'
    BY <1>1, <1>2, <1>3, <1>5, ConnEndsHas DEF Calm, Connecting, Unsent, Done, Cancelling
  <1>10. Discovering'
    BY <1>1, <1>5 DEF Calm, Discovering, Unsent, Done, TimerDone
  <1>11. Advertising'
    BY <1>1, <1>2, <1>5 DEF Calm, Advertising, Unsent, Done, TimerDone
  <1>12. Linked' /\ Timers'
    BY <1>1, <1>5, RxFx DEF Calm, Linked, Timers
  <1> QED  BY <1>6, <1>7, <1>8, <1>9, <1>10, <1>11, <1>12 DEF Calm

LEMMA RxDirTimeoutCalm ==
    ASSUME Shape, Calm, RxDirTimeout
    PROVE  Calm'
  <1>1. Rx("dir_timeout") /\ UNCHANGED <<master, slave, conns, lock, ll, lost, procs>>
    BY DEF RxDirTimeout
  <1>2. /\ Has(events, AdvEnds) /\ ~Has(events', AdvEnds) /\ Once(events', AdvEnds)
        /\ Has(events', ConnEnds) <=> Has(events, ConnEnds)
        /\ Has(events', {"master"}) <=> Has(events, {"master"})
        /\ Once(events, ConnEnds) => Once(events', ConnEnds)
        /\ ctx[Host].at = "idle" /\ ctx[Host].call = "none"
    <2>1. "dir_timeout" \in AdvEnds /\ "dir_timeout" \notin ConnEnds /\ "dir_timeout" \notin {"master"}
          /\ Once(events, AdvEnds)
      BY DEF ConnEnds, AdvEnds, Calm, Advertising
    <2> QED  BY <1>1, <2>1, RxFx
  <1>3. slave.op /\ ll.adv = "off" /\ ~Unsent("adv") /\ ~slave.pre
    BY <1>2 DEF Calm, Advertising, Owned
  <1>4. HostGoto("adv_finished", "none")
    BY <1>3 DEF RxDirTimeout
  <1>5. /\ Hst.at = "idle" /\ Hst.call = "none" /\ Cur' = Cur
        /\ Hst'.at = "adv_finished" /\ Hst'.call = "none"
    BY <1>1, <1>2, <1>4, HostGotoView
  <1>6. Working'
    BY <1>1, <1>5 DEF Calm, Working, IsPreempted
  <1>7. Owned'
    BY <1>1, <1>3, <1>5 DEF Calm, Owned
  <1>8. Reported'
    BY <1>1, <1>5 DEF Calm, Reported, Held, InProgress
  <1>9. Connecting'
    BY <1>1, <1>2, <1>5 DEF Calm, Connecting, Unsent, Done, Cancelling
  <1>10. Discovering'
    BY <1>1, <1>5 DEF Calm, Discovering, Unsent, Done, TimerDone
  <1>11. Advertising'
    BY <1>1, <1>2, <1>3, <1>5 DEF Calm, Advertising, Unsent, Done, TimerDone
  <1>12. Linked' /\ Timers'
    BY <1>1, <1>5, RxFx DEF Calm, Linked, Timers
  <1> QED  BY <1>6, <1>7, <1>8, <1>9, <1>10, <1>11, <1>12 DEF Calm

(* The host task writes through NULL.                                      *)
LEMMA RxFaultCalm ==
    ASSUME Shape, Calm, RxFault
    PROVE  Calm'
  <1>1. /\ HostGoto("fault", "none") /\ UNCHANGED <<master, slave, conns, lock, ll, procs, events, lost>>
        /\ ctx[Host].at = "idle" /\ ctx[Host].call = "none"
    BY HostIdle DEF RxFault
  <1>2. Hst.at = "idle" /\ Hst.call = "none" /\ Cur' = Cur /\ Hst'.at = "fault" /\ Hst'.call = "none"
    BY <1>1, HostGotoView
  <1>3. Working' /\ Owned'
    BY <1>1, <1>2 DEF Calm, Working, Owned, IsPreempted
  <1>4. Reported' /\ Linked' /\ Timers'
    BY <1>1, <1>2 DEF Calm, Reported, Held, InProgress, Linked, Timers
  <1>5. Connecting' /\ Discovering' /\ Advertising'
    BY <1>1, <1>2
       DEF Calm, Connecting, Discovering, Advertising, Unsent, Done, TimerDone, Cancelling
  <1> QED  BY <1>3, <1>4, <1>5 DEF Calm

(* The host task reports.  It holds the lock, so no call is under way.     *)
LEMMA NoCall ==
    ASSUME lock = NoTask PROVE Cur.at = "idle" /\ Cur.call = "none"
  BY IdleFields DEF Cur

LEMMA InsertCalm ==
    ASSUME Shape, Calm, Insert
    PROVE  Calm'
  <1>1. /\ ctx[Host].at = "insert" /\ HostGoto("idle", "none") /\ lock = NoTask
        /\ UNCHANGED <<master, slave, lock, ll, events, lost>> /\ procs' = Deliver(procs, ctx[Host].id, ctx[Host].call)
        /\ conns' = conns \cup {ctx[Host].link}
    BY DEF Insert
  <1>2. Hst = ctx[Host] /\ Cur' = Cur /\ Hst'.at = "idle" /\ Hst'.call = "none"
    BY <1>1, HostGotoView DEF AtWork
  <1>3. Cur.at = "idle" /\ Cur.call = "none"
    BY <1>1, NoCall
  <1>4. HstOK(Hst) /\ procs \in Seq(Procs)
    BY ViewTypes DEF Shape, Types, Data
  <1>5. Hst.at = "insert" /\ Hst.call \in Kinds /\ Live(procs, Hst.id, Hst.call)
    BY <1>1, <1>2, <1>4, IdleFields DEF Calm, Owned, HstOK, Kinds
  <1>6. Altered(procs, procs', Hst.id, TRUE)
    BY <1>1, <1>2, <1>4, <1>5, DeliveredAltered
  <1>7. Working'
    BY <1>2, <1>3 DEF Working
  <1>8. Owned'
    BY <1>1, <1>2, <1>5, <1>6 DEF Calm, Owned, Altered
  <1>9. Reported'
    BY <1>1, <1>2, <1>5, <1>6 DEF Calm, Reported, Held, InProgress, Altered, Same
  <1>10. Connecting'
    BY <1>1, <1>2, <1>3, <1>5 DEF Calm, Connecting, Unsent, Done, Cancelling
  <1>11. Discovering'
    BY <1>1, <1>2, <1>3, <1>5 DEF Calm, Discovering, Unsent, Done, TimerDone
  <1>12. Advertising'
    BY <1>1, <1>2, <1>3, <1>5 DEF Calm, Advertising, Unsent, Done, TimerDone
  <1>13. Linked'
    BY <1>1, <1>2 DEF Calm, Linked
  <1>14. Timers'
    <2>1. master.exp => procs'[master.cb].timed
      BY <1>6 DEF Calm, Timers, Owned, Live, Altered, Same
    <2>2. slave.exp => procs'[slave.cb].timed
      BY <1>6 DEF Calm, Timers, Owned, Live, Altered, Same
    <2> QED  BY <1>1, <2>1, <2>2 DEF Calm, Timers
  <1> QED  BY <1>7, <1>8, <1>9, <1>10, <1>11, <1>12, <1>13, <1>14 DEF Calm

LEMMA ExtractCalm ==
    ASSUME Shape, Calm, Extract
    PROVE  Calm'
  <1>1. /\ ctx[Host].at = "extract" /\ HostGoto("idle", "none") /\ lock = NoTask
        /\ UNCHANGED <<slave, conns, lock, ll, events, lost>>
    BY DEF Extract
  <1>2. Hst = ctx[Host] /\ Cur' = Cur /\ Hst'.at = "idle" /\ Hst'.call = "none"
    BY <1>1, HostGotoView DEF AtWork
  <1>3. Cur.at = "idle" /\ Cur.call = "none"
    BY <1>1, NoCall
  <1>4. HstOK(Hst) /\ procs \in Seq(Procs) /\ master \in Masters
    BY ViewTypes DEF Shape, Types, Data
  <1>5. Hst.at = "extract" /\ Hst.call \in {"cancelled", "timer_disc"}
    BY <1>1, <1>2, <1>4, IdleFields DEF HstOK
  <1>6. PICK k \in {"conn", "disc"} : /\ k = IF Hst.call = "timer_disc" THEN "disc" ELSE "conn"
                                      /\ procs' = Deliver(procs, master.cb, k)
    BY <1>2 DEF Extract
  <1>7. master.op = k /\ Live(procs, master.cb, k) /\ k \in Kinds
    BY <1>5, <1>6 DEF Calm, Owned, Kinds
  <1>8. Altered(procs, procs', master.cb, TRUE)
    BY <1>4, <1>6, <1>7, DeliveredAltered
  <1>9. master'.op = "null" /\ ~master'.exp /\ master'.pre = "null" /\ master'.cb = master.cb
    <2>1. master' = [MasterReset(master) EXCEPT !.pre = "null"]
      BY DEF Extract
    <2> QED  BY <1>4, <2>1, MasterReseted DEF Masters
  <1>10. ~ll.init /\ ~ll.scan /\ ~Has(events, ConnEnds)
    BY <1>5, <1>6, <1>7 DEF Calm, Connecting, Discovering, Cancelling
  <1>11. Working'
    BY <1>2, <1>3 DEF Working
  <1>12. Owned'
    <2>1. Live(procs, slave.cb, "adv") => slave.cb # master.cb
      BY <1>7 DEF Live
    <2> QED  BY <1>1, <1>2, <1>5, <1>8, <1>9, <2>1 DEF Calm, Owned, Altered
  <1>13. Reported'
    BY <1>1, <1>2, <1>5, <1>8, <1>9 DEF Calm, Reported, Held, InProgress, Altered, Same
  <1>14. Connecting'
    BY <1>1, <1>2, <1>3, <1>9, <1>10, ConnEndsHas DEF Calm, Connecting, Unsent, Done, Cancelling
  <1>15. Discovering'
    BY <1>1, <1>2, <1>3, <1>9, <1>10 DEF Calm, Discovering, Unsent, Done, TimerDone
  <1>16. Advertising'
    BY <1>1, <1>2, <1>3, <1>5 DEF Calm, Advertising, Unsent, Done, TimerDone
  <1>17. Linked'
    BY <1>1, <1>2, <1>5 DEF Calm, Linked
  <1>18. Timers'
    <2>1. slave.exp => procs'[slave.cb].timed
      BY <1>8 DEF Calm, Timers, Owned, Live, Altered, Same
    <2> QED  BY <1>1, <1>9, <2>1 DEF Calm, Timers
  <1> QED  BY <1>11, <1>12, <1>13, <1>14, <1>15, <1>16, <1>17, <1>18 DEF Calm

LEMMA AdvFinishedCalm ==
    ASSUME Shape, Calm, AdvFinished
    PROVE  Calm'
  <1>1. /\ ctx[Host].at = "adv_finished" /\ HostGoto("idle", "none") /\ lock = NoTask
        /\ UNCHANGED <<master, conns, lock, ll, events, lost>> /\ procs' = Deliver(procs, slave.cb, "adv")
        /\ slave' = SlaveReset(slave)
    BY DEF AdvFinished
  <1>2. Hst = ctx[Host] /\ Cur' = Cur /\ Hst'.at = "idle" /\ Hst'.call = "none"
    BY <1>1, HostGotoView DEF AtWork
  <1>3. Cur.at = "idle" /\ Cur.call = "none"
    BY <1>1, NoCall
  <1>4. procs \in Seq(Procs) /\ slave \in Slaves /\ master \in Masters /\ HstOK(Hst)
    BY ViewTypes DEF Shape, Types, Data
  <1>5. Hst.at = "adv_finished" /\ Live(procs, slave.cb, "adv") /\ "adv" \in Kinds /\ ~slave.pre
    BY <1>1, <1>2 DEF Calm, Owned, Kinds
  <1>6. Altered(procs, procs', slave.cb, TRUE)
    BY <1>1, <1>4, <1>5, DeliveredAltered
  <1>7. ~slave'.op /\ ~slave'.exp /\ ~slave'.pre /\ slave'.cb = slave.cb
    BY <1>1, <1>4, <1>5, SlaveReseted
  <1>8. ll.adv = "off" /\ ~Has(events, AdvEnds)
    BY <1>5 DEF Calm, Advertising
  <1>9. Hst.call = "none"
    BY <1>4, <1>5, IdleFields DEF HstOK
  <1>10. Working'
    BY <1>2, <1>3 DEF Working
  <1>11. Owned'
    <2>1. \A k : k # "adv" /\ Live(procs, master.cb, k) => slave.cb # master.cb
      BY <1>5 DEF Live
    <2>2. master.op # "null" \/ master.pre # "null" => slave.cb # master.cb
      BY <1>4, <2>1 DEF Calm, Owned, Masters
    <2> QED  BY <1>1, <1>2, <1>6, <1>7, <2>2 DEF Calm, Owned, Altered
  <1>12. Reported'
    BY <1>1, <1>2, <1>5, <1>6, <1>7 DEF Calm, Reported, Held, InProgress, Altered, Same
  <1>13. Connecting'
    BY <1>1, <1>2, <1>3, <1>5 DEF Calm, Connecting, Unsent, Done, Cancelling
  <1>14. Discovering'
    BY <1>1, <1>2, <1>3, <1>5, <1>9 DEF Calm, Discovering, Unsent, Done, TimerDone
  <1>15. Advertising'
    BY <1>1, <1>2, <1>3, <1>7, <1>8 DEF Calm, Advertising, Unsent, Done, TimerDone
  <1>16. Linked'
    BY <1>1, <1>2, <1>5 DEF Calm, Linked
  <1>17. Timers'
    <2>1. master.exp => procs'[master.cb].timed
      BY <1>6 DEF Calm, Timers, Owned, Live, Altered, Same
    <2> QED  BY <1>1, <1>7, <2>1 DEF Calm, Timers
  <1> QED  BY <1>10, <1>11, <1>12, <1>13, <1>14, <1>15, <1>16, <1>17 DEF Calm

(* The timers.                                                             *)
LEMMA TimerCalm ==
    ASSUME Shape, Calm, MasterTimer \/ SlaveTimer
    PROVE  Calm'
  <1>1. /\ ctx[Host].at = "idle" /\ UNCHANGED <<master, slave, conns, lock, ll, events, lost, procs>>
    BY DEF MasterTimer, SlaveTimer
  <1>2. master \in Masters
    BY DEF Shape, Types, Data
  <1>3. PICK call \in TimerCalls : /\ HostGoto("send", call)
                                   /\ call = "timer_conn" => master.op = "conn" /\ master.exp
                                   /\ call = "timer_disc" => master.op = "disc" /\ master.exp
                                   /\ call = "timer_adv" => slave.op /\ slave.exp
    BY <1>2 DEF MasterTimer, SlaveTimer, Masters, TimerCalls
  <1>4. /\ Hst = ctx[Host] /\ Cur' = Cur /\ Hst'.at = "send" /\ Hst'.call = call
        /\ Hst.at = "idle" /\ Hst.call = "none"
    BY <1>1, <1>3, HostGotoView, HostIdle
  <1>5. Working'
    BY <1>1, <1>3, <1>4 DEF Calm, Working, IsPreempted, TimerCalls
  <1>6. Owned'
    BY <1>1, <1>3, <1>4 DEF Calm, Owned
  <1>7. Reported'
    BY <1>1, <1>4 DEF Calm, Reported, Held, InProgress
  <1>8. Connecting'
    BY <1>1, <1>4 DEF Calm, Connecting, Unsent, Done, Cancelling
  <1>9. Discovering'
    BY <1>1, <1>4 DEF Calm, Discovering, Unsent, Done, TimerDone
  <1>10. Advertising'
    BY <1>1, <1>4 DEF Calm, Advertising, Unsent, Done, TimerDone
  <1>11. Linked' /\ Timers'
    BY <1>1, <1>4 DEF Calm, Linked, Timers
  <1> QED  BY <1>5, <1>6, <1>7, <1>8, <1>9, <1>10, <1>11 DEF Calm

LEMMA TimerAnsweredCalm ==
    ASSUME Shape, Calm, TimerAnswered, ~crossed'
    PROVE  Calm'
  <1>1. /\ ctx[Host].at = "ack" /\ ctx[Host].call \in TimerCalls
        /\ UNCHANGED <<conns, lock, ll, events, lost, procs>>
    BY DEF TimerAnswered, Answered
  <1>2. master \in Masters /\ slave \in Slaves
    BY DEF Shape, Types, Data
  <1>3. ctx[Host].ok \in BOOLEAN /\ AtWork(ctx[Host])
    BY <1>1 DEF Shape, Types, Control, Contexts, Tasks, AtWork
  <1>4. CASE ctx[Host].ok => ctx[Host].call = "timer_conn"
    <2>1. HostGoto("idle", "none") /\ UNCHANGED slave
      BY <1>1, <1>4 DEF TimerAnswered, TimerCalls
    <2>2. /\ master'.op = master.op /\ master'.cb = master.cb /\ master'.pre = master.pre
          /\ master'.exp => master.exp
      BY <1>2 DEF TimerAnswered, Masters
    <2>3. /\ Hst = ctx[Host] /\ Cur' = Cur /\ Hst'.at = "idle" /\ Hst'.call = "none"
      BY <1>1, <1>3, <2>1, HostGotoView
    <2>4. Hst.at = "ack" /\ Hst.call \in TimerCalls /\ (Hst.ok => Hst.call = "timer_conn")
      BY <1>1, <1>4, <2>3
    <2>5. Working'
      BY <1>1, <2>1, <2>2, <2>3, <2>4 DEF Calm, Working, IsPreempted
    <2>6. Owned'
      BY <1>1, <2>1, <2>2, <2>3 DEF Calm, Owned
    <2>7. Reported'
      BY <1>1, <2>1, <2>2, <2>3, <2>4 DEF Calm, Reported, Held, InProgress
    <2>8. Connecting'
      BY <1>1, <2>2, <2>3, <2>4 DEF Calm, Connecting, Unsent, Done, Cancelling
    <2>9. Discovering'
      BY <1>1, <2>2, <2>3, <2>4 DEF Calm, Discovering, Unsent, Done, TimerDone
    <2>10. Advertising'
      BY <1>1, <2>1, <2>3, <2>4 DEF Calm, Advertising, Unsent, Done, TimerDone
    <2>11. Linked' /\ Timers'
      BY <1>1, <2>1, <2>2, <2>3, <2>4 DEF Calm, Linked, Timers
    <2> QED  BY <2>5, <2>6, <2>7, <2>8, <2>9, <2>10, <2>11 DEF Calm
  <1>5. CASE ctx[Host].ok /\ ctx[Host].call = "timer_disc"
    <2>1. HostGoto("extract", "timer_disc") /\ UNCHANGED <<master, slave>>
      BY <1>1, <1>5 DEF TimerAnswered
    <2>2. /\ Hst = ctx[Host] /\ Cur' = Cur /\ Hst'.at = "extract" /\ Hst'.call = "timer_disc"
      BY <1>1, <1>3, <2>1, HostGotoView
    <2>3. Hst.at = "ack" /\ Hst.call = "timer_disc" /\ Hst.ok
      BY <1>1, <1>5, <2>2
    <2>4. Working'
      BY <1>1, <2>1, <2>2, <2>3 DEF Calm, Working, IsPreempted
    <2>5. Owned'
      BY <1>1, <2>1, <2>2, <2>3 DEF Calm, Owned
    <2>6. Reported'
      BY <1>1, <2>1, <2>2, <2>3 DEF Calm, Reported, Held, InProgress
    <2>7. Connecting'
      BY <1>1, <2>1, <2>2, <2>3 DEF Calm, Connecting, Unsent, Done, Cancelling
    <2>8. Discovering'
      BY <1>1, <2>1, <2>2, <2>3 DEF Calm, Discovering, Unsent, Done, TimerDone
    <2>9. Advertising'
      BY <1>1, <2>1, <2>2, <2>3 DEF Calm, Advertising, Unsent, Done, TimerDone
    <2>10. Linked' /\ Timers'
      BY <1>1, <2>1, <2>2, <2>3 DEF Calm, Linked, Timers
    <2> QED  BY <2>4, <2>5, <2>6, <2>7, <2>8, <2>9, <2>10 DEF Calm
  <1>6. CASE ctx[Host].ok /\ ctx[Host].call = "timer_adv"
    <2>1. HostGoto("adv_finished", "none") /\ UNCHANGED master /\ slave' = SlaveReset(slave)
      BY <1>1, <1>6 DEF TimerAnswered
    <2>2. ~Has(events, AdvEnds)
      BY <1>6 DEF TimerAnswered, AdvQueued, Has, AdvEnds
    <2>3. /\ Hst = ctx[Host] /\ Cur' = Cur /\ Hst'.at = "adv_finished" /\ Hst'.call = "none"
      BY <1>1, <1>3, <2>1, HostGotoView
    <2>4. Hst.at = "ack" /\ Hst.call = "timer_adv" /\ Hst.ok
      BY <1>1, <1>6, <2>3
    <2>5. slave.op /\ ~slave.pre /\ ll.adv = "off" /\ Cur.call # "adv"
      BY <2>4 DEF Calm, Owned, Advertising, TimerDone, Working
    <2>6. ~slave'.op /\ ~slave'.exp /\ ~slave'.pre /\ slave'.cb = slave.cb
      BY <1>2, <2>1, <2>5, SlaveReseted
    <2>7. Working'
      BY <1>1, <2>1, <2>3, <2>4, <2>5, <2>6 DEF Calm, Working, IsPreempted
    <2>8. Owned'
      BY <1>1, <2>1, <2>3, <2>4, <2>5, <2>6 DEF Calm, Owned
    <2>9. Reported'
      BY <1>1, <2>1, <2>3, <2>4, <2>6 DEF Calm, Reported, Held, InProgress
    <2>10. Connecting'
      BY <1>1, <2>1, <2>3, <2>4 DEF Calm, Connecting, Unsent, Done, Cancelling
    <2>11. Discovering'
      BY <1>1, <2>1, <2>3, <2>4 DEF Calm, Discovering, Unsent, Done, TimerDone
    <2>12. Advertising'
      BY <1>1, <2>2, <2>3, <2>5, <2>6 DEF Calm, Advertising, Unsent, Done, TimerDone
    <2>13. Linked' /\ Timers'
      BY <1>1, <2>1, <2>3, <2>4, <2>6 DEF Calm, Linked, Timers
    <2> QED  BY <2>7, <2>8, <2>9, <2>10, <2>11, <2>12, <2>13 DEF Calm
  <1> QED  BY <1>1, <1>3, <1>4, <1>5, <1>6 DEF TimerCalls

LEMMA CalmInit ==
    ASSUME Init PROVE Calm
  <1>1. Cur = Idle /\ Hst = Idle
    BY TasksAssumption DEF Init, Cur, Hst, Tasks
  <1>2. /\ master.op = "null" /\ ~master.exp /\ master.pre = "null"
        /\ ~slave.op /\ ~slave.exp /\ ~slave.pre
        /\ ~ll.init /\ ~ll.scan /\ ll.adv = "off" /\ ll.links = 0
    BY DEF Init
  <1>3. DOMAIN events = {} /\ DOMAIN procs = {}
    BY DEF Init
  <1>4. Working /\ Owned
    BY <1>1, <1>2, IdleFields DEF Working, Owned
  <1>5. Reported /\ Timers
    BY <1>2, <1>3 DEF Reported, Told, Timers
  <1>6. Connecting /\ Discovering /\ Advertising
    BY <1>1, <1>2, <1>3, IdleFields
       DEF Connecting, Discovering, Advertising, Once, Has, Unsent, Done, TimerDone, Cancelling
  <1>7. Linked
    BY <1>2 DEF Linked
  <1> QED  BY <1>4, <1>5, <1>6, <1>7 DEF Calm

(* What met once stays met.                                                *)
LEMMA CrossedGrows ==
    ASSUME [Next]_vars, ~crossed'
    PROVE  ~crossed
  <1>1. CASE UNCHANGED vars
    BY <1>1 DEF vars
  <1>2. ASSUME NEW t \in Tasks, Api(t) PROVE ~crossed
    BY <1>2, Zenon DEF Api, Connect, Disc, AdvStart, Cancel, AdvStop, Preempt
  <1>3. ASSUME NEW t \in Tasks, Step(t) PROVE ~crossed
    BY <1>3, Zenon DEF Step, Send, MasterStarted, AdvStarted, ConnCancelled, DiscCancelled,
                       AdvStopped, PreAdv, PreMaster, PreemptDone
  <1>4. CASE HostStep
    BY <1>4, Zenon DEF HostStep, HostRx, RxMaster, RxSlave, RxFault, RxCancelled, RxDirTimeout, Insert,
                       Extract, AdvFinished, MasterTimer, SlaveTimer, TimerAnswered
  <1>5. CASE LlConnected \/ LlDirTimeout
    BY <1>5, Zenon DEF LlConnected, LlDirTimeout
  <1> QED  BY <1>1, <1>2, <1>3, <1>4, <1>5, Zenon DEF Next

LEMMA SteadyStep ==
    ASSUME Shape, Steady, [Next]_vars
    PROVE  Steady'
  <1>1. SUFFICES ASSUME ~crossed' PROVE Calm'
    BY DEF Steady
  <1>2. Calm
    BY <1>1, CrossedGrows DEF Steady
  <1>3. CASE UNCHANGED vars
    <2>1. Cur' = Cur /\ Hst' = Hst /\ UNCHANGED <<master, slave, procs, conns, ll, events, lost>>
      BY <1>3, Undisturbed DEF vars
    <2>2. Connecting' /\ Discovering' /\ Advertising'
      BY <1>2, <2>1 DEF Calm, Connecting, Discovering, Advertising, Unsent, Done, TimerDone, Cancelling
    <2> QED  BY <1>2, <2>1, <2>2, SameWork, Frame DEF Calm
  <1>4. ASSUME NEW t \in Tasks, Api(t) PROVE Calm'
    <2>1. CASE \E timed \in BOOLEAN : Connect(t, timed)
      BY <1>2, <2>1, ConnectCalm
    <2>2. CASE \E timed \in BOOLEAN : Disc(t, timed)
      BY <1>2, <2>2, DiscCalm
    <2>3. CASE \E timed \in BOOLEAN : \E connectable \in BOOLEAN : AdvStart(t, timed, connectable)
      BY <1>1, <1>2, <2>3, AdvStartCalm
    <2>4. CASE Cancel(t) \/ AdvStop(t) \/ Preempt(t)
      BY <1>2, <2>4, CancelCalm
    <2> QED  BY <1>4, <2>1, <2>2, <2>3, <2>4 DEF Api
  <1>5. ASSUME NEW t \in Tasks, Step(t) PROVE Calm'
    <2>1. CASE Send(t) \/ ConnCancelled(t) \/ PreemptDone(t)
      BY <1>2, <2>1, SendCalm, ConnCancelledCalm, PreemptDoneCalm
    <2>2. CASE MasterStarted(t) \/ AdvStarted(t)
      BY <1>1, <1>2, <2>2, MasterStartedCalm, AdvStartedCalm
    <2>3. CASE DiscCancelled(t) \/ AdvStopped(t)
      BY <1>1, <1>2, <2>3, DiscCancelledCalm, AdvStoppedCalm
    <2>4. CASE PreAdv(t) \/ PreMaster(t)
      BY <1>1, <1>2, <2>4, PreAdvCalm, PreMasterCalm
    <2> QED  BY <1>5, <2>1, <2>2, <2>3, <2>4 DEF Step
  <1>6. CASE HostStep
    <2>1. CASE HostRx
      BY <1>2, <2>1, RxMasterCalm, RxSlaveCalm, RxFaultCalm, RxCancelledCalm, RxDirTimeoutCalm
         DEF HostRx
    <2>2. CASE Insert \/ Extract \/ AdvFinished
      BY <1>2, <2>2, InsertCalm, ExtractCalm, AdvFinishedCalm
    <2>3. CASE MasterTimer \/ SlaveTimer \/ TimerAnswered
      BY <1>1, <1>2, <2>3, TimerCalm, TimerAnsweredCalm
    <2> QED  BY <1>6, <2>1, <2>2, <2>3 DEF HostStep
  <1>7. CASE LlConnected \/ LlDirTimeout
    BY <1>2, <1>7, LlCalm
  <1> QED  BY <1>3, <1>4, <1>5, <1>6, <1>7 DEF Next

(* The invariant that the theorems rest on.                                *)
LEMMA SoundAlways == Spec => []Sound
  <1>1. Init => Sound
    BY ShapeInit, CalmInit DEF Sound, Steady
  <1>2. Sound /\ [Next]_vars => Sound'
    BY ShapeStep, SteadyStep DEF Sound
  <1> QED  BY <1>1, <1>2, PTL DEF Spec

-----------------------------------------------------------------------------
(* What it says when nothing is under way.                                 *)

LEMMA RestViews ==
    ASSUME Shape, AtRest
    PROVE  Cur = Idle /\ Hst = Idle /\ DOMAIN events = {}
  <1>1. Host \in Tasks /\ InPlace(Host, ctx[Host], lock, hci) /\ ctx[Host].at \in {"idle", "preempting"}
    BY DEF Shape, Placed, AtRest, Tasks
  <1>2. lock = NoTask
    <2>1. \A t \in Tasks : InPlace(t, ctx[t], lock, hci) /\ ctx[t].at \in {"idle", "preempting"}
      BY DEF Shape, Placed, AtRest
    <2> QED  BY <2>1 DEF Shape, Types, Control, InPlace
  <1>3. Cur = Idle
    BY <1>2 DEF Cur
  <1>4. Hst = Idle
    BY <1>1 DEF Hst, InPlace
  <1> QED  BY <1>3, <1>4 DEF AtRest

LEMMA RestAgrees ==
    ASSUME Shape, Calm, AtRest
    PROVE  /\ conns \cup LostLinks = 1 .. ll.links
           /\ ll.init => master.op = "conn"
           /\ master.op = "conn" => ll.init \/ ConnEndLost
           /\ ll.scan <=> master.op = "disc"
           /\ ll.adv # "off" => slave.op
           /\ slave.op => ll.adv # "off" \/ AdvEndLost
  <1>1. Cur.at = "idle" /\ Cur.call = "none" /\ Hst.at = "idle" /\ Hst.call = "none"
    BY RestViews, IdleFields
  <1>2. /\ \A n : ~HasLink(events, n)
        /\ ~Has(events, ConnEnds) /\ ~Has(events, AdvEnds)
    BY RestViews DEF HasLink, Has
  <1>3. conns \cup LostLinks = 1 .. ll.links
    <2>1. \A n : n \in LostLinks <=> LostLink(lost, n)
      BY DEF LostLinks, LostLink, IsLink
    <2>2. \A n \in 1 .. ll.links : n \in conns \/ LostLink(lost, n)
      BY <1>1, <1>2 DEF Calm, Linked
    <2>3. LostLinks \subseteq Nat
      BY DEF LostLinks, Shape, Types, Data, Events
    <2>4. conns \subseteq 1 .. ll.links /\ \A n \in Nat : LostLink(lost, n) => n \in 1 .. ll.links
      BY DEF Shape, Known
    <2> QED  BY <2>1, <2>2, <2>3, <2>4
  <1>4. (ll.init => master.op = "conn") /\ (master.op = "conn" => ll.init \/ Gone(lost, ConnEnds))
    BY <1>1, <1>2 DEF Calm, Connecting, Cancelling, Unsent
  <1>5. ll.scan <=> master.op = "disc"
    BY <1>1 DEF Calm, Discovering, Unsent, Done, TimerDone
  <1>6. (ll.adv # "off" => slave.op) /\ (slave.op => ll.adv # "off" \/ Gone(lost, AdvEnds))
    BY <1>1, <1>2 DEF Calm, Advertising, Unsent, Done, TimerDone
  <1>7. Gone(lost, ConnEnds) = ConnEndLost /\ Gone(lost, AdvEnds) = AdvEndLost
    BY DEF Gone, ConnEnds, AdvEnds, ConnEndLost, AdvEndLost
  <1> QED  BY <1>3, <1>4, <1>5, <1>6, <1>7

LEMMA RestReported ==
    ASSUME Shape, Calm, NEW i \in DOMAIN procs
    PROVE  /\ ReportedOnce(procs[i])
           /\ AtRest /\ procs[i].stat = "active" /\ procs[i].got = <<>> => InProgress(i)
  <1>1. ReportedOnce(procs[i])
    BY DEF Calm, Reported, Told
  <1>2. ASSUME AtRest, procs[i].stat = "active", procs[i].got = <<>> PROVE InProgress(i)
    <2>1. Hst.at = "idle"
      BY <1>2, RestViews, IdleFields
    <2>2. Waiting(procs, i)
      BY <1>2 DEF Waiting
    <2>3. Held(i)
      BY <2>2 DEF Calm, Reported
    <2> QED  BY <2>1, <2>3 DEF Held
  <1> QED  BY <1>1, <1>2

-----------------------------------------------------------------------------
(* The state of GAP has its types: callbacks are those of procedures that  *)
(* were begun, only the holder of the host lock is in a call of the API    *)
(* (ble_hs_lock), and only the holder of the command channel waits for an  *)
(* answer.                                                                 *)
THEOREM TypeCorrect == Spec => []TypeOK
  <1>1. Sound => TypeOK
    <2>1. SUFFICES ASSUME Shape PROVE TypeOK
      BY DEF Sound
    <2>2. master \in Masters /\ slave \in Slaves /\ Len(procs) \in Nat
      BY <2>1, LenProperties DEF Shape, Types, Data
    <2>3. master.op \in {"null", "conn", "disc"} /\ master.pre \in {"null", "conn", "disc"}
      BY <2>2 DEF Masters
    <2>4. master.cb \in 0 .. Len(procs) /\ slave.cb \in 0 .. Len(procs)
      BY <2>1, <2>2 DEF Masters, Slaves, Shape, Known
    <2>5. ASSUME NEW t \in Tasks
          PROVE  /\ ctx[t].at = "ack" => hci = t
                 /\ ctx[t].at \in {"send", "ack"} => lock = t \/ ctx[t].call \in TimerCalls
      BY <2>1 DEF Shape, Placed, InPlace
    <2> QED  BY <2>1, <2>3, <2>4, <2>5 DEF TypeOK, Shape, Types, Control, Known
  <1> QED  BY <1>1, SoundAlways, PTL

(* Unless a call crossed the end of a procedure on its way to the host     *)
(* task: an armed timer of ble_gap_master or ble_gap_slave belongs to a    *)
(* procedure in progress that was begun with a duration                    *)
(* (ble_gap_master_reset_state, ble_gap_slave_reset_state).                *)
THEOREM TimerOwnedAlways == Spec => []TimerOwned
  <1>1. Sound => TimerOwned
    BY DEF Sound, Steady, Calm, Timers, TimerOwned
  <1> QED  BY <1>1, SoundAlways, PTL

(* Unless a call crossed such an end: a procedure is reported at most      *)
(* once, with an event of its kind, and not at all when its start failed   *)
(* or its application stopped it; none is forgotten by the timers, the     *)
(* events of the controller and ble_gap_preempt_done together.             *)
THEOREM FinalOnceAlways == Spec => []FinalOnce
  <1>1. Sound => FinalOnce
    BY RestReported DEF Sound, Steady, FinalOnce
  <1> QED  BY <1>1, SoundAlways, PTL

(* Unless a call crossed such an end: when no call, event or timeout is    *)
(* under way, ble_gap_master and ble_gap_slave say what the controller     *)
(* does, and the table of connections holds its links; but for the ends    *)
(* and the links whose events were dropped (ble_hs_enqueue_hci_event).     *)
THEOREM AgreementAlways == Spec => []Agreement
  <1>1. Sound => Agreement
    BY RestAgrees DEF Sound, Steady, Agreement
  <1> QED  BY <1>1, SoundAlways, PTL
=============================================================================
