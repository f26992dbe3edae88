-------------------------------- MODULE Gattc -------------------------------
(***************************************************************************)
(* GATT client procedures (ble_gattc.c): the pool and the list of          *)
(* procedures, answers of the peer, timeouts, stalled procedures and       *)
(* broken connections.                                                     *)
(*                                                                         *)
(* Any task starts a procedure: it takes an entry of the pool, sends the   *)
(* first request and only then puts the entry on the list.  The host task  *)
(* alone takes entries off the list.  Three kinds of procedure stand for   *)
(* all: "read" (one request), "long" (follow-up requests, which may stall  *)
(* for want of memory) and "indicate" (confirmed outside of the sequence   *)
(* of requests).                                                           *)
(***************************************************************************)
EXTENDS Naturals, Sequences, SequencesExt, FiniteSets, FiniteSetsExt

CONSTANTS
    Procs,      \* entries of ble_gattc_proc_pool
    Conns,      \* connection handles
    Apps,       \* tasks that start procedures
    NoProc,
    MaxCalls,   \* bound: procedures started
    MaxMore,    \* bound: answers that call for a follow-up request
    MaxNoMem,   \* bound: follow-up requests that find no memory
    MaxLinks    \* bound: connections established

Ops     == {"read", "long", "indicate"}
Calls   == 1 .. MaxCalls
Bounded == {"call", "more", "nomem", "link"}
Entry   == [op : Ops, conn : Conns, call : Calls, stalled : BOOLEAN]

ASSUME ProcsAssumption == NoProc \notin Procs /\ IsFiniteSet(Procs)

(* A free entry is told from one in use.                                   *)
ASSUME NoProcAssumption == NoProc \notin Entry

ASSUME BoundsAssumption ==
    /\ MaxCalls \in Nat /\ MaxMore \in Nat /\ MaxNoMem \in Nat
    /\ MaxLinks \in Nat

VARIABLES
    link,       \* what the host knows of each connection
    proc,       \* contents of the pool's entries
    list,       \* ble_gattc_procs
    resumeAt,   \* ble_gattc_resume_at is set
    task,       \* each task's entry and the call it is for
    host,       \* what the host task is doing
    wire,       \* requests each peer has yet to answer
    conf,       \* how many indications each peer has yet to confirm
    final,      \* how often each call's callback got its last status
    accepted,   \* calls that returned 0
    lost,       \* history: entries that the resumption of stalled ones left behind
    silent,     \* history: calls whose confirmation the server did not expect
    used        \* how often each bounded thing happened

vars == <<link, proc, list, resumeAt, task, host, wire, conf, final, accepted, lost, silent, used>>

Free     == NoProc
Requests == [call : Calls, req : {"read", "blob"}]
TaskIdle == [at |-> "idle", x |-> NoProc]
HostIdle == [at |-> "idle", x |-> NoProc, todo |-> <<>>, c |-> NoProc]

TaskState == [at : {"idle", "tx", "insert"}, x : Procs \cup {NoProc}]
HostState == [at : {"idle", "send", "insert", "resume", "next", "again", "broken", "astray"},
              x : Procs \cup {NoProc}, todo : Seq(Procs), c : Conns \cup {NoProc}]

Init ==
    /\ link = [c \in Conns |-> "down"]
    /\ proc = [x \in Procs |-> Free]
    /\ list = <<>>
    /\ resumeAt = FALSE
    /\ task = [a \in Apps |-> TaskIdle]
    /\ host = HostIdle
    /\ wire = [c \in Conns |-> <<>>]
    /\ conf = [c \in Conns |-> 0]
    /\ final = [n \in Calls |-> 0]
    /\ accepted = {} /\ lost = {} /\ silent = {}
    /\ used = [b \in Bounded |-> 0]

Use(b, max) == used[b] < max /\ used' = [used EXCEPT ![b] = used[b] + 1]

-----------------------------------------------------------------------------
(* The list.                                                               *)

(* ble_gattc_extract: the list is walked from its head, and the entries    *)
(* that match are moved, in their order, to another list.  At(s, I) are    *)
(* the entries at the positions in I.                                      *)
Skipped(I, j) == Cardinality({k \in I : k < j})

At(s, I) == [k \in 1 .. Cardinality(I) |-> s[CHOOSE i \in I : Skipped(I, i) = k - 1]]

Positions(S) == {i \in DOMAIN list : list[i] \in S}

Extracted(S) == At(list, Positions(S))
Without(S)   == At(list, DOMAIN list \ Positions(S))

(* The same with max_procs = 1: the first entry that matches.              *)
First(S) == IF Positions(S) = {} THEN NoProc ELSE list[Min(Positions(S))]

Listed    == Range(list)
OfConn(c) == {x \in Listed : proc[x].conn = c}

Stalled == {x \in Procs : proc[x] # Free /\ proc[x].stalled}

(* The last callback of the procedures in S.                               *)
Finalized(S) ==
    [n \in Calls |-> final[n] + Cardinality({x \in S : proc[x].call = n})]

(* ble_gattc_proc_free.                                                    *)
Freed(S) == [x \in Procs |-> IF x \in S THEN Free ELSE proc[x]]

(* Entries S end: their callbacks are called and they go back to the pool. *)
End(S) ==
    /\ final' = Finalized(S)
    /\ proc' = Freed(S)
    /\ list' = Without(S)

-----------------------------------------------------------------------------
(* A task starts a procedure (ble_gattc_read, _read_long, _disc_all_svcs,  *)
(* ...; ble_gatts_indicate).                                               *)

(* ble_gattc_proc_alloc; with an empty pool the call returns an error.     *)
Alloc(a, op, c) ==
    /\ task[a].at = "idle"
    /\ Use("call", MaxCalls)
    /\ \E x \in Procs : proc[x] = Free
    /\ LET x == CHOOSE y \in Procs : proc[y] = Free
       IN  /\ proc' = [proc EXCEPT ![x] = [op |-> op, conn |-> c, call |-> used'["call"],
                                           stalled |-> FALSE]]
           /\ task' = [task EXCEPT ![a] = [at |-> "tx", x |-> x]]
    /\ UNCHANGED <<link, list, resumeAt, host, wire, conf, final, accepted, lost, silent>>

(* The request is out; its answer may come from now on.  A long read first *)
(* sends a read request and follows it up with blob requests.              *)
Sent(x, req) ==
    LET m == [call |-> proc[x].call, req |-> req]
    IN  /\ wire' = IF proc[x].op = "indicate" THEN wire
                   ELSE [wire EXCEPT ![proc[x].conn] = Append(@, m)]
        /\ conf' = IF proc[x].op = "indicate"
                   THEN [conf EXCEPT ![proc[x].conn] = @ + 1] ELSE conf

Connected(c) == link[c] # "down"

(* A request that cannot be sent (no connection, no memory) ends the call. *)
Tx(a) ==
    /\ task[a].at = "tx"
    /\ LET x == task[a].x
       IN  \/ /\ Connected(proc[x].conn)
              /\ Sent(x, "read")
              /\ task' = [task EXCEPT ![a].at = "insert"]
              /\ UNCHANGED proc
           \/ /\ proc' = Freed({x})
              /\ task' = [task EXCEPT ![a] = TaskIdle]
              /\ UNCHANGED <<wire, conf>>
    /\ UNCHANGED <<link, list, resumeAt, host, final, accepted, lost, silent, used>>

(* ble_gattc_process_status, ble_gattc_proc_insert.                        *)
Insert(a) ==
    /\ task[a].at = "insert"
    /\ list' = Append(list, task[a].x)
    /\ accepted' = accepted \cup {proc[task[a].x].call}
    /\ task' = [task EXCEPT ![a] = TaskIdle]
    /\ UNCHANGED <<link, proc, resumeAt, host, wire, conf, final, lost, silent, used>>

-----------------------------------------------------------------------------
(* The host task handles an answer to the oldest request of a peer.        *)

(* The follow-up request, ble_gattc_process_resume_status: want of memory  *)
(* stalls the procedure and starts the resume timer, unless it runs.       *)
FollowUp(x) ==
    \/ /\ Sent(x, "blob")
       /\ UNCHANGED <<proc, resumeAt, used>>
    \/ /\ Use("nomem", MaxNoMem)
       /\ proc' = [proc EXCEPT ![x].stalled = TRUE]
       /\ resumeAt' = TRUE
       /\ UNCHANGED <<wire, conf>>

(* ble_gattc_rx_read_rsp_entries: procedures a response may belong to.     *)
RxEntries(req) == IF req = "read" THEN {"read", "long"} ELSE {"long"}

Answered(c) == wire' = [wire EXCEPT ![c] = Tail(@)]

Listening(c) == host.at = "idle" /\ link[c] \in {"up", "ending"}

(* No entry on the list matches: the answer is dropped.                    *)
RxDropped(c) ==
    /\ Answered(c)
    /\ UNCHANGED <<link, proc, list, resumeAt, task, host, conf, final, accepted, lost, silent, used>>

(* Mutant: a handler returns 0 instead of BLE_HS_EDONE at the end.         *)
RxEndKeeps(c, x) ==
    /\ Answered(c)
    /\ final' = Finalized({x})
    /\ list' = Append(Without({x}), x)
    /\ UNCHANGED <<link, proc, resumeAt, task, host, conf, accepted, lost, silent, used>>

RxEnd(c, x) ==
    /\ Answered(c)
    /\ End({x})
    /\ UNCHANGED <<link, resumeAt, task, host, conf, accepted, lost, silent, used>>

(* ble_gatts_indicate_err, ble_gatts_indicate_rx_rsp: the server does not  *)
(* expect a confirmation of this characteristic (ble_gatts_rx_indicate_ack *)
(* fails), and the procedure goes without a word.  Gatts says when.        *)
EndSilently(x) ==
    /\ proc[x].op = "indicate"
    /\ proc' = Freed({x}) /\ list' = Without({x})
    /\ silent' = silent \cup {proc[x].call}
    /\ UNCHANGED final

RspFor(c) == First({x \in OfConn(c) : proc[x].op \in RxEntries(Head(wire[c]).req)})

(* A response that ends the procedure it is taken for.                     *)
RxRsp(c) ==
    /\ Listening(c) /\ wire[c] # <<>>
    /\ IF RspFor(c) = NoProc THEN RxDropped(c) ELSE RxEnd(c, RspFor(c))

(* A full response makes a long procedure ask for more.                    *)
RxMore(c) ==
    /\ Listening(c) /\ wire[c] # <<>>
    /\ used["more"] < MaxMore
    /\ LET x == RspFor(c)
       IN  /\ x # NoProc /\ proc[x].op = "long"
           /\ list' = Without({x})
           /\ host' = [HostIdle EXCEPT !.at = "send", !.x = x]
    /\ Answered(c)
    /\ used' = [used EXCEPT !["more"] = @ + 1]
    /\ UNCHANGED <<link, proc, resumeAt, task, conf, final, accepted, lost, silent>>

RxSend ==
    /\ host.at = "send"
    /\ FollowUp(host.x)
    /\ host' = [host EXCEPT !.at = "insert"]
    /\ UNCHANGED <<link, list, task, final, accepted, lost, silent>>

(* Mutant: a procedure that stalled is not put back.                       *)
RxInsertUnlessStalled ==
    /\ host.at = "insert"
    /\ list' = IF proc[host.x].stalled THEN list ELSE Append(list, host.x)
    /\ host' = HostIdle
    /\ UNCHANGED <<link, proc, resumeAt, task, wire, conf, final, accepted, lost, silent, used>>

(* ble_gattc_process_status.                                               *)
RxInsert ==
    /\ host.at = "insert"
    /\ list' = Append(list, host.x)
    /\ host' = HostIdle
    /\ UNCHANGED <<link, proc, resumeAt, task, wire, conf, final, accepted, lost, silent, used>>

(* ble_gattc_rx_err: the first entry of the connection, whatever it does,  *)
(* an indication that no error can be meant for included.                  *)
ErrFor(c) == First(OfConn(c))

RxErr(c) ==
    /\ Listening(c) /\ wire[c] # <<>>
    /\ \/ ErrFor(c) = NoProc /\ RxDropped(c)
       \/ ErrFor(c) # NoProc /\ RxEnd(c, ErrFor(c))
       \/ /\ ErrFor(c) # NoProc /\ EndSilently(ErrFor(c))
          /\ Answered(c)
          /\ UNCHANGED <<link, resumeAt, task, host, conf, accepted, lost, used>>

(* ble_gatts_rx_indicate_rsp.                                              *)
RxIndicateRsp(c) ==
    /\ Listening(c) /\ conf[c] > 0
    /\ conf' = [conf EXCEPT ![c] = @ - 1]
    /\ LET x == First({y \in OfConn(c) : proc[y].op = "indicate"})
       IN  \/ x = NoProc /\ UNCHANGED <<proc, list, final, silent>>
           \/ x # NoProc /\ End({x}) /\ UNCHANGED silent
           \/ x # NoProc /\ EndSilently(x)
    /\ UNCHANGED <<link, resumeAt, task, host, wire, accepted, lost, used>>

-----------------------------------------------------------------------------
(* ble_gattc_timer.                                                        *)

(* The entries S have expired: their callbacks get BLE_HS_ETIMEOUT and     *)
(* their connections are terminated.                                       *)
Expire(S) ==
    /\ host.at = "idle" /\ S # {} /\ S \subseteq Listed
    /\ End(S)
    /\ link' = [c \in Conns |-> IF link[c] = "up" /\ \E x \in S : proc[x].conn = c
                                THEN "ending" ELSE link[c]]
    /\ UNCHANGED <<resumeAt, task, host, wire, conf, accepted, lost, silent, used>>

(* ble_gattc_resume_procs: the stalled entries are moved to a local list.  *)
ResumeStart ==
    /\ host.at = "idle" /\ resumeAt
    /\ resumeAt' = FALSE
    /\ list' = Without(Stalled)
    /\ LET todo == Extracted(Stalled)
       IN  host' = IF todo = <<>> THEN HostIdle
                   ELSE [HostIdle EXCEPT !.at = "resume", !.x = Head(todo), !.todo = Tail(todo)]
    /\ UNCHANGED <<link, proc, task, wire, conf, final, accepted, lost, silent, used>>

Resume ==
    /\ host.at = "resume"
    /\ LET x == host.x
       IN  \/ /\ Sent(x, "blob")
              /\ proc' = [proc EXCEPT ![x].stalled = FALSE]
              /\ UNCHANGED <<resumeAt, used>>
           \/ /\ Use("nomem", MaxNoMem)
              /\ resumeAt' = TRUE
              /\ UNCHANGED <<proc, wire, conf>>
    /\ list' = Append(list, host.x)
    /\ host' = [host EXCEPT !.at = "next"]
    /\ UNCHANGED <<link, task, final, accepted, lost, silent>>

(* STAILQ_FOREACH goes on with the link of the entry that was put back on  *)
(* the list: the rest of the local list is out of reach, and an entry that *)
(* a task has added in between is taken for a stalled one.                 *)
Follower(x) == list[Min(Positions({x})) + 1]

ResumeNext ==
    /\ host.at = "next"
    /\ lost' = lost \cup Range(host.todo)
    /\ host' = IF Last(list) = host.x THEN HostIdle
               ELSE [HostIdle EXCEPT !.at = "again", !.x = Follower(host.x)]
    /\ UNCHANGED <<link, proc, list, resumeAt, task, wire, conf, final, accepted, silent, used>>

(* The entry taken for a stalled one is resumed while it is on the list:   *)
(* sent again and put on the list again, or ended and its entry freed      *)
(* where it is; a procedure that cannot stall has no function to resume    *)
(* it, and NULL is called.  From here on the list is a ring, or cut, or    *)
(* the program has crashed: the host task is "astray", and nothing more is *)
(* said of it.                                                             *)
ResumeAgain ==
    /\ host.at = "again"
    /\ LET x == host.x
       IN  \/ /\ proc[x].op = "long" /\ Connected(proc[x].conn) /\ Sent(x, "read")
              /\ list' = Append(list, x)
              /\ UNCHANGED <<proc, resumeAt, final, used>>
           \/ /\ proc[x].op = "long" /\ Use("nomem", MaxNoMem)
              /\ proc' = [proc EXCEPT ![x].stalled = TRUE]
              /\ resumeAt' = TRUE /\ list' = Append(list, x)
              /\ UNCHANGED <<wire, conf, final>>
           \/ /\ proc[x].op = "long" /\ ~Connected(proc[x].conn)
              /\ final' = Finalized({x}) /\ proc' = Freed({x})
              /\ UNCHANGED <<list, resumeAt, wire, conf, used>>
           \/ /\ proc[x].op # "long"
              /\ UNCHANGED <<proc, list, resumeAt, wire, conf, final, used>>
    /\ host' = [HostIdle EXCEPT !.at = "astray"]
    /\ UNCHANGED <<link, task, accepted, lost, silent>>

-----------------------------------------------------------------------------
(* Connections.                                                            *)

Connect(c) ==
    /\ host.at = "idle" /\ link[c] = "down"
    /\ Use("link", MaxLinks)
    /\ link' = [link EXCEPT ![c] = "up"]
    /\ UNCHANGED <<proc, list, resumeAt, task, host, wire, conf, final, accepted, lost, silent>>

(* Mutant: the procedures of a broken connection are not told.             *)
ConnectionBrokenSilently(c) ==
    /\ Listening(c)
    /\ LET S == OfConn(c)
       IN  proc' = Freed(S) /\ list' = Without(S)
    /\ link' = [link EXCEPT ![c] = "broken"]
    /\ host' = [HostIdle EXCEPT !.at = "broken", !.c = c]
    /\ UNCHANGED <<resumeAt, task, wire, conf, final, accepted, lost, silent, used>>

(* ble_gattc_connection_broken, ble_gattc_fail_procs.                      *)
ConnectionBroken(c) ==
    /\ Listening(c)
    /\ End(OfConn(c))
    /\ link' = [link EXCEPT ![c] = "broken"]
    /\ host' = [HostIdle EXCEPT !.at = "broken", !.c = c]
    /\ UNCHANGED <<resumeAt, task, wire, conf, accepted, lost, silent, used>>

(* The connection goes a little later (ble_gap_conn_broken).               *)
ConnDelete ==
    /\ host.at = "broken"
    /\ link' = [link EXCEPT ![host.c] = "down"]
    /\ wire' = [wire EXCEPT ![host.c] = <<>>]
    /\ conf' = [conf EXCEPT ![host.c] = 0]
    /\ host' = HostIdle
    /\ UNCHANGED <<proc, list, resumeAt, task, final, accepted, lost, silent, used>>

-----------------------------------------------------------------------------
TaskStep(a) == Tx(a) \/ Insert(a)

HostStep ==
    \/ RxSend \/ RxInsert \/ ConnDelete
    \/ ResumeStart \/ Resume \/ ResumeNext \/ ResumeAgain

Next ==
    \/ \E a \in Apps : TaskStep(a) \/ \E op \in Ops, c \in Conns : Alloc(a, op, c)
    \/ HostStep
    \/ \E S \in SUBSET Listed : Expire(S)
    \/ \E c \in Conns :
         \/ RxRsp(c) \/ RxMore(c) \/ RxErr(c) \/ RxIndicateRsp(c)
         \/ Connect(c) \/ ConnectionBroken(c)

Spec == Init /\ [][Next]_vars

(* The tasks run, and the timer, rescheduled at every insertion, finds an  *)
(* entry that stays on the list expired some day.                          *)
FairSpec ==
    /\ Spec
    /\ WF_vars(HostStep)
    /\ \A a \in Apps : WF_vars(TaskStep(a))
    /\ \A x \in Procs : SF_vars(\E S \in SUBSET Listed : x \in S /\ Expire(S))

-----------------------------------------------------------------------------
(* Properties.                                                             *)

TypeOK ==
    /\ link \in [Conns -> {"down", "up", "ending", "broken"}]
    /\ proc \in [Procs -> Entry \cup {Free}]
    /\ list \in Seq(Procs)
    /\ resumeAt \in BOOLEAN
    /\ task \in [Apps -> TaskState]
    /\ host \in HostState
    /\ wire \in [Conns -> Seq(Requests)]
    /\ conf \in [Conns -> Nat]
    /\ final \in [Calls -> Nat]
    /\ accepted \subseteq Calls /\ lost \subseteq Procs /\ silent \subseteq Calls
    /\ used \in [Bounded -> Nat]

(* A procedure is told its end at most once, and a call that returned an   *)
(* error never, although answers, errors, timeouts and broken connections  *)
(* race for it and its entry may serve another call.                       *)
FinalOnce ==
    \A n \in Calls : /\ final[n] <= 1
                     /\ final[n] = 1 => n \in accepted
                                         /\ ~\E x \in Procs : proc[x] # Free /\ proc[x].call = n

(* Every entry in use is on the list, in somebody's hands, or one of those *)
(* that ble_gattc_resume_procs is known to leave behind when several had   *)
(* stalled: none is lost in any other way.  The list holds no entry twice  *)
(* and none that is free or that a task is about to insert                 *)
(* (ble_gattc_dbg_assert_proc_not_inserted), until that same loop resumes  *)
(* an entry that had not stalled ("astray"), which it puts on the list a   *)
(* second time: the code breaks this assertion then, and only then.        *)
NoProcLost ==
    host.at # "astray" =>
        /\ IsInjective(list) /\ \A x \in Listed : proc[x] # Free
        /\ \A a \in Apps : task[a].at # "idle" => task[a].x \notin Listed
        /\ \A x \in Procs :
             proc[x] # Free => \/ x \in Listed \/ x \in lost
                               \/ \E a \in Apps : task[a].at # "idle" /\ task[a].x = x
                               \/ host.x = x \/ x \in Range(host.todo)

(* The entry of a call was left behind.                                    *)
LeftBehind(n) == \E x \in lost : proc[x] # Free /\ proc[x].call = n

(* A procedure that a task started ends: an answer, an error, a timeout or *)
(* the end of its connection reaches its callback, also if it stalled or   *)
(* was put on the list after its answer had come or its connection gone.   *)
(* Not so in three cases: an indication whose confirmation the server did  *)
(* not expect ends without a word; a procedure left behind by              *)
(* ble_gattc_resume_procs stays in its entry for ever; and no one is told  *)
(* anything once the host task is astray.  (accepted only grows.)          *)
ProceduresEnd ==
    \A n \in Calls :
        []<>(n \in accepted => \/ final[n] > 0 \/ n \in silent
                               \/ LeftBehind(n) \/ host.at = "astray")
=============================================================================
