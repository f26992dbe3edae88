# BLETEETH (PAN107x BLE SDK) in TLA+

The repository is the SDK of a Bluetooth LE chip: a NimBLE 1.5 host on FreeRTOS,
with a controller in a binary library, a flash key-value store, a bond database
on top of it, a bootloader, firmware update and many samples. This project
models the parts whose correctness depends on orders of events that tests hardly
reach: power failing between two flash operations, and tasks and interrupts that
meet in the middle of an operation.

Below, `kv/` is `src/nimble/host/kv_store/`, `host/` is
`src/nimble/host/nimble/nimble/host/src/` and `store/` is
`src/nimble/host/nimble/nimble/host/store/config/src/`.

## Inventory

| Component | State | Operations | What is hard | What makes it correct |
|---|---|---|---|---|
| Key-value store (`kv/mtb_kvstore.c`) | two flash areas with versions, a log of records, a RAM table sorted by hash, consumed size, end of the log | init, write, delete, reset, ensure_capacity, read | power failing at any page program or sector erase, garbage collection, recovery, version wrap, hash collisions, a full area | each call happens once or not at all; the area in use is the one a boot mounts; only erased pages are programmed; lookups and accounting agree with flash |
| Flash driver (`pan_fmc.c`) | flash sectors | erase of a range, read, program | block erases of three sizes, alignment shifted by the info sector | exactly the range is erased, once |
| Bond store (`host/ble_store*.c`, `store/`) | three lists in RAM, each with one key per element and a count key in the key-value store | write, delete, iterate, overflow handling, load | several writes per operation, several operations per job, tasks, failed writes | bonds survive power failures; success means durable; forgotten peers stay forgotten; a full store makes room |
| HCI command channel (`host/ble_hs_hci.c`, `ble_hs_hci_cmd.c`), synchronization (`ble_hs.c`, `ble_hs_startup.c`) | mutex, semaphore, one answer slot, sync state, host events | cmd_tx, answer reception in the interrupt, startup, reset, timer | late, lost and refused answers, preemption between check and use | answers reach their command; startup is not disturbed; the mutex is released; the host gets synced again |
| Glue and NPL port (`nimble_glue_spark.c`, `npl_os_freertos.c`) | buffer pools, event queue | delivery of commands, events and data | empty pools, an uninitialized result | as part of the above |
| Host lifecycle (`host/ble_hs_stop.c`, `ble_hs_start`) | enabled state, stop listeners, connection count, stop timer | start, stop, disconnection, timeout | disconnections that race the stop, its timeout, a second stop | every listener is told; the count matches the connections; no lost event hangs the stop |
| ACL transmission (`host/ble_hs_hci.c`, `ble_l2cap.c`, `ble_hs_conn.c`, `ble_hs.c`) | controller credits, a queue per connection, outstanding counts, TX_FRAG | transmit, wake-up, completion, disconnection, reset | lost and stray completions, disconnection with packets outstanding, sending between two locked sections | credits are conserved, buffers not overrun, packets whole and in order, queues drain |
| GATT server (`host/ble_gatts.c`) | subscriptions per connection, CCCD records, the outstanding indication | chr_updated, CCCD write, notify, indicate, confirm, bond, restore | read-modify-write of records outside the lock, connections that break before the confirmation | one indication at a time; subscriptions and unsent changes survive; updates are sent |
| GATT client (`host/ble_gattc.c`) | pool and list of procedures, resume timer | start, answer, error, timeout, stall and resume, broken connection | an answer before the entry is on the list, timeouts racing answers | each procedure ends and is told once |
| GAP (`host/ble_gap.c`) | master and slave procedure, timers, preemption flags, table of connections | connect, discover, advertise, cancel, preempt, timers, connection events | the host task reads the state without the lock; the end of a procedure crosses its cancellation | each procedure is reported once; host and controller agree; preemption ends |
| Security manager, ATT, other L2CAP | procedures, channels, timers | the protocols | timeouts racing responses | each procedure ends exactly once |
| Bootloader, firmware update (`mcu_boot/`, `smp_bt/`) | image slots, flags | boot choice, copy, upload | power failure while copying | a valid image can always be booted |
| Controller library, FreeRTOS, mesh, drivers, samples | | | | not this project's subject |

The layers call downwards: GATT, SM and GAP store bonds through `ble_store_*`,
which persists its lists with `app_kv_write`, which appends to the log in flash.
All layers send commands to the controller with `ble_hs_hci_cmd_tx`; the
controller answers through the glue from its interrupt handler. Tasks share the
host lock, the command mutex and the store's mutex; the host task serves one
event queue.

`PROJECT.json` lists the hazards at their lines, with the properties that watch
them.

## Modules

| Module | Models | Checked by |
|---|---|---|
| `KVMap` | what the store promises: a durable map | refined by `KVStore` (`DurableMap`) |
| `KVStore`, `MCKVStore` | `mtb_kvstore.c` and the block device of `mtb_init.c` | `KVStore*.cfg` |
| `KVStoreProofs` | `KVStore` implements `KVMap`; areas, erased pages, lookups, accounting, the end of every operation; the driver under it, `FmcErase` | tlapm |
| `BondStoreProofs`, `AclTxProofs`, `HostStopProofs`, `GattsProofs`, `GattcProofs`, `GapProofs` | the theorems about these modules | tlapm |
| `FmcErase` | `FMC_EraseCodeArea` | `FmcErase.cfg` |
| `BondStore` | `ble_store.c`, `ble_store_util.c`, `ble_store_config.c`, `ble_store_config_conf.c`, the bonding and unpairing of `ble_sm.c` and `ble_gap.c`, the CCCD writes of `ble_gatts.c` | `BondStore.cfg` |
| `HciCmd`, `MCHciCmd` | the command channel, the startup sequence and the host's resets | `HciCmd*.cfg` |
| `HciCmdProofs` | the theorems about the channel | tlapm |
| `AclTx` | `ble_l2cap_tx`, `ble_hs_hci_acl_tx`, `ble_hs_wakeup_tx`, the completion, connection and disconnection events, reset | `AclTx.cfg` |
| `HostStop` | `ble_hs_stop.c`, `ble_hs_start`, termination by the application | `HostStop.cfg` |
| `Gatts`, `MCGatts` | updates, subscriptions, notifications and indications of `ble_gatts.c` | `Gatts.cfg` |
| `Gattc` | the procedures of `ble_gattc.c` | `Gattc.cfg` |
| `Gap` | connecting, discovering, advertising and preemption in `ble_gap.c` | `Gap.cfg` |

The modules build on each other: `BondStore` uses the key-value store as a map
whose single writes are atomic and durable, which is what `DurableMap` shows of
`KVStore`; `KVStore` uses flash erasure as an operation on whole sectors, which
is what `FmcErase` shows of the driver. `Gap` and `HostStop` use a command as two
steps, sent and answered, by the holder of the command channel, which is what
`HciCmd` shows of `ble_hs_hci_cmd_tx`. `Gatts` uses the store's CCCD operations as
single steps, since each holds the host lock.

### KVStore

One action is one flash operation with the RAM updates after it. A cell of an
area stands for a program page and says what `_mtb_kvstore_read_record` would
find there; CRC, magic and sizes are abstracted to that outcome. A power failure
may come before, after or in the middle of a page program; a torn page reads as
corrupt ("bad") or, if its size field was not written, as unreadable
("unsized"). `SetupFails` .. `ScanCorrupt` are `mtb_kvstore_init`;
`DeleteMissing` .. `EnsureStart` are the calls up to their first flash
operation; the `Gc` actions are `_mtb_kvstore_garbage_collection`, with the
update or delete it carries out itself. Program and erase operations do not fail:
the driver under `mtb_init.c` drops its results. A caller that does not get the
mutex within 50 ms returns without effect, a stuttering step. Growing the RAM
table (`_mtb_kvstore_increment_max_keys`) is assumed to succeed.
`mtb_kvstore_ensure_capacity` takes no mutex, and nothing in the repository calls it:
`InvokeEnsure` is a call made while no other is under way, which its caller would have
to see to.

The refinement maps the contents a boot would recover at this instant
(`Recoverable`) to the abstract map. That makes the flash operation at which a
call takes effect visible: the last page of an appended record, or the header of
the area that garbage collection filled.

### BondStore

The state is the three RAM lists, their keys in the store, the host lock while a
list is persisted, and what each task is doing. The lock is released between the
operations of a job (`ble_store_write` and its retry, the deletions of
`ble_store_util_delete_peer`), so the tasks interleave there, and power can fail
between any two writes. A write of the key-value store can fail (the 50 ms
timeout, a full store): `PersistFails` for an element, the second alternative of
`PersistNum` for the count, whose result the code drops. Records are
distinguished by peer, by key or handle, and by one data value; the hexadecimal
serialization is left out, since loading only depends on the key being there. The
replacement of a peer's address in its CCCDs (`ble_store_iterate_replace_cccd`)
is not modelled yet.

### HciCmd

Each task's program counter follows `ble_hs_hci_cmd_tx`: `Lock`, `CheckSync`,
`Transmit`, `Pend` or `Timeout`, `ProcessAck`, `Done`. `LlAnswer` is the
controller's interrupt, one step, since no task runs during it; it can come
between any two steps of the tasks. A refused command is answered with an error status,
too few parameters or too many (`Refusals`), which the host treats in three ways. The slot and the queue remember for which
command an answer is (`for`); the code has only opcodes, and the model's actions
only use those. Debug assertions are compiled out (`BLE_HS_DEBUG` is 0) and
restrict nothing. The commands of `ble_hs_startup_go` are a sequence of opcodes
with the last one, the random IRK, allowed to fail. `events` holds what is queued
or armed for the host task; the order among these three events is left open.
Faults are counted against `Budget`.

### AclTx

A packet is a number of fragments, of which `done` were handed over; each takes
one of the controller's buffers. `Outcomes` is the loop of `ble_hs_hci_acl_tx_now`
(how far it gets and how it ends), `NoFrag` and `NoMem` are the same loop when it
runs out of mbufs; `HandOver` is its effect. `Queue` and `Transmit` are the two
branches of `ble_hs_hci_acl_tx`, by any task under the host lock. The host task
handles an event in several locked sections, so `DisconnComplete` (credits come
back) and `ConnBroken` (the connection goes, the queues are served) are two steps,
and a wake-up walks the connections one packet at a time with the lock held. The
controller is external: it holds fragments, reports completions in any portions,
and breaks links; events reach the host in order. A fault of each kind in `Faults`
can happen once (`MaxFaults` kinds in a behaviour). `wire`, `gone` and `honest` are history. The width of
`ble_hs_hci_avail_pkts` is not modelled: the controller of this chip has a handful
of buffers.

### HostStop

`pc` follows a task through `ble_hs_stop`: `StopBegin`, `StopRegister`,
`StopTerminate`, `StopDecide`, `StopArm` or `StopFinish`; only the first and third hold the
lock, so the host task can count the last connection down, and finish the stop, before
`StopArm` arms the timer: it then expires with nothing to stop, or in a later stop.
The counter wraps at `CntMod` (256 in the code). The host task handles disconnections
(`DisconnectEvent`, then `LastDisconnect`) and the timeout. A timer that fired has
put its event into the queue, where stopping the timer does not reach it. `counted`
and `exact` are history: which connections the counter stands for, and whether
anything has put it off.

### Gatts

A subscription is a set of kinds; `mod` is `BLE_GATTS_CLT_CFG_F_MODIFIED`, `changed`
the stored `value_changed`. `ChrUpdated`, `ChrRead` and `ChrWrite` are the sections of
`ble_gatts_chr_updated`, run by an application; the rest is the host task. `ind` is
`indicate_val_handle`, `procs` the indicate procedures on `ble_gattc_procs`, `unconf` what the
peer has yet to confirm. A procedure ends in one of three ways: `IndicateRxRsp` (the
confirmation), `IndicateErr` (an ATT error, which `ble_gattc_rx_err` hands to the first
procedure listed whatever request it answers, and which is "treated like a confirmation") and
`IndicateTmo` (the connection is terminated). The first two run `RxIndicateAck`, which may not
expect them; `AckStore` and `SendNextIndicate` follow if it did.

`disturbed` remembers that a record was written back after it, or the value, had
changed since it was read: the code gives no guarantee then. `hasty` counts the errors taken
for confirmations of indications that the peer has still to confirm. `owed`, `missed` and
`fate` are what the properties compare the store and the connection with: `missed` lasts until
the peer was notified or its confirmation received, and `fate` says whether the last update is
pending, sent, or dropped: by a CCCD rewrite, which overwrites the MODIFIED flag and stores
`value_changed` as 0 (`ble_gatts.c:715`), for want of memory (`SendFails`), or by an error.
The store does not fail here; `BondStore` is about that.

Left out: `ble_gatts_indicate_custom` called by an application. It does not look whether an
indication is outstanding (its assertion, `ble_gattc.c:4377`, is compiled out), so an
application that uses it beside `ble_gatts_chr_updated` can have two.

### Gattc

A task takes an entry of the pool (`Alloc`), sends (`Tx`) and only then puts it on the
list (`Insert`); the host task takes it off for an answer (`RxRsp`, `RxMore`), an
error (`RxErr`), a timeout (`Expire`) or the end of its connection. A read, a long
read and an indication stand for all procedures: one request, follow-up requests that
may stall, and an answer outside of the sequence of requests. What the responses mean
is left out. `EndSilently` is the early return of `ble_gatts_indicate_err` and
`ble_gatts_indicate_rx_rsp`: if `ble_gatts_rx_indicate_ack` did not expect the confirmation, the
procedure is freed and nobody told. `Gatts` says when that happens; here it may always.

`Resume`, `ResumeNext` and `ResumeAgain` follow `ble_gattc_resume_procs` to the letter. Its
`STAILQ_FOREACH` takes the link of an entry that was put back on the main list meanwhile:
the rest of the local list is left behind (`lost`), and if a task has appended an entry after
that one, this entry is resumed next although it is listed. It is then sent and inserted again,
ended where it is, or has no function to resume it. From there on the list is a ring or
cut, or the program has crashed: `host.at = "astray"`, in which the host task takes no more
steps. Procedures started from a callback inside the host task, and errors other than
memory when resuming a stalled entry, are left out.

### Gap

`master` and `slave` are the two structures of `ble_gap.c` for a build without
extended advertising. A call holds the host lock from `Connect`, `Disc`, `AdvStart`,
`Cancel`, `AdvStop` or `Preempt` over its command (`Send`) to its answer
(`MasterStarted` .. `PreMaster`); the host task reads the state without the lock and
takes it only to insert a connection (`Insert`) or to extract the callback (`Extract`,
`AdvFinished`), and its timers send their command without it. `procs` records each
procedure begun and the final events its callback got; `lost` holds the events that
`ble_hs_enqueue_hci_event` dropped for want of a pool entry (`Emit`). `RxFault` is a connection
for which `ble_hs_conn_alloc` has no room, because connecting and connectable advertising
began with the same one free: the code writes through NULL (`ble_gap.c:1881`), and the host
task takes no more steps. `crossed` remembers that a call
or a timeout met the end of a procedure that was already on its way, the windows
listed under "Deviations", after which the code gives no guarantee. Parameter
validation appears as the calls that are not made; calls without any effect are left
out.

## Runs

| Run | Expected | Shows |
|---|---|---|
| `kvstore` | pass | the store implements `KVMap` under two power failures; no used page is programmed; the active area is found again; lookups (with colliding hashes) and accounting agree with flash |
| `kvstore_live` | pass | boots end in service, requests return |
| `kvstore_torn` | violation | a torn page without size makes every boot fail |
| `fmc_erase` | pass | every range of a 50-sector code area is erased exactly |
| `bond_store` | pass | two tasks, a power failure and a failed write: bonds survive, success means durable, an undisturbed unpairing lasts, jobs end |
| `hci_cmd` | pass | three tasks with a lost and a refused answer and a hardware error |
| `hci_cmd_faults` | pass | with late answers and garbage results, commands still return |
| `acl_tx` | pass | credits conserved, buffers not overrun, packets whole and in order on each link, queues drain, while links break, faults happen and the host resets |
| `host_stop` | pass | two tasks stop and restart: listeners are told, a timer guards every wait, the count is exact until put off |
| `gatts` | pass | one indication at a time, plus one for each error taken for a confirmation; subscriptions and unconfirmed changes are in the store; updates are sent unless dropped |
| `gattc` | pass | procedures are told their end once, and end unless the code leaves them behind; an entry is lost, or listed twice, in no other way |
| `gap` | pass | procedures are reported once and none is forgotten; host and controller agree on procedures and links; timers and preemption end unless the event they rest on was dropped |

The violation is listed as a finding in `PROJECT.json`, with the line of the
repository it contradicts.

### Deviations without a run

These disagreements between the code and its comments, documentation or assertions
were found with the same modules. Where constants are named, changing them in the
run's cfg and checking the property alone shows the counterexample; where a property
excludes the case by a history variable, dropping that guard does.

- Key-value store: the version's wrap-around in area 2 brings back the stale area 1
  (`MountsActiveArea` with `VersionMod = 4`; `mtb_kvstore.c:1459`, "or 0 in case of wrap
  around", handles area 1 only).
- Bond store: when the write of the count fails, `ble_gap_unpair` reports success and
  the peer is back after a reboot (`UnpairForgets` without `failures' = 0`;
  `ble_store_util.c:99`). A power failure, or another task, between the two deletions
  of a bond leaves a peer record that the overflow handler never finds
  (`OverflowMakesRoom` with `MaxBonds = 1`; `ble_store_util.c:219`).
- Command channel: after one late answer every further startup can fail (`Resyncs`
  with a late answer in `Budget`; `ble_hs.h:259`). `ble_transport_to_ll_cmd_impl` returns
  a variable it never assigns. The assertion on the answer slot is outside the mutex.
- ACL: credits spent on a link between the return of its credits and its removal are
  lost (`gone`); a disconnection event with an error status returns credits of a link
  that lives on (`honest`); a packet that finds no mbuf waits for the next completion,
  which may never come; a connection event handled after a reset leaves a connection
  the controller does not know (`Zombies`). The comment of `ble_hs_wakeup_tx` that a
  partly transmitted packet "has to be serviced first" binds the wake-up only: another
  task may use the credits for a second connection.
- Host stop: the stop completes while connections it counts are up, when another
  disconnection is counted instead (`CompletesWhenGone`; `ble_hs_stop.c:146`, "If there
  are no connections, signals completion of the stop procedure"). A timeout event
  already queued turns a restarted host off. `ble_hs_stop.h` promises `BLE_HS_EBUSY` for
  a second stop; the code registers the listener and returns 0.
- GATT server: `ble_gatts_chr_updated` can write to a connection whose entries are freed
  (`EntriesPresent`; assertion at `ble_gatts.c:1517`), a pending indication can be sent to
  a peer that has unsubscribed (`IndicatesSubscribed`; assertion at `ble_gatts.c:1378`),
  and its write-back can undo a concurrent change (`disturbed`). It looks the connection
  up by the search key's "any" address (`ble_gatts.c:1549`), so it always persists. An error
  to any request of the client side frees the slot of an indication that is not confirmed, and
  the next goes out (`OneIndication` without `hasty`; `ble_gatts.c:1332`, "Only one outstanding
  indication per peer is allowed"). `ble_gatts_send_next_indicate` indicates whatever
  characteristic is modified; when that permits notifications only, `ble_gatts_rx_indicate_ack`
  refuses the confirmation (`ble_gatts.c:1426`) and the connection sends no indication any more
  (`UpdatesSent` without `Jammed`). A CCCD rewrite drops an update that was not sent or not
  confirmed (`ChangesKept` and `UpdatesSent` without `"dropped"`), and after a failure of
  `ble_gatts_send_next_indicate` nobody sends the peer's next one.
- GATT client: with two stalled procedures the second is left behind, because
  `ble_gattc_resume_procs` iterates over a list whose entries are moved to another, and no
  timeout finds it (`NoProcLost` and `ProceduresEnd` without `lost`; `ble_gattc.c:786`, "marked as
  stalled but still in progress"). An entry that is added while that loop runs is inserted twice
  (`NoProcLost` without `"astray"`; the assertion at `ble_gattc.c:734`). An indication whose
  confirmation or error the server does not expect ends without a word (`ProceduresEnd` without
  `silent`; `ble_gattc.c:4261` and `4298`). An answer that comes before the entry is on the list is
  dropped; the procedure then times out and ends its connection.
- GAP (`crossed`): a link established just before advertising times out or is stopped
  is ignored and never terminated (`ble_gap.h:1121` warns of the second case); a
  discovery timeout that meets `ble_gap_disc_cancel` and a new `ble_gap_connect` reports
  the end of discovery to the new procedure and wipes it (`ble_gap.h:1705`: "a new
  discovery or connect procedure can be initiated immediately"); an advertising timeout
  that meets a new `ble_gap_adv_start` wipes it; a procedure that ends before its own
  call arms the timer leaves an armed timer to the next. When the pool of events is empty
  an event is dropped (`ble_hs.c:568`): a connection attempt whose end is lost stays in progress
  for ever, its timer being disarmed when the cancel is acked (`ProcsEnd`, `PreemptionEnds` and
  `Agreement` without `ConnEndLost`; the XXX comment at `ble_gap.c:2035`), and a lost link is
  never known to the host (`LostLinks`). Connecting and advertising that began with one connection
  free can both succeed (`Faulted`; `ble_gap.c:1880`, "We verified that there is a free connection
  when the procedure began"). `ble_gap_preempt` with nothing
  in progress does not prevent new procedures (comment at `ble_gap.c:6049`).
- `ble_store_util_bonded_peers` returns 0 when its buffer is too small, where its comment
  promises `BLE_HS_ENOMEM`.

### Bounds

- Key-value store: areas of four pages in two sectors, so that erasure has an
  order and records cross a sector; values of one and two pages, so that records
  are torn between their pages; three keys, two of which collide and
  are interchangeable (`MCSymmetry`, sound since this run checks safety only);
  `VersionLimit` lets two garbage collections happen, so that both areas
  have been active; two power failures, so that recovery itself is interrupted.
- Flash erasure: 50 sectors contain every alignment of both ends to 8 and 16
  sectors with up to two whole 64 KB blocks between.
- Bond store: two tasks and three jobs, so that two jobs overlap and a third comes after
  the power failure; two peers with two keys each for two places, so that overflow
  happens; one CCCD place; one power failure and one failed write.
- Command channel: a startup sequence of three commands has a first, a middle and
  the optional last one; `MaxQueue` bounds the commands that the controller has not
  answered (one is enough without late answers, three with them).
- ACL: two connections, so that one can starve the other; fewer buffers than fragments,
  so that packets are split over several wake-ups; two packets and one fault of any kind.
- Host stop: two tasks, two connections, three stops and two starts, so that a stop
  meets the leftovers of an earlier one; the counter wraps at 4 instead of 256, which is
  more than the connections, as in the code.
- GATT server: one peer with two connections in a row; one characteristic for notifications
  and one for indications (`MCAllowed`), so that the first is indicated by mistake, two updates
  (the second while the first is not confirmed), two CCCD writes, one want of memory, one error. The
  proofs cover every `Allowed`.
- GATT client: two entries for two tasks and three calls, so that entries are reused;
  two connections in a row on one handle; two follow-up requests and two wants of memory, so
  that both entries stall.
- GAP: an application and the host task's callbacks, three calls, two links, one refused
  command or dropped event (`MaxFaults`); three calls are start, cancel and start again, or two procedures and a
  preemption.

### Fairness

- `KVStore`: the calling task goes on (`WF` on the steps of boot and calls). New
  requests and power failures are not fair.
- `BondStore`: power comes back and each task that can go on is scheduled (`WF`).
  Starting a job is not fair.
- `HciCmd`: the controller answers and the tasks run (`WF`). The host's events are
  strongly fair, because the queue is FIFO and no event waits for ever behind
  others; taking the mutex is strongly fair for the host task only, which outranks
  the applications. Nothing is assumed about the applications' waiting.
- `AclTx`: the host task runs, and a live link delivers what the controller holds (`WF`).
  Links need not break, and tasks need not send.
- `HostStop`: tasks inside `ble_hs_stop` and the host task run, an armed timer expires.
- `Gatts`: tasks run; an indicate procedure that is listed again and again while the host task
  is idle is confirmed or times out after 30 s, and the connection that timed out ends (`SF`).
  That `ble_gap_terminate` finds memory for its command is assumed.
- `Gattc`: tasks run; the timer finds an entry that stays on the list expired, because it
  is rescheduled at every insertion. Peers need not answer.
- `Gap`: tasks run and commands are answered (`HciCmd`: `CommandsReturn`). Events and timers
  are strongly fair, because they go through one FIFO queue; so are the steps of the
  applications that wait for the lock or the command channel, which a timer whose command is
  refused takes every 100 ms only. Neither `ProcsEnd` nor `PreemptionEnds` assumes that an
  event arrives: what was dropped is an exception in their statement.

## Proofs

Every theorem holds for all sets of peers, tasks, connections, keys and values, and for
all bounds: only the assumptions named here restrict the constants, and TLC evaluates
them in every run. A proof module first proves the model's type invariant, strengthened
where the control state implies more than types, and then the properties, each from an
inductive invariant that was checked by TLC first.

`KVStoreProofs`, with finitely many keys (`KeysAssumption`) and as long as the version does not
wrap (`NoWrap`; see "Deviations" for why):

- `MountsActiveAreaAlways`. Two valid headers alone are not inductive: `HeaderInv` says what
  the header of the other area can be at each program counter (older, or erased from the
  moment garbage collection has erased its first sector, which is erased last), so that
  programming the new header is the one step that changes the choice.
- `DurableMapRefined`, that the store implements `KVMap`, and `ProgramsErasedPagesAlways`,
  `ReadsAreDurableAlways`, `AccountingExactAlways`, from one invariant, `ContentInv`. Its parts:
  `Log`, that the pages of an area are whole records up to an end and erased after it, with
  at most one page of an unfinished record between; `TableFor`, that the RAM table, in
  descending order of hashes, has one entry for each key of a map and finds its value; and what the
  two say at each program counter. While GC copies, an entry finds its record in one area or
  the other (`Source`), the new area holds exactly the records moved so far (`Copied`), and its
  free offset is the size of what it holds (`NewArea`). That a copy fits is why consumed size
  must be exact: the new area never holds more than the old one's live records or,
  after an update, than what was checked when the request started (`Writing`).
- The lemmas: what a page program and a torn one do to a log (`LogPartial`, `LogFinal`, `TornCells`), what
  erasing does (`EraseCells`), what a search finds (`FindFacts`), that `UpdateRamTable` and
  `UpdateConsumedSize` follow a record together (`UpdateBoth`), and the size of a map as the
  cardinality of the set of its pages (`UsedUpdate`, `UsedPart`). Then one lemma per action shows
  that it preserves `ContentInv` and is a step of `KVMap` or leaves the map alone.
- `OperationsEnd`: `Work` gives each program counter the steps that remain of the loop it is
  in (sectors to erase, pages to program, records to copy or scan) and of the phases after
  it, at their largest. Every step but a power failure reduces it, because of `ContentInv`:
  what is copied and written fits in the area. A boot after any history and every call
  end after a number of steps that depends on the area size only. This is the safety part of `RequestsReturn` and
  `BootCompletes`; what they add is that the task runs.
- `TypeCorrect`: `TypeOK` needs both invariants, since an offset stays in its area because
  what is written was checked to fit.
- `ErasesExactlyAlways` and `ErasesOnceAlways`, about `FmcErase`, which `bd_erase` of
  `mtb_init.c` calls, for a code area of any number of sectors but none
  (`CodeSectorsAssumption`). `Tiles(q, S)` says that the commands of `q` erase the sectors
  of `S`, each by one command; a loop over blocks of one size tiles its range (`LoopTiles`),
  two disjoint tilings make one (`TilesConcat`), and so the blocks in the middle with what is
  left at both ends tile the request. `FmcInv` says that the commands left tile what is left.

`HciCmdProofs`:

- `StartupUndisturbedAlways`, with any faults. The invariant adds that the mutex's
  holder is the only task between lock and unlock, and that a synced host is
  outside its startup sequence.
- `TypeCorrect`, with any faults.
- `AnswersMatchAlways` and `AckSlotFreeAlways`, when no answer is late and no
  result garbage (`NoStale`; see "Deviations" for why). The invariant
  `ChannelInv` says what semaphore, slot and queue hold at each step of the mutex's
  holder: nothing before it sends, and its own command or answer, or nothing if it
  was lost, while it waits.

`HostStopProofs`, with finitely many connections, fewer than the counter's range
(`CntAssumption`):

- `CountExactAlways`: the counter follows the cardinality of the connections counted. It needs
  `CountedEnding`, that a counted connection is flagged as terminating and so is not counted
  again by an overlapping `ble_hs_stop`.
- `StopGuardedAlways`: the listener stays registered only while somebody will call
  `ble_hs_stop_done` (`Watched`), and a stopping host has it registered or about to be (`Begun`).
- `ListenersGuardedAlways`: listeners wait only while the host is stopping (`WaitingStops`), so
  the same holds for each of them. This is the safety part of `ListenersCalled`.

`AclTxProofs`, with finitely many connections:

- `WireWellFormedAlways` and `FragMeansHeadAlways`, with any faults. `Ordered` says of each
  connection that its flag, the head of its queue and the last fragment it sent agree, and
  that packets wait in the order in which they were accepted.
- `CreditsConservedAlways` and `NeverOverrunAlways`, as long as the controller is honest. The
  sum of the credits holds step by step only if a completion never reports more than is
  outstanding: `Covered` says so of all completions waiting in the event queue together, and
  `Story` that the end of a link is the last event about it.
- `NoLostWakeupAlways`: when the host task is idle, packets wait only for want of credits,
  unless an mbuf was missing. `Woken` adds that the loop of `ble_hs_wakeup_tx` leaves the
  queues it has passed empty.
- `NoStallAlways`: as long as the controller is honest, no completion or mbuf was lost and not
  every credit was spent on a connection that was going away (`Starved`), packets never wait
  for a credit that nobody holds: an event is queued, or the controller
  holds a packet of a live link. `Backed` makes the bound of `Covered` an equation (what is outstanding is
  held, or its completion is queued), and `Reported` says that a connection without a link has its
  disconnection under way. The two theorems are the safety part of `QueuesDrain`.

`GattsProofs`:

- `OneIndicationAlways`: senders look at `indicate_val_handle` first, except for
  `ble_gatts_send_next_indicate`; `SlotFree` says that it is free while that one runs, because
  only an answer that was expected leads there. `Turn` relates, for each peer, what it has to
  confirm, the procedures listed, the slot and the errors taken for confirmations: the procedure listed
  is the slot's, so that an answer of the peer ends it whichever indication it confirms.
- `SubscriptionKeptAlways`: what the peer was promised is in the store, or still in the
  connection's entry if that has been restored. `RestoreOrder` says that the loop of
  `ble_gatts_bonding_restored`, which finds its records by counting, misses none while other
  tasks rewrite records in place: a record's rank among the peer's records never changes
  while `disturbed` is false.
- `ChangesKeptAlways`: a change that a peer has yet to get is marked in its record, or some
  task that scans the characteristic's records by counting has yet to reach it (`Marked`,
  `Noted`, `Reading`, again by ranks). That no store operation of the host task overwrites such
  a mark before the confirmation needs `IndicationLatest` and `RecordLatest` (what is being
  confirmed or stored is the last value unless the connection is marked again), `RecordRead`
  (a record that is being restored is marked if the change came after it was read) and
  `OfBonds` (a new bonding finds no records). `Marked` also holds for an update that was dropped
  and whose flag is set all the same (`Awaits`), since restoring the record schedules it again.
- `UpdatesDrivenAlways`, an action property: no step leaves a pending update of a connected,
  subscribed peer without what would send it (`Driven`: the queued event, the loop that has
  yet to reach it, an indicate procedure in progress, its answer being handled, or the end of the
  connection after its timeout). An occupied slot alone does not count: `Served` says that
  it has its procedure listed or its connection ending, as long as what occupies it permits
  indications; otherwise the connection is `Jammed`, which the property excepts, since the
  confirmation changes nothing there. Two steps are excepted as well (`Abandons`), and TLC finds
  each of them necessary: `ble_gatts_bonding_restored` on a record that was stored with the MODIFIED
  flag and without a change since, and `ble_gatts_send_next_indicate` when it finds no memory, which
  leaves the peer's other updates until the next `ble_gatts_chr_updated`. This is the safety
  part of `UpdatesSent`.

`GattcProofs`, with finitely many entries:

- `FinalOnceAlways`: an entry is on the list, in the hands of one task, in the host task's, or
  free, and never in two of these places (`ListOK`, `TasksOK`, `HostOK`); no two entries are for
  the same call (`CallsOK`).
- `NoProcLostAlways`, for any number of stalled procedures: what the host task still holds
  of its local list is counted with what it holds (`HostOK`), and passes to `lost` when the walk
  leaves it. The list holds no entry twice up to the step that resumes a listed entry; from
  there on (`"astray"`) nothing is claimed.

`GapProofs`: `TimerOwned`, `FinalOnce` and `Agreement`. `Shape` says what each task holds at
each step of its call and is preserved by every step; `Calm`, which relates the host's
procedure, the commands under way and the controller's activity, is preserved as long as
no call has crossed a report of the procedure before it (`crossed`, see "Deviations"); an event
that was dropped stands in for the queued one it would have been (`ConnEndLost`, `AdvEndLost`,
`LostLinks`). The
invariant is `Sound == Shape /\ (~crossed => Calm)`.

`BondStoreProofs`:

- `LoadsOnlyWrittenAlways`: `Safe` says what RAM, flash and the running jobs can hold. It needs
  that the records already persisted of the list under way are those in RAM (`Progress`),
  since the count is written last.
- `SurvivesCrashAlways` and `AckMeansDurableAlways`: as long as no write failed, `Mirror` says that
  while a list is persisted each of its records is in flash at its place, one place further
  (the list has been shortened), or is the one being written; and at rest, at its place.
- `UnpairForgetsAlways`, an action property: `Forgetting` says which lists an unpairing has
  cleared already, and that no other task's job puts a record back.

What stays model-checked: liveness, fairness and `ENABLED`, which the prover does not treat.
For `RequestsReturn` and `BootCompletes` (`OperationsEnd`), `QueuesDrain` (`NoLostWakeupAlways`,
`NoStallAlways`), `ListenersCalled` (`ListenersGuardedAlways`) and `UpdatesSent`
(`UpdatesDrivenAlways`) the part of the argument that concerns single states and steps is
proved, and the runs show the rest.

Every safety invariant, action property and refinement of a passing run is stated by a
theorem. `InitSucceeds` is the property the run `kvstore_torn` refutes.

Where a proof needs an induction over data (ranks of records, lengths of queues, finite sums
of credits) it argues by a least counterexample, by ranks or by cardinalities,
with the theorems of `FiniteSetTheorems` and `SequenceTheorems` that have no operator
parameter.

## Plan

1. done: all modules above with their runs;
2. done: the proofs above;
3. done: the flash driver's erases for every size of the code area, and the safety parts
   of the liveness properties of `KVStore`, `AclTx`, `HostStop` and `Gatts`;
4. open: the same for the liveness properties of `HciCmd`, `BondStore`, `Gattc` and `Gap`.

## Not modelled

- The controller (a binary library, external in every module), FreeRTOS (third party; its
  mutexes, semaphores and queues appear as variables), mesh, the drivers' register access
  and the samples: most of the repository's lines.
- L2CAP signalling and credit-based channels, the pairing state machine of the security
  manager, ATT access and prepared writes, service registration, connection-parameter
  updates, the white list: sequential protocol code whose races (an entry inserted after
  its request was sent, timeouts against answers) are of the kind `Gattc` and `Gap` cover.
- Extended and periodic advertising and host flow control: compiled out in this build.
- The change of a peer's address in its CCCDs (`ble_store_iterate_replace_cccd`).
- The boot loader (`mcu_boot/`) and the SMP image manager. The boot loader is a single
  pass before the system starts; read by hand, the copy of the backup image can be repeated after a power
  failure, because the backup is erased last, while UART and radio updates overwrite the
  image in place and can leave none. A retransmitted XMODEM packet advances the write
  position a second time (`uart_dfu.c`, `len += bufsz` outside the test), so that the final
  checksum fails. A model of it comes next if the project is extended further.
