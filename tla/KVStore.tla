------------------------------ MODULE KVStore ------------------------------
(***************************************************************************)
(* The log-structured key-value store of nimble/host/kv_store              *)
(* (mtb_kvstore.c) over the flash of mtb_init.c / pan_fmc.c.               *)
(*                                                                         *)
(* Two flash areas.  The active one holds a header page with a version and *)
(* then a log of records; garbage collection (GC) copies the live records  *)
(* to the other area and commits by programming that area's header last.   *)
(* A RAM table, sorted by key hash, holds the offset of each live record   *)
(* and is rebuilt from the log at every boot.                              *)
(*                                                                         *)
(* One action is one flash operation (one page program or one sector       *)
(* erase) with the RAM updates that follow it, so that power can fail      *)
(* between any two of them, or in the middle of a page program.  Offsets   *)
(* and sizes are counted in program pages (bd_program_size).               *)
(*                                                                         *)
(* The operations run under the store's mutex: a caller that does not get  *)
(* it within 50 ms returns without any effect, a stutter of this module.   *)
(* The block device never fails in range (FMC_WriteStream and              *)
(* FMC_EraseCodeArea drop the driver's results and return 0), so the       *)
(* store's "return result" after a program or an erase has no action here. *)
(***************************************************************************)
EXTENDS Naturals, Sequences, SequencesExt, FiniteSetsExt

CONSTANTS
    Keys, Vals,     \* keys and values the callers use
    Absent,         \* no value; in a log record, the delete flag
    NoKey, NoReq,
    Hash,           \* [Keys -> Nat]: the CRC-16 of a key (may collide)
    Pages,          \* [Vals -> Nat]: program pages a record takes
    SectorPages,    \* program pages per erase sector
    NumSectors,     \* erase sectors per area
    VersionMod,     \* 65536: the area version is a uint16_t
    EnsureSizes,    \* sizes, in pages, asked of mtb_kvstore_ensure_capacity
    TornOutcomes,   \* what an interrupted page program may leave behind
    VersionLimit,   \* bound: no new request once the version reaches it
    MaxCrashes      \* bound: number of power failures

AreaPages == NumSectors * SectorPages

ASSUME SizesAssumption ==
    /\ SectorPages \in Nat \ {0} /\ NumSectors \in Nat \ {0}
    /\ AreaPages > 1
    /\ Pages \in [Vals -> Nat \ {0}]
    /\ Hash \in [Keys -> Nat]
    /\ EnsureSizes \subseteq Nat

ASSUME SentinelAssumption == Absent \notin Vals /\ NoKey \notin Keys

ASSUME KeysAssumption == IsFiniteSet(Keys)

ASSUME VersionAssumption == VersionMod \in Nat /\ VersionMod > 1

ASSUME TornAssumption == TornOutcomes \subseteq {"bad", "unsized"}

ASSUME BoundAssumption == VersionLimit \in Nat /\ MaxCrashes \in Nat

VARIABLES
    flash,          \* the two areas
    pc,             \* where the running operation is
    req,            \* the request being served, or NoReq
    active,         \* active_area_addr: 1 or 2 (gc_area_addr is the other)
    ver,            \* active_area_version
    table,          \* ram_table[0 .. num_entries-1]
    consumed,       \* consumed_size
    free,           \* free_space_offset
    off,            \* scan offset, or GC's dst_offset
    idx,            \* GC's loop index into the table
    page,           \* pages of the current record already programmed
    sec,            \* next sector of the area to erase
    slot,           \* ram_tbl_idx of the request's key
    oldsz,          \* old_record_size of the request's key, 0 if not found
    crashes

ramVars  == <<active, ver, table, consumed, free>>
callVars == <<off, idx, page, sec, slot, oldsz>>
vars     == <<flash, pc, req, ramVars, callVars, crashes>>

-----------------------------------------------------------------------------
(* Flash.  A cell tells what _mtb_kvstore_read_record finds at a page      *)
(* offset: "erased" (no magic), "bad" (magic, key size or CRC wrong),      *)
(* "unsized" (data_size still 0xFFFFFFFF: the read leaves the flash and    *)
(* fails), "rec" (the first page of a good record; val = Absent is the     *)
(* delete flag) or "cont" (the inside of a record).                        *)

Areas   == {1, 2}
Offsets == 1 .. AreaPages - 1

Blank(st) == [st |-> st, key |-> NoKey, val |-> Absent]

Cells == [st : {"erased", "bad", "unsized", "cont", "rec"},
          key : Keys \cup {NoKey}, val : Vals \cup {Absent}]

Headers == [st : {"erased", "bad", "unsized", "ok"}, ver : 0 .. VersionMod - 1]

ErasedHeader == [st |-> "erased", ver |-> 0]

ErasedArea == [hdr |-> ErasedHeader, cell |-> [o \in Offsets |-> Blank("erased")]]

Other(a) == 3 - a
gcArea   == Other(active)

(* _mtb_kvstore_get_record_size, in pages; a delete record takes one.      *)
RecPages(v) == IF v = Absent THEN 1 ELSE Pages[v]

(* One page of _mtb_kvstore_buffered_write / _copy_record: page p of the   *)
(* record k -> v at offset o.  The record reads as bad until its last page.*)
ProgramPage(area, o, k, v, p) ==
    [hdr  |-> area.hdr,
     cell |-> [q \in Offsets |->
        CASE q = o /\ p + 1 < RecPages(v) -> Blank("bad")
          [] q = o /\ p + 1 >= RecPages(v) -> [st |-> "rec", key |-> k, val |-> v]
          [] q \in o + 1 .. o + RecPages(v) - 1 /\ p + 1 = RecPages(v) -> Blank("cont")
          [] OTHER -> area.cell[q]]]

(* What power failure during that page program leaves: nothing programmed, *)
(* all programmed, or a torn page.  Only the first page holds the header.  *)
TornPage(area, o, k, v, p) ==
    {area, ProgramPage(area, o, k, v, p)} \cup
    {[hdr |-> area.hdr, cell |-> [area.cell EXCEPT ![o] = Blank(st)]] :
        st \in IF p = 0 THEN TornOutcomes ELSE {"bad"}}

(* _mtb_kvstore_write_area_record                                          *)
ProgramHeader(area, v) == [hdr |-> [st |-> "ok", ver |-> v], cell |-> area.cell]

TornHeader(area, v) ==
    {area, ProgramHeader(area, v)} \cup
    {[hdr |-> [st |-> st, ver |-> 0], cell |-> area.cell] : st \in TornOutcomes}

(* Erasing sector s (atomic, as _mtb_kvstore_erase_area assumes).  A       *)
(* record that reaches into s from the sector before it no longer reads.   *)
EraseSector(area, s) ==
    [hdr  |-> IF s = 0 THEN ErasedHeader ELSE area.hdr,
     cell |-> [o \in Offsets |->
        CASE o \div SectorPages = s -> Blank("erased")
          [] /\ o \div SectorPages < s
             /\ area.cell[o].st = "rec"
             /\ (o + RecPages(area.cell[o].val) - 1) \div SectorPages >= s ->
                 Blank("bad")
          [] OTHER -> area.cell[o]]]

(* _mtb_kvstore_erase_area: the second sector to the end, the first last.  *)
FirstToErase  == IF NumSectors > 1 THEN 1 ELSE 0
NextToErase(s) == IF s + 1 < NumSectors THEN s + 1 ELSE 0

-----------------------------------------------------------------------------
(* The RAM table.                                                          *)

Entries == [hash : Nat, off : Offsets]

(* _mtb_kvstore_read_record of a table entry, validating the key.          *)
ReadKey(e, k) ==
    LET c == flash[active].cell[e.off] IN
    CASE c.st = "rec" /\ c.key = k -> "ok"
      [] c.st = "rec" /\ c.key # k -> "item_not_found"
      [] OTHER                     -> "error"

(* Mutant: the first entry with the key's hash ends the search.            *)
StopsAt_AnyHit(i, k) == i = Len(table) + 1 \/ Hash[k] >= table[i].hash

(* _mtb_kvstore_find_record_in_ram_table: the loop's final index.          *)
StopsAt(i, k) ==
    \/ i = Len(table) + 1
    \/ Hash[k] > table[i].hash
    \/ /\ Hash[k] = table[i].hash
       /\ ReadKey(table[i], k) # "item_not_found"

FindIdx(k) == CHOOSE i \in 1 .. Len(table) + 1 :
                /\ StopsAt(i, k)
                /\ \A j \in 1 .. i - 1 : ~StopsAt(j, k)

Found(k) ==
    LET i == FindIdx(k) IN
    /\ i <= Len(table)
    /\ Hash[k] = table[i].hash
    /\ ReadKey(table[i], k) = "ok"

StoredVal(k) == flash[active].cell[table[FindIdx(k)].off].val

(* mtb_kvstore_read / _key_exists / _value_size: the value a caller gets.  *)
Read(k) == IF Found(k) THEN StoredVal(k) ELSE Absent

(* _mtb_kvstore_update_ram_table: operation for key k with old size old.   *)
UpdateRamTable(tbl, i, k, v, old, o) ==
    CASE v = Absent -> RemoveAt(tbl, i)
      [] v # Absent /\ old = 0 -> InsertAt(tbl, i, [hash |-> Hash[k], off |-> o])
      [] OTHER -> [tbl EXCEPT ![i] = [hash |-> Hash[k], off |-> o]]

(* Mutant: an update forgets the size of the record it replaces.           *)
UpdateConsumedSize_KeepOld(size, v, old) ==
    IF v = Absent THEN size - old ELSE size + RecPages(v)

(* _mtb_kvstore_update_consumed_size                                       *)
UpdateConsumedSize(size, v, old) ==
    IF v = Absent THEN size - old ELSE size - old + RecPages(v)

-----------------------------------------------------------------------------
(* Mounting: _mtb_kvstore_check_area_valid and the choice in _setup_areas. *)

Valid(f, a) == f[a].hdr.st = "ok"

(* Mutant: a valid area 1 always wins.                                     *)
MountArea_First(f) == IF Valid(f, 1) THEN 1 ELSE 2

MountArea(f) ==
    IF Valid(f, 1) /\ Valid(f, 2)
    THEN IF f[1].hdr.ver > f[2].hdr.ver \/ f[1].hdr.ver = 0 THEN 1 ELSE 2
    ELSE IF Valid(f, 1) THEN 1 ELSE 2

-----------------------------------------------------------------------------
Init ==
    /\ flash = [a \in Areas |-> ErasedArea]
    /\ pc = "off"
    /\ req = NoReq
    /\ active = 1 /\ ver = 0 /\ table = <<>> /\ consumed = 0 /\ free = 0
    /\ off = 0 /\ idx = 0 /\ page = 0 /\ sec = 0 /\ slot = 0 /\ oldsz = 0
    /\ crashes = 0

-----------------------------------------------------------------------------
(* Boot: mtb_kvstore_init = _setup_areas, then _build_ram_table.           *)

(* _build_ram_table starts with an empty table, after the area header.     *)
StartScan(a, v) ==
    /\ pc' = "scan"
    /\ active' = a /\ ver' = v
    /\ table' = <<>> /\ consumed' = 1 /\ free' = AreaPages
    /\ off' = 1

(* The C locals of a call that is over.                                    *)
ForgetLocals == /\ off' = 0 /\ idx' = 0 /\ page' = 0
                /\ sec' = 0 /\ slot' = 0 /\ oldsz' = 0

(* A header read that fails in an unexpected way ends mtb_kvstore_init.    *)
SetupFails ==
    /\ pc = "off"
    /\ \E a \in Areas : flash[a].hdr.st = "unsized"
    /\ pc' = "failed"
    /\ ForgetLocals
    /\ UNCHANGED <<flash, req, ramVars, crashes>>

SetupMount ==
    /\ pc = "off"
    /\ \A a \in Areas : flash[a].hdr.st # "unsized"
    /\ \E a \in Areas : Valid(flash, a)
    /\ StartScan(MountArea(flash), flash[MountArea(flash)].hdr.ver)
    /\ UNCHANGED <<flash, req, idx, page, sec, slot, oldsz, crashes>>

(* No valid area: erase area 1 and give it a header with version 1.        *)
SetupFormat ==
    /\ pc = "off"
    /\ \A a \in Areas : flash[a].hdr.st \in {"erased", "bad"}
    /\ pc' = "fmt_erase"
    /\ sec' = FirstToErase
    /\ UNCHANGED <<flash, req, ramVars, off, idx, page, slot, oldsz, crashes>>

FormatErase ==
    /\ pc = "fmt_erase"
    /\ flash' = [flash EXCEPT ![1] = EraseSector(@, sec)]
    /\ IF sec = 0 THEN pc' = "fmt_header" /\ UNCHANGED sec
                  ELSE sec' = NextToErase(sec) /\ UNCHANGED pc
    /\ UNCHANGED <<req, ramVars, off, idx, page, slot, oldsz, crashes>>

FormatHeader ==
    /\ pc = "fmt_header"
    /\ flash' = [flash EXCEPT ![1] = ProgramHeader(@, 1)]
    /\ StartScan(1, 1)
    /\ UNCHANGED <<req, idx, page, sec, slot, oldsz, crashes>>

(* One iteration of _build_ram_table's loop on a good record.              *)
ScanRecord ==
    /\ pc = "scan" /\ off < AreaPages
    /\ LET c   == flash[active].cell[off]
           old == IF Found(c.key) THEN RecPages(StoredVal(c.key)) ELSE 0
       IN  /\ c.st = "rec"
           /\ off' = off + RecPages(c.val)
           /\ IF c.val = Absent /\ ~Found(c.key)
              THEN UNCHANGED <<table, consumed>>
              ELSE /\ table' = UpdateRamTable(table, FindIdx(c.key), c.key, c.val, old, off)
                   /\ consumed' = UpdateConsumedSize(consumed, c.val, old)
    /\ UNCHANGED <<flash, pc, req, active, ver, free, idx, page, sec, slot, oldsz, crashes>>

(* Mutant: the loop does not stop at the end of the area.                  *)
ScanEnd_ErasedOnly ==
    /\ pc = "scan" /\ off < AreaPages
    /\ flash[active].cell[off].st = "erased"
    /\ free' = off
    /\ pc' = "idle"
    /\ ForgetLocals
    /\ UNCHANGED <<flash, req, active, ver, table, consumed, crashes>>

(* The end of the log: the area's end, or free space.                      *)
ScanEnd ==
    /\ pc = "scan"
    /\ off < AreaPages => flash[active].cell[off].st = "erased"
    /\ free' = off
    /\ pc' = "idle"
    /\ ForgetLocals
    /\ UNCHANGED <<flash, req, active, ver, table, consumed, crashes>>

(* A record that cannot be sized: the read fails, and init with it.        *)
ScanFails ==
    /\ pc = "scan" /\ off < AreaPages
    /\ flash[active].cell[off].st = "unsized"
    /\ free' = off
    /\ pc' = "failed"
    /\ ForgetLocals
    /\ UNCHANGED <<flash, req, active, ver, table, consumed, crashes>>

StartGC ==
    /\ pc' = "erase"
    /\ sec' = FirstToErase

(* A corrupt record: GC keeps what was valid before it.                    *)
ScanCorrupt ==
    /\ pc = "scan" /\ off < AreaPages
    /\ flash[active].cell[off].st \in {"bad", "cont"}
    /\ StartGC
    /\ UNCHANGED <<flash, req, ramVars, off, idx, page, slot, oldsz, crashes>>

-----------------------------------------------------------------------------
(* Requests.                                                               *)

(* mtb_kvstore_write/_delete/_reset take the mutex.                        *)
Invoke(r) ==
    /\ pc = "idle" /\ req = NoReq
    /\ ver < VersionLimit
    /\ req' = r
    /\ pc' = "start"
    /\ UNCHANGED <<flash, ramVars, callVars, crashes>>

InvokeWrite  == \E k \in Keys, v \in Vals : Invoke([kind |-> "write", key |-> k, val |-> v])
InvokeDelete == \E k \in Keys : Invoke([kind |-> "delete", key |-> k])
InvokeReset  == Invoke([kind |-> "reset"])

(* mtb_kvstore_ensure_capacity takes no mutex, and the repository never    *)
(* calls it: it is modelled as called while no other call is under way.    *)
InvokeEnsure == \/ \E n \in EnsureSizes : Invoke([kind |-> "ensure", pages |-> n])
                \/ Invoke([kind |-> "compact"])

Return ==
    /\ pc' = "idle"
    /\ req' = NoReq
    /\ ForgetLocals

IsWrite  == req # NoReq /\ req.kind \in {"write", "delete"}
NewVal   == IF req.kind = "write" THEN req.val ELSE Absent
NewPages == RecPages(NewVal)
OldPages == IF Found(req.key) THEN RecPages(StoredVal(req.key)) ELSE 0

(* _write_with_flags: deleting what is not there succeeds.                 *)
DeleteMissing ==
    /\ pc = "start" /\ req.kind = "delete" /\ ~Found(req.key)
    /\ Return
    /\ UNCHANGED <<flash, ramVars, crashes>>

(* Mutant: the area header's page is not counted.                          *)
Overflows_NoHeader == /\ req.kind = "write"
                      /\ consumed - OldPages + NewPages > AreaPages + 1

(* The new total would not fit into one area.                              *)
Overflows == /\ req.kind = "write"
             /\ consumed - OldPages + NewPages > AreaPages

(* _write_with_flags: MTB_KVSTORE_STORAGE_FULL_ERROR.                      *)
WriteFull ==
    /\ pc = "start" /\ req.kind = "write" /\ Overflows
    /\ Return
    /\ UNCHANGED <<flash, ramVars, crashes>>

(* _write_with_flags: append to the log, after GC when the log is full.    *)
WriteStart ==
    /\ pc = "start" /\ IsWrite
    /\ req.kind = "delete" => Found(req.key)
    /\ ~Overflows
    /\ slot' = FindIdx(req.key)
    /\ oldsz' = OldPages
    /\ IF free + NewPages > AreaPages
       THEN StartGC /\ UNCHANGED page
       ELSE pc' = "append" /\ page' = 0 /\ UNCHANGED sec
    /\ UNCHANGED <<flash, req, ramVars, off, idx, crashes>>

(* _write_record into the active area; its last page completes the call.   *)
AppendPage ==
    /\ pc = "append"
    /\ flash' = [flash EXCEPT ![active] = ProgramPage(@, free, req.key, NewVal, page)]
    /\ IF page + 1 < NewPages
       THEN page' = page + 1 /\ UNCHANGED <<pc, req, ramVars, off, idx, sec, slot, oldsz>>
       ELSE /\ table' = UpdateRamTable(table, slot, req.key, NewVal, oldsz, free)
            /\ consumed' = UpdateConsumedSize(consumed, NewVal, oldsz)
            /\ free' = free + NewPages
            /\ Return
            /\ UNCHANGED <<active, ver>>
    /\ UNCHANGED crashes

(* mtb_kvstore_reset: the table is emptied first, then GC.                 *)
ResetStart ==
    /\ pc = "start" /\ req.kind = "reset"
    /\ table' = <<>>
    /\ StartGC
    /\ UNCHANGED <<flash, req, active, ver, consumed, free, off, idx, page, slot, oldsz, crashes>>

NeedsCompaction == req.kind = "compact" \/ AreaPages - free < req.pages

(* mtb_kvstore_ensure_capacity, with GC and without.                       *)
EnsureStart ==
    /\ pc = "start" /\ req.kind \in {"ensure", "compact"}
    /\ IF NeedsCompaction
       THEN StartGC /\ UNCHANGED <<req, off, idx, page, slot, oldsz>>
       ELSE Return
    /\ UNCHANGED <<flash, ramVars, crashes>>

-----------------------------------------------------------------------------
(* _mtb_kvstore_garbage_collection                                         *)

(* Mutant: record_info is passed for an update only, not for a delete.     *)
CarriesRecord_Update == IsWrite /\ oldsz # 0 /\ req.kind = "write"

(* record_info # NULL: the GC carries out an update or a delete itself.    *)
CarriesRecord == IsWrite /\ oldsz # 0

GcErase ==
    /\ pc = "erase"
    /\ flash' = [flash EXCEPT ![gcArea] = EraseSector(@, sec)]
    /\ IF sec = 0 THEN pc' = "copy" /\ off' = 1 /\ idx' = 1 /\ page' = 0 /\ UNCHANGED sec
                  ELSE sec' = NextToErase(sec) /\ UNCHANGED <<pc, off, idx, page>>
    /\ UNCHANGED <<req, ramVars, slot, oldsz, crashes>>

(* Mutant: the loop goes on without advancing.                             *)
GcSkip_NoAdvance ==
    /\ pc = "copy" /\ idx <= Len(table)
    /\ CarriesRecord /\ idx = slot
    /\ UNCHANGED vars

GcSkip ==
    /\ pc = "copy" /\ idx <= Len(table)
    /\ CarriesRecord /\ idx = slot
    /\ idx' = idx + 1
    /\ UNCHANGED <<flash, pc, req, ramVars, off, page, sec, slot, oldsz, crashes>>

(* One page of _mtb_kvstore_copy_record; the table follows the copy.       *)
GcCopyPage ==
    /\ pc = "copy" /\ idx <= Len(table)
    /\ ~(CarriesRecord /\ idx = slot)
    /\ LET c == flash[active].cell[table[idx].off] IN
       /\ flash' = [flash EXCEPT ![gcArea] = ProgramPage(@, off, c.key, c.val, page)]
       /\ IF page + 1 < RecPages(c.val)
          THEN page' = page + 1 /\ UNCHANGED <<table, off, idx>>
          ELSE /\ table' = [table EXCEPT ![idx].off = off]
               /\ off' = off + RecPages(c.val)
               /\ idx' = idx + 1
               /\ page' = 0
    /\ UNCHANGED <<pc, req, active, ver, consumed, free, sec, slot, oldsz, crashes>>

(* All copied: inject the updated record, drop the deleted one, or go on.  *)
GcCopied ==
    /\ pc = "copy" /\ idx > Len(table)
    /\ IF CarriesRecord /\ req.kind = "delete"
       THEN /\ table' = UpdateRamTable(table, slot, req.key, Absent, oldsz, 0)
            /\ consumed' = UpdateConsumedSize(consumed, Absent, oldsz)
       ELSE UNCHANGED <<table, consumed>>
    /\ pc' = IF CarriesRecord /\ req.kind = "write" THEN "inject" ELSE "header"
    /\ UNCHANGED <<flash, req, active, ver, free, callVars, crashes>>

GcInjectPage ==
    /\ pc = "inject"
    /\ flash' = [flash EXCEPT ![gcArea] = ProgramPage(@, off, req.key, req.val, page)]
    /\ IF page + 1 < NewPages
       THEN page' = page + 1 /\ UNCHANGED <<pc, table, consumed, off>>
       ELSE /\ table' = UpdateRamTable(table, slot, req.key, req.val, oldsz, off)
            /\ consumed' = UpdateConsumedSize(consumed, req.val, oldsz)
            /\ off' = off + NewPages
            /\ page' = 0
            /\ pc' = "header"
    /\ UNCHANGED <<req, active, ver, free, idx, sec, slot, oldsz, crashes>>

NextVersion == (ver + 1) % VersionMod

(* The area header commits the GC; the areas swap roles and the caller of  *)
(* the GC goes on: an added record is still to be appended.                *)
GcHeader ==
    /\ pc = "header"
    /\ flash' = [flash EXCEPT ![gcArea] = ProgramHeader(@, NextVersion)]
    /\ ver' = NextVersion
    /\ free' = off
    /\ active' = gcArea
    /\ consumed' = IF req # NoReq /\ req.kind = "reset" THEN off ELSE consumed
    /\ IF IsWrite /\ oldsz = 0
       THEN /\ pc' = "append"
            /\ off' = 0 /\ idx' = 0 /\ page' = 0 /\ sec' = 0
            /\ UNCHANGED <<req, slot, oldsz>>
       ELSE Return
    /\ UNCHANGED <<table, crashes>>

-----------------------------------------------------------------------------
(* Power failure.  RAM is lost; flash keeps what the operation in progress *)
(* at that moment left there.                                              *)

FlashAfterFailure ==
    CASE pc = "append" ->
           {[flash EXCEPT ![active] = x] :
               x \in TornPage(flash[active], free, req.key, NewVal, page)}
      [] pc = "inject" ->
           {[flash EXCEPT ![gcArea] = x] :
               x \in TornPage(flash[gcArea], off, req.key, NewVal, page)}
      [] pc = "copy" /\ idx <= Len(table) /\ ~(CarriesRecord /\ idx = slot) ->
           LET c == flash[active].cell[table[idx].off] IN
           {[flash EXCEPT ![gcArea] = x] :
               x \in TornPage(flash[gcArea], off, c.key, c.val, page)}
      [] pc = "header" ->
           {[flash EXCEPT ![gcArea] = x] : x \in TornHeader(flash[gcArea], NextVersion)}
      [] pc = "fmt_header" ->
           {[flash EXCEPT ![1] = x] : x \in TornHeader(flash[1], 1)}
      [] OTHER -> {flash}

PowerFail ==
    /\ pc # "off"
    /\ crashes < MaxCrashes
    /\ crashes' = crashes + 1
    /\ flash' \in FlashAfterFailure
    /\ pc' = "off"
    /\ req' = NoReq
    /\ active' = 1 /\ ver' = 0 /\ table' = <<>> /\ consumed' = 0 /\ free' = 0
    /\ ForgetLocals

-----------------------------------------------------------------------------
BootStep == \/ SetupFails \/ SetupMount \/ SetupFormat \/ FormatErase \/ FormatHeader
            \/ ScanRecord \/ ScanEnd \/ ScanFails \/ ScanCorrupt

CallStep == \/ DeleteMissing \/ WriteFull \/ WriteStart \/ AppendPage
            \/ ResetStart \/ EnsureStart

GcStep == \/ GcErase \/ GcSkip \/ GcCopyPage \/ GcCopied \/ GcInjectPage \/ GcHeader

Step == BootStep \/ CallStep \/ GcStep

Next == \/ Step
        \/ InvokeWrite \/ InvokeDelete \/ InvokeReset \/ InvokeEnsure
        \/ PowerFail

Spec == Init /\ [][Next]_vars

(* The task that called the store keeps running it to the end.             *)
FairSpec == Spec /\ WF_vars(Step)
-----------------------------------------------------------------------------
(* Properties.                                                             *)

Pcs == {"off", "fmt_erase", "fmt_header", "scan", "idle", "start", "append",
        "erase", "copy", "inject", "header", "failed"}

Requests ==
         [kind : {"write"}, key : Keys, val : Vals]
    \cup [kind : {"delete"}, key : Keys]
    \cup [kind : {"reset", "compact"}]
    \cup [kind : {"ensure"}, pages : EnsureSizes]

ASSUME NoReqAssumption == NoReq \notin Requests

(* Every variable stays in its C type: offsets inside the area, the        *)
(* version a uint16_t, the table's entries pointing at record offsets and  *)
(* sorted by descending hash.                                              *)
TypeOK ==
    /\ flash \in [Areas -> [hdr : Headers, cell : [Offsets -> Cells]]]
    /\ pc \in Pcs
    /\ req \in Requests \cup {NoReq}
    /\ active \in Areas
    /\ ver \in 0 .. VersionMod - 1
    /\ table \in Seq(Entries)
    /\ \A i, j \in DOMAIN table : i < j => table[i].hash >= table[j].hash
    /\ consumed \in 0 .. AreaPages
    /\ free \in 0 .. AreaPages
    /\ off \in 0 .. AreaPages
    /\ idx \in Nat /\ page \in Nat /\ sec \in Nat /\ slot \in Nat /\ oldsz \in Nat
    /\ crashes \in 0 .. MaxCrashes

(* What a boot would recover from an area's log: the last good record of   *)
(* each key, up to the first page that holds none.                         *)
LogOf(cell, k) == {o \in Offsets : /\ cell[o].st = "rec" /\ cell[o].key = k
                                   /\ \A q \in 1 .. o - 1 : cell[q].st \in {"rec", "cont"}}

Contents(cell) ==
    [k \in Keys |-> IF LogOf(cell, k) = {} THEN Absent
                    ELSE cell[Max(LogOf(cell, k))].val]

Recoverable == IF \E a \in Areas : Valid(flash, a)
               THEN Contents(flash[MountArea(flash)].cell)
               ELSE [k \in Keys |-> Absent]

Map == INSTANCE KVMap WITH store <- Recoverable, outages <- crashes,
                          Capacity <- AreaPages - 1

(* What a boot would recover from flash, at every instant and under power  *)
(* failures at any flash operation, behaves as the durable map: each       *)
(* mtb_kvstore call takes effect at one flash operation or not at all, and *)
(* garbage collection, recovery and erasure never change the map.          *)
DurableMap == Map!Spec

(* While the store is idle, a lookup through the sorted RAM table (hash    *)
(* collisions included) returns for every key what a reboot would recover. *)
ReadsAreDurable == pc = "idle" => \A k \in Keys : Read(k) = Recoverable[k]

(* consumed_size counts exactly the header and the live records, and       *)
(* free_space_offset is the end of the log: everything after it is erased. *)
AccountingExact ==
    pc = "idle" =>
        /\ consumed = 1 + Map!Used(Recoverable)
        /\ \A o \in Offsets : o >= free <=> flash[active].cell[o].st = "erased"

(* NOR flash programs erased pages only: whatever failed before, the pages *)
(* that the next program operation writes are erased, or are the record's  *)
(* own.  Also the CY_ASSERT of _write_record and the check of              *)
(* _copy_record: the record ends inside its area.                          *)
WritableAt(cell, o, n) ==
    /\ o + n <= AreaPages
    /\ \A q \in o .. o + n - 1 :
          cell[q].st = "erased" \/ (q = o /\ page > 0 /\ cell[q].st = "bad")

ProgramsErasedPages ==
    /\ pc = "append" => WritableAt(flash[active].cell, free, NewPages)
    /\ pc = "inject" => WritableAt(flash[gcArea].cell, off, NewPages)
    /\ pc = "copy" /\ idx <= Len(table) /\ ~(CarriesRecord /\ idx = slot) =>
         WritableAt(flash[gcArea].cell, off,
                    RecPages(flash[active].cell[table[idx].off].val))
    /\ pc = "header" => flash[gcArea].hdr = ErasedHeader
    /\ pc = "fmt_header" => flash[1].hdr = ErasedHeader

(* _setup_areas asserts that two valid areas never have equal versions;    *)
(* and whenever the store is running, a reboot would mount the area it     *)
(* regards as active.                                                      *)
MountsActiveArea ==
    /\ (\A a \in Areas : Valid(flash, a)) => flash[1].hdr.ver # flash[2].hdr.ver
    /\ pc \notin {"off", "failed", "fmt_erase", "fmt_header"} =>
         /\ Valid(flash, active)
         /\ MountArea(flash) = active
         /\ flash[active].hdr.ver = ver

(* host_kvstore_init asserts that mtb_kvstore_init succeeds.               *)
InitSucceeds == pc # "failed"

(* A boot, whatever the flash it finds, ends with the store in service     *)
(* once power stays on.                                                    *)
BootCompletes == pc = "off" ~> pc = "idle"

(* Every request returns (or power fails): no loop of the store is endless.*)
RequestsReturn == req # NoReq ~> req = NoReq
=============================================================================
