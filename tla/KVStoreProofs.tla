--------------------------- MODULE KVStoreProofs ---------------------------
(***************************************************************************)
(* Proofs about KVStore, for any finite set of keys, any values, record    *)
(* sizes, area sizes, hash collisions, torn-page outcomes and any number   *)
(* of power failures, as long as the uint16_t area version does not wrap:  *)
(*                                                                         *)
(*  - a boot mounts the area the store was running on, at whatever flash   *)
(*    operation power failed (HeaderInv, the invariant of the headers);    *)
(*  - programs hit erased pages only, reads return what a reboot would     *)
(*    recover, the space accounting is exact, and the store implements     *)
(*    KVMap (ContentInv, the invariant of the logs and the RAM table);     *)
(*  - every step but a power failure leaves less to do (Work), so that a   *)
(*    request and a boot end after a bounded number of flash operations;   *)
(*  - the flash driver that erases the code area erases each of its        *)
(*    sectors once and no other (FmcInv, the last section).                *)
(*                                                                         *)
(* The module goes from the flash up: sizes, the pages a map takes, the    *)
(* log of an area, the RAM table, erasing; then one lemma per action, each *)
(* showing that it preserves ContentInv and is a step of KVMap or none.    *)
(***************************************************************************)
EXTENDS KVStore, FmcErase, FiniteSetTheorems, SequenceTheorems, WellFoundedInduction, TLAPS

(* No execution within the bounds reaches the version's wrap-around.       *)
NoWrap == VersionLimit + MaxCrashes + 2 < VersionMod

-----------------------------------------------------------------------------
(* The shape of the two flash areas.                                       *)
IsArea(x) == x.hdr \in Headers

FlashShape == /\ flash = [a \in Areas |-> flash[a]]
              /\ \A a \in Areas : IsArea(flash[a])

(* The points where the store has no active area yet.                      *)
Unmounted == pc \in {"off", "failed", "fmt_erase", "fmt_header"}

(* Headers of valid areas carry versions that never wrapped, bounded by    *)
(* the requests and power failures so far, and never equal.                *)
VersionInv ==
    /\ \A a \in Areas : Valid(flash, a) =>
         /\ flash[a].hdr.ver >= 1
         /\ flash[a].hdr.ver <= VersionLimit + crashes + 2
         /\ pc \notin {"idle", "append"} =>
              flash[a].hdr.ver <= VersionLimit + crashes + 1
    /\ (\A a \in Areas : Valid(flash, a)) => flash[1].hdr.ver # flash[2].hdr.ver
    /\ pc = "start" => ver < VersionLimit

(* While the store runs, its active area is valid and the newer of the two.*)
ActiveInv ==
    /\ ~Unmounted =>
         /\ Valid(flash, active)
         /\ flash[active].hdr.ver = ver
         /\ Valid(flash, gcArea) => flash[gcArea].hdr.ver < ver
    /\ pc \in {"fmt_erase", "fmt_header"} =>
         \A a \in Areas : ~Valid(flash, a)

(* The inductive invariant.                                                *)
HeaderInv ==
    /\ FlashShape
    /\ pc \in Pcs
    /\ active \in Areas
    /\ crashes \in 0 .. MaxCrashes
    /\ VersionInv
    /\ ActiveInv

-----------------------------------------------------------------------------
(* Flash operations and headers.                                           *)

(* Programming a record page leaves the area's header alone.               *)
LEMMA ProgramPageHeader ==
    ASSUME NEW area, IsArea(area), NEW o, NEW k, NEW v, NEW p
    PROVE  LET x == ProgramPage(area, o, k, v, p) IN
           IsArea(x) /\ x.hdr = area.hdr
  BY DEF ProgramPage, IsArea

(* So does a page program that power failure interrupts.                   *)
LEMMA TornPageHeader ==
    ASSUME NEW area, IsArea(area), NEW o, NEW k, NEW v, NEW p,
           NEW x \in TornPage(area, o, k, v, p)
    PROVE  IsArea(x) /\ x.hdr = area.hdr
  <1>1. CASE x \in {area, ProgramPage(area, o, k, v, p)}
    BY <1>1, ProgramPageHeader
  <1>2. CASE \E st : x = [hdr |-> area.hdr, cell |-> [area.cell EXCEPT ![o] = Blank(st)]]
    BY <1>2 DEF IsArea
  <1>3. QED
    BY <1>1, <1>2 DEF TornPage

(* Programming a header makes the area valid with that version.            *)
LEMMA ProgramHeaderHeader ==
    ASSUME NEW area, IsArea(area), NEW v \in 0 .. VersionMod - 1
    PROVE  LET x == ProgramHeader(area, v) IN
           IsArea(x) /\ x.hdr = [st |-> "ok", ver |-> v]
  BY DEF ProgramHeader, IsArea, Headers

(* An interrupted header program leaves the old header, the new one, or an *)
(* invalid one.                                                            *)
LEMMA TornHeaderHeader ==
    ASSUME NEW area, IsArea(area), NEW v \in 0 .. VersionMod - 1,
           NEW x \in TornHeader(area, v)
    PROVE  /\ IsArea(x)
           /\ \/ x.hdr = area.hdr
              \/ x.hdr = [st |-> "ok", ver |-> v]
              \/ x.hdr.st # "ok"
  <1>1. CASE x \in {area, ProgramHeader(area, v)}
    BY <1>1, ProgramHeaderHeader
  <1>2. CASE \E st \in TornOutcomes : x = [hdr |-> [st |-> st, ver |-> 0], cell |-> area.cell]
    BY <1>2, TornAssumption, VersionAssumption DEF IsArea, Headers
  <1>3. QED
    BY <1>1, <1>2 DEF TornHeader

(* Erasing a sector keeps the header or erases it.                         *)
LEMMA EraseSectorHeader ==
    ASSUME NEW area, IsArea(area), NEW s
    PROVE  LET x == EraseSector(area, s) IN
           IsArea(x) /\ x.hdr \in {area.hdr, ErasedHeader}
  BY VersionAssumption DEF EraseSector, IsArea, ErasedHeader, Headers

-----------------------------------------------------------------------------
(* In states of the invariant, mounting chooses the newer valid area.      *)
LEMMA MountNewest ==
    ASSUME HeaderInv, \E a \in Areas : Valid(flash, a)
    PROVE  /\ MountArea(flash) \in Areas
           /\ Valid(flash, MountArea(flash))
           /\ Valid(flash, Other(MountArea(flash))) =>
                flash[Other(MountArea(flash))].hdr.ver < flash[MountArea(flash)].hdr.ver
  BY DEF HeaderInv, VersionInv, FlashShape, IsArea, Headers, MountArea, Areas, Other, Valid

(* The invariant implies what the runs check.                              *)
LEMMA HeaderInvMounts == HeaderInv => MountsActiveArea
  BY DEF HeaderInv, VersionInv, ActiveInv, FlashShape, IsArea, Headers, MountsActiveArea,
         MountArea, Areas, gcArea, Other, Valid, Unmounted

LEMMA HeaderInvInit == Init => HeaderInv
  BY VersionAssumption, BoundAssumption
  DEF Init, HeaderInv, FlashShape, IsArea, ErasedArea, ErasedHeader, Headers, VersionInv,
      ActiveInv, Valid, Areas, Pcs, Unmounted

(* A step that changes no header and stays within the same phase.          *)
SameHeaders == /\ FlashShape'
               /\ \A a \in Areas : flash'[a].hdr = flash[a].hdr

LEMMA SameHeadersUnchanged ==
    ASSUME FlashShape, UNCHANGED flash
    PROVE  SameHeaders
  BY DEF FlashShape, SameHeaders

LEMMA SameHeadersArea ==
    ASSUME FlashShape, NEW a \in Areas, NEW x, IsArea(x), x.hdr = flash[a].hdr,
           flash' = [flash EXCEPT ![a] = x]
    PROVE  SameHeaders
  BY DEF FlashShape, SameHeaders

(* A step that replaces one area.                                          *)
LEMMA OneArea ==
    ASSUME FlashShape, NEW a \in Areas, NEW x, IsArea(x),
           flash' = [flash EXCEPT ![a] = x]
    PROVE  /\ FlashShape'
           /\ flash'[a] = x /\ flash'[Other(a)] = flash[Other(a)]
           /\ Other(a) \in Areas /\ Areas = {a, Other(a)} /\ a # Other(a)
  <1>1. Other(a) \in Areas /\ Areas = {a, Other(a)} /\ a # Other(a)
    BY DEF Areas, Other
  <1>2. flash'[a] = x /\ flash'[Other(a)] = flash[Other(a)]
    BY <1>1 DEF FlashShape
  <1>3. flash' = [b \in Areas |-> flash'[b]]
    BY DEF FlashShape
  <1>4. \A b \in Areas : IsArea(flash'[b])
    BY <1>1, <1>2 DEF FlashShape, IsArea
  <1>5. QED
    BY <1>1, <1>2, <1>3, <1>4 DEF FlashShape

(* Mounted to mounted, on the same area with the same version.             *)
LEMMA RunningStep ==
    ASSUME HeaderInv, SameHeaders, ~Unmounted,
           active' = active, ver' = ver, crashes' = crashes,
           pc' \in Pcs, ~Unmounted', pc' # "start",
           pc' \in {"idle", "append"} \/ pc \notin {"idle", "append"}
    PROVE  HeaderInv'
  BY DEF HeaderInv, SameHeaders, FlashShape, VersionInv, ActiveInv, Unmounted, Valid, gcArea,
         Other, Areas

(* The version the next GC writes: it does not wrap.                       *)
LEMMA NextVersionNoWrap ==
    ASSUME NoWrap, HeaderInv, pc = "header"
    PROVE  /\ NextVersion = ver + 1
           /\ NextVersion \in 0 .. VersionMod - 1
           /\ ver >= 1 /\ NextVersion <= VersionLimit + crashes + 2
  <1>1. /\ ver \in Nat /\ ver >= 1
        /\ ver <= VersionLimit + crashes + 1
    BY VersionAssumption, BoundAssumption
    DEF HeaderInv, FlashShape, IsArea, Headers, VersionInv, ActiveInv, Unmounted, Areas
  <1>2. ver + 1 < VersionMod
    BY <1>1, VersionAssumption, BoundAssumption DEF NoWrap, HeaderInv
  <1>3. NextVersion = ver + 1
    BY <1>1, <1>2, VersionAssumption DEF NextVersion
  <1>4. QED
    BY <1>1, <1>2, <1>3, VersionAssumption, BoundAssumption DEF HeaderInv

-----------------------------------------------------------------------------
(* Booting preserves the invariant.                                        *)
LEMMA BootPreserves ==
    ASSUME HeaderInv, BootStep
    PROVE  HeaderInv'
  <1> USE DEF Pcs
  <1>1. CASE SetupFails
    <2>1. SameHeaders
      BY <1>1, SameHeadersUnchanged DEF SetupFails, HeaderInv
    <2>2. QED
      BY <1>1, <2>1 DEF SetupFails, ramVars, HeaderInv, SameHeaders, VersionInv, ActiveInv,
                        Valid, Unmounted
  <1>2. CASE SetupMount
    <2>1. SameHeaders
      BY <1>2, SameHeadersUnchanged DEF SetupMount, HeaderInv
    <2>2. /\ active' = MountArea(flash) /\ ver' = flash[MountArea(flash)].hdr.ver
          /\ pc' = "scan" /\ UNCHANGED <<flash, crashes>> /\ pc = "off"
      BY <1>2 DEF SetupMount, StartScan
    <2>3. /\ MountArea(flash) \in Areas
          /\ Valid(flash, MountArea(flash))
          /\ Valid(flash, Other(MountArea(flash))) =>
               flash[Other(MountArea(flash))].hdr.ver < flash[MountArea(flash)].hdr.ver
      BY <1>2, MountNewest DEF SetupMount
    <2>4. VersionInv'
      BY <2>2 DEF HeaderInv, VersionInv, Valid
    <2>5. ActiveInv'
      BY <2>2, <2>3 DEF ActiveInv, Valid, gcArea, Unmounted
    <2>6. QED
      BY <2>1, <2>2, <2>3, <2>4, <2>5 DEF HeaderInv, SameHeaders
  <1>3. CASE SetupFormat
    <2>1. SameHeaders
      BY <1>3, SameHeadersUnchanged DEF SetupFormat, HeaderInv
    <2>2. QED
      BY <1>3, <2>1 DEF SetupFormat, ramVars, HeaderInv, SameHeaders, VersionInv, ActiveInv,
                        Valid, Unmounted, Areas
  <1>4. CASE FormatErase
    <2> DEFINE x == EraseSector(flash[1], sec)
    <2>1. IsArea(x) /\ x.hdr \in {flash[1].hdr, ErasedHeader}
      BY EraseSectorHeader DEF HeaderInv, FlashShape, Areas
    <2>2. flash' = [flash EXCEPT ![1] = x]
      BY <1>4 DEF FormatErase
    <2> HIDE DEF x
    <2>3. FlashShape' /\ flash'[1] = x /\ flash'[2] = flash[2]
      BY <2>1, <2>2, OneArea DEF HeaderInv, Areas, Other
    <2>4. \A a \in Areas : ~Valid(flash', a)
      BY <1>4, <2>1, <2>3 DEF HeaderInv, ActiveInv, FormatErase, Valid, Areas, ErasedHeader
    <2>5. /\ pc' \in {"fmt_erase", "fmt_header"}
          /\ UNCHANGED <<active, ver, crashes>>
      BY <1>4 DEF FormatErase, ramVars
    <2>6. QED
      BY <2>3, <2>4, <2>5 DEF HeaderInv, VersionInv, ActiveInv, Valid, Unmounted, Areas
  <1>5. CASE FormatHeader
    <2> DEFINE x == ProgramHeader(flash[1], 1)
    <2>1. IsArea(x) /\ x.hdr = [st |-> "ok", ver |-> 1]
      BY ProgramHeaderHeader, VersionAssumption DEF HeaderInv, FlashShape, Areas
    <2>2. flash' = [flash EXCEPT ![1] = x]
      BY <1>5 DEF FormatHeader
    <2> HIDE DEF x
    <2>3. FlashShape' /\ flash'[1] = x /\ flash'[2] = flash[2]
      BY <2>1, <2>2, OneArea DEF HeaderInv, Areas, Other
    <2>4. Valid(flash', 1) /\ ~Valid(flash', 2) /\ flash'[1].hdr.ver = 1
      BY <1>5, <2>1, <2>3 DEF HeaderInv, ActiveInv, FormatHeader, Valid, Areas
    <2>5. pc' = "scan" /\ active' = 1 /\ ver' = 1 /\ crashes' = crashes
      BY <1>5 DEF FormatHeader, StartScan
    <2>6. QED
      BY <2>3, <2>4, <2>5, BoundAssumption
      DEF HeaderInv, VersionInv, ActiveInv, Unmounted, gcArea, Other, Areas
  <1>6. CASE ScanRecord
    <2>1. SameHeaders
      BY <1>6, SameHeadersUnchanged DEF ScanRecord, HeaderInv
    <2>2. QED
      BY <1>6, <2>1, RunningStep DEF ScanRecord, Unmounted
  <1>7. CASE ScanEnd
    <2>1. SameHeaders
      BY <1>7, SameHeadersUnchanged DEF ScanEnd, HeaderInv
    <2>2. QED
      BY <1>7, <2>1, RunningStep DEF ScanEnd, Unmounted
  <1>8. CASE ScanFails
    <2>1. SameHeaders
      BY <1>8, SameHeadersUnchanged DEF ScanFails, HeaderInv
    <2>2. QED
      BY <1>8, <2>1 DEF ScanFails, HeaderInv, SameHeaders, VersionInv, ActiveInv, Valid,
                        Unmounted, Areas
  <1>9. CASE ScanCorrupt
    <2>1. SameHeaders
      BY <1>9, SameHeadersUnchanged DEF ScanCorrupt, HeaderInv
    <2>2. QED
      BY <1>9, <2>1, RunningStep DEF ScanCorrupt, StartGC, ramVars, Unmounted
  <1>10. QED
    BY <1>1, <1>2, <1>3, <1>4, <1>5, <1>6, <1>7, <1>8, <1>9 DEF BootStep

(* Requests preserve it: they touch no header.                             *)
LEMMA CallPreserves ==
    ASSUME HeaderInv, CallStep
    PROVE  HeaderInv'
  <1> USE DEF Pcs, Unmounted
  <1>1. CASE DeleteMissing
    BY <1>1, SameHeadersUnchanged, RunningStep DEF DeleteMissing, Return, ramVars, HeaderInv
  <1>2. CASE WriteFull
    BY <1>2, SameHeadersUnchanged, RunningStep DEF WriteFull, Return, ramVars, HeaderInv
  <1>3. CASE WriteStart
    BY <1>3, SameHeadersUnchanged, RunningStep DEF WriteStart, StartGC, ramVars, HeaderInv
  <1>4. CASE AppendPage
    <2> DEFINE x == ProgramPage(flash[active], free, req.key, NewVal, page)
    <2>1. IsArea(x) /\ x.hdr = flash[active].hdr
      BY ProgramPageHeader DEF HeaderInv, FlashShape
    <2>2. flash' = [flash EXCEPT ![active] = x]
      BY <1>4 DEF AppendPage
    <2> HIDE DEF x
    <2>3. SameHeaders
      BY <2>1, <2>2, SameHeadersArea DEF HeaderInv
    <2>4. /\ pc = "append" /\ pc' \in {"append", "idle"}
          /\ active' = active /\ ver' = ver /\ crashes' = crashes
      BY <1>4 DEF AppendPage, Return, ramVars
    <2>5. QED
      BY <2>3, <2>4, RunningStep
  <1>5. CASE ResetStart
    BY <1>5, SameHeadersUnchanged, RunningStep DEF ResetStart, StartGC, HeaderInv
  <1>6. CASE EnsureStart
    BY <1>6, SameHeadersUnchanged, RunningStep
    DEF EnsureStart, StartGC, Return, ramVars, HeaderInv
  <1>7. QED
    BY <1>1, <1>2, <1>3, <1>4, <1>5, <1>6 DEF CallStep

(* A new request is accepted only below the version limit.                 *)
LEMMA InvokePreserves ==
    ASSUME HeaderInv, NEW r, Invoke(r)
    PROVE  HeaderInv'
  <1>1. SameHeaders
    BY SameHeadersUnchanged DEF Invoke, HeaderInv
  <1>2. /\ pc = "idle" /\ pc' = "start" /\ ver < VersionLimit
        /\ UNCHANGED <<flash, active, ver, crashes>>
    BY DEF Invoke, ramVars
  <1>3. /\ \A a \in Areas : Valid(flash, a) => flash[a].hdr.ver <= ver
        /\ ver \in Nat
    BY <1>2 DEF HeaderInv, ActiveInv, FlashShape, IsArea, Headers, Unmounted, gcArea, Other, Areas
  <1>4. \A a \in Areas : Valid(flash, a) => flash[a].hdr.ver <= VersionLimit + crashes + 1
    BY <1>2, <1>3, BoundAssumption DEF HeaderInv, FlashShape, IsArea, Headers, Areas
  <1>5. VersionInv'
    BY <1>2, <1>4 DEF HeaderInv, VersionInv, Valid
  <1>6. ActiveInv'
    BY <1>2 DEF HeaderInv, ActiveInv, Valid, Unmounted, gcArea
  <1>7. QED
    BY <1>1, <1>2, <1>5, <1>6 DEF HeaderInv, SameHeaders, Pcs

(* Garbage collection: only GcErase and GcHeader touch a header, the one   *)
(* of the inactive area.                                                   *)
LEMMA GcPreserves ==
    ASSUME NoWrap, HeaderInv, GcStep
    PROVE  HeaderInv'
  <1> USE DEF Pcs, Unmounted
  <1>0. gcArea \in Areas /\ Areas = {active, gcArea} /\ active # gcArea
    BY DEF gcArea, Other, Areas, HeaderInv
  <1>1. CASE GcErase
    <2> DEFINE x == EraseSector(flash[gcArea], sec)
    <2>1. IsArea(x) /\ x.hdr \in {flash[gcArea].hdr, ErasedHeader}
      BY <1>0, EraseSectorHeader DEF HeaderInv, FlashShape
    <2>2. flash' = [flash EXCEPT ![gcArea] = x]
      BY <1>1 DEF GcErase
    <2> HIDE DEF x
    <2>3. FlashShape' /\ flash'[gcArea] = x /\ flash'[active] = flash[active]
      BY <1>0, <2>1, <2>2, OneArea DEF HeaderInv, gcArea, Other, Areas
    <2>4. /\ pc = "erase" /\ pc' \in {"erase", "copy"}
          /\ UNCHANGED <<active, ver, crashes>>
      BY <1>1 DEF GcErase, ramVars
    <2>5. /\ \A a \in Areas : Valid(flash', a) => Valid(flash, a) /\ flash'[a].hdr = flash[a].hdr
          /\ Valid(flash', active)
      BY <1>0, <2>1, <2>3, <2>4 DEF HeaderInv, ActiveInv, Valid, ErasedHeader
    <2>6. gcArea' = gcArea
      BY <2>4 DEF gcArea
    <2>7. ActiveInv'
      BY <1>0, <2>4, <2>5, <2>6 DEF HeaderInv, ActiveInv, Valid
    <2>8. VersionInv'
      BY <1>0, <2>4, <2>5 DEF HeaderInv, VersionInv, Valid, Areas
    <2>9. QED
      BY <2>3, <2>4, <2>7, <2>8 DEF HeaderInv
  <1>2. CASE GcSkip
    BY <1>2, SameHeadersUnchanged, RunningStep DEF GcSkip, ramVars, HeaderInv
  <1>3. CASE GcCopyPage
    <2> DEFINE c == flash[active].cell[table[idx].off]
               x == ProgramPage(flash[gcArea], off, c.key, c.val, page)
    <2>1. IsArea(x) /\ x.hdr = flash[gcArea].hdr
      BY <1>0, ProgramPageHeader DEF HeaderInv, FlashShape
    <2>2. flash' = [flash EXCEPT ![gcArea] = x]
      BY <1>3 DEF GcCopyPage
    <2> HIDE DEF x
    <2>3. SameHeaders
      BY <1>0, <2>1, <2>2, SameHeadersArea DEF HeaderInv
    <2>4. QED
      BY <1>3, <2>3, RunningStep DEF GcCopyPage
  <1>4. CASE GcCopied
    BY <1>4, SameHeadersUnchanged, RunningStep DEF GcCopied, HeaderInv
  <1>5. CASE GcInjectPage
    <2> DEFINE x == ProgramPage(flash[gcArea], off, req.key, req.val, page)
    <2>1. IsArea(x) /\ x.hdr = flash[gcArea].hdr
      BY <1>0, ProgramPageHeader DEF HeaderInv, FlashShape
    <2>2. flash' = [flash EXCEPT ![gcArea] = x]
      BY <1>5 DEF GcInjectPage
    <2> HIDE DEF x
    <2>3. SameHeaders
      BY <1>0, <2>1, <2>2, SameHeadersArea DEF HeaderInv
    <2>4. QED
      BY <1>5, <2>3, RunningStep DEF GcInjectPage
  <1>6. CASE GcHeader
    <2> DEFINE x == ProgramHeader(flash[gcArea], NextVersion)
    <2>0. /\ NextVersion = ver + 1
          /\ NextVersion \in 0 .. VersionMod - 1
          /\ ver >= 1 /\ NextVersion <= VersionLimit + crashes + 2
      BY <1>6, NextVersionNoWrap DEF GcHeader
    <2>1. IsArea(x) /\ x.hdr = [st |-> "ok", ver |-> NextVersion]
      BY <1>0, <2>0, ProgramHeaderHeader DEF HeaderInv, FlashShape
    <2>2. flash' = [flash EXCEPT ![gcArea] = x]
      BY <1>6 DEF GcHeader
    <2> HIDE DEF x
    <2>3. FlashShape' /\ flash'[gcArea] = x /\ flash'[active] = flash[active]
      BY <1>0, <2>1, <2>2, OneArea DEF HeaderInv, gcArea, Other, Areas
    <2>4. /\ pc = "header" /\ pc' \in {"append", "idle"}
          /\ active' = gcArea /\ ver' = NextVersion /\ crashes' = crashes
      BY <1>6 DEF GcHeader, Return
    <2>5. /\ Valid(flash', gcArea) /\ flash'[gcArea].hdr.ver = ver + 1
          /\ Valid(flash', active) /\ flash'[active].hdr.ver = ver
      BY <1>0, <2>0, <2>1, <2>3, <2>4 DEF HeaderInv, ActiveInv, Valid
    <2>6. gcArea' = active
      BY <2>4 DEF gcArea, Other, Areas, HeaderInv
    <2>7. ver \in Nat /\ flash[active].hdr.ver = ver
      BY <2>4 DEF HeaderInv, ActiveInv, FlashShape, IsArea, Headers
    <2>8. ActiveInv'
      BY <2>0, <2>4, <2>5, <2>6, <2>7 DEF ActiveInv
    <2>9. \A a \in Areas : flash'[a].hdr.ver >= 1 /\ flash'[a].hdr.ver <= VersionLimit + crashes + 2
      BY <1>0, <2>0, <2>5, <2>7, BoundAssumption DEF HeaderInv
    <2>10. flash'[1].hdr.ver # flash'[2].hdr.ver
      BY <1>0, <2>5, <2>7 DEF Areas, gcArea, Other
    <2>11. VersionInv'
      BY <2>4, <2>9, <2>10 DEF VersionInv
    <2>12. QED
      BY <1>0, <2>3, <2>4, <2>8, <2>11 DEF HeaderInv
  <1>7. QED
    BY <1>1, <1>2, <1>3, <1>4, <1>5, <1>6 DEF GcStep

(* What power failure leaves in the headers.                               *)
LEMMA FailureHeaders ==
    ASSUME NoWrap, HeaderInv, PowerFail
    PROVE  /\ FlashShape'
           /\ \/ SameHeaders
              \/ /\ pc = "header"
                 /\ flash'[active].hdr = flash[active].hdr
                 /\ \/ flash'[gcArea].hdr = [st |-> "ok", ver |-> NextVersion]
                    \/ flash'[gcArea].hdr.st # "ok"
              \/ /\ pc = "fmt_header"
                 /\ flash'[2].hdr = flash[2].hdr
                 /\ \/ flash'[1].hdr = [st |-> "ok", ver |-> 1]
                    \/ flash'[1].hdr.st # "ok"
  <1>0. /\ active \in Areas /\ gcArea \in Areas /\ IsArea(flash[active]) /\ IsArea(flash[gcArea])
        /\ IsArea(flash[1]) /\ 1 \in Areas /\ FlashShape
    BY DEF HeaderInv, FlashShape, gcArea, Other, Areas
  <1>1. flash' \in FlashAfterFailure
    BY DEF PowerFail
  <1>2. CASE pc = "append"
    <2>1. PICK x \in TornPage(flash[active], free, req.key, NewVal, page) :
             flash' = [flash EXCEPT ![active] = x]
      BY <1>1, <1>2 DEF FlashAfterFailure
    <2>2. IsArea(x) /\ x.hdr = flash[active].hdr
      BY <1>0, TornPageHeader
    <2>3. SameHeaders
      BY <1>0, <2>1, <2>2, SameHeadersArea
    <2>4. QED
      BY <2>3 DEF SameHeaders
  <1>3. CASE pc = "inject"
    <2>1. PICK x \in TornPage(flash[gcArea], off, req.key, NewVal, page) :
             flash' = [flash EXCEPT ![gcArea] = x]
      BY <1>1, <1>3 DEF FlashAfterFailure
    <2>2. IsArea(x) /\ x.hdr = flash[gcArea].hdr
      BY <1>0, TornPageHeader
    <2>3. SameHeaders
      BY <1>0, <2>1, <2>2, SameHeadersArea
    <2>4. QED
      BY <2>3 DEF SameHeaders
  <1>4. CASE pc = "copy" /\ idx <= Len(table) /\ ~(CarriesRecord /\ idx = slot)
    <2> DEFINE c == flash[active].cell[table[idx].off]
    <2>1. PICK x \in TornPage(flash[gcArea], off, c.key, c.val, page) :
             flash' = [flash EXCEPT ![gcArea] = x]
      BY <1>1, <1>4 DEF FlashAfterFailure
    <2>2. IsArea(x) /\ x.hdr = flash[gcArea].hdr
      BY <1>0, TornPageHeader
    <2>3. SameHeaders
      BY <1>0, <2>1, <2>2, SameHeadersArea
    <2>4. QED
      BY <2>3 DEF SameHeaders
  <1>5. CASE pc = "header"
    <2>1. PICK x \in TornHeader(flash[gcArea], NextVersion) :
             flash' = [flash EXCEPT ![gcArea] = x]
      BY <1>1, <1>5 DEF FlashAfterFailure
    <2>2. NextVersion \in 0 .. VersionMod - 1
      BY <1>5, NextVersionNoWrap
    <2>3. /\ IsArea(x)
          /\ \/ x.hdr = flash[gcArea].hdr
             \/ x.hdr = [st |-> "ok", ver |-> NextVersion]
             \/ x.hdr.st # "ok"
      BY <1>0, <2>2, TornHeaderHeader
    <2>4. FlashShape' /\ flash'[gcArea] = x /\ flash'[active] = flash[active]
      BY <1>0, <2>1, <2>3, OneArea DEF gcArea, Other, Areas
    <2>5. CASE x.hdr = flash[gcArea].hdr
      BY <1>0, <2>1, <2>3, <2>4, <2>5, SameHeadersArea
    <2>6. QED
      BY <1>5, <2>3, <2>4, <2>5
  <1>6. CASE pc = "fmt_header"
    <2>1. PICK x \in TornHeader(flash[1], 1) : flash' = [flash EXCEPT ![1] = x]
      BY <1>1, <1>6 DEF FlashAfterFailure
    <2>2. /\ IsArea(x)
          /\ \/ x.hdr = flash[1].hdr
             \/ x.hdr = [st |-> "ok", ver |-> 1]
             \/ x.hdr.st # "ok"
      BY <1>0, VersionAssumption, TornHeaderHeader
    <2>3. FlashShape' /\ flash'[1] = x /\ flash'[2] = flash[2]
      BY <1>0, <2>1, <2>2, OneArea DEF Other, Areas
    <2>4. CASE x.hdr = flash[1].hdr
      BY <1>0, <2>1, <2>2, <2>3, <2>4, SameHeadersArea
    <2>5. QED
      BY <1>6, <2>2, <2>3, <2>4
  <1>7. CASE /\ pc \notin {"append", "inject", "header", "fmt_header"}
             /\ ~(pc = "copy" /\ idx <= Len(table) /\ ~(CarriesRecord /\ idx = slot))
    <2>1. flash' = flash
      BY <1>1, <1>7 DEF FlashAfterFailure
    <2>2. QED
      BY <1>0, <2>1, SameHeadersUnchanged DEF SameHeaders
  <1>8. QED
    BY <1>2, <1>3, <1>4, <1>5, <1>6, <1>7

LEMMA FailurePreserves ==
    ASSUME NoWrap, HeaderInv, PowerFail
    PROVE  HeaderInv'
  <1>0. /\ pc' = "off" /\ active' = 1 /\ crashes' = crashes + 1 /\ crashes < MaxCrashes
    BY DEF PowerFail, ForgetLocals
  <1>1. FlashShape'
    BY FailureHeaders
  <1>2. \A a \in Areas : flash[a].hdr \in Headers /\ flash'[a].hdr \in Headers
    BY <1>1 DEF HeaderInv, FlashShape, IsArea
  <1>3. VersionInv'
    <2>1. CASE SameHeaders
      BY <1>0, <1>2, <2>1, BoundAssumption DEF SameHeaders, HeaderInv, VersionInv, Valid, Headers, Areas
    <2>2. CASE /\ pc = "header"
               /\ flash'[active].hdr = flash[active].hdr
               /\ \/ flash'[gcArea].hdr = [st |-> "ok", ver |-> NextVersion]
                  \/ flash'[gcArea].hdr.st # "ok"
      <3>1. gcArea \in Areas /\ Areas = {active, gcArea} /\ active # gcArea
        BY DEF gcArea, Other, Areas, HeaderInv
      <3>2. /\ NextVersion = ver + 1
            /\ ver >= 1 /\ NextVersion <= VersionLimit + crashes + 2
        BY <2>2, NextVersionNoWrap
      <3>3. ver \in Nat /\ flash[active].hdr.ver = ver
        BY <2>2, <1>2 DEF HeaderInv, ActiveInv, Unmounted, Headers
      <3>4. \A a \in Areas : Valid(flash', a) =>
              flash'[a].hdr.ver >= 1 /\ flash'[a].hdr.ver <= VersionLimit + crashes + 2
        BY <2>2, <3>1, <3>2, <3>3, BoundAssumption DEF Valid, HeaderInv
      <3>5. (\A a \in Areas : Valid(flash', a)) => flash'[1].hdr.ver # flash'[2].hdr.ver
        BY <2>2, <3>1, <3>2, <3>3 DEF Valid, Areas, gcArea, Other
      <3>6. crashes \in Nat
        BY BoundAssumption DEF HeaderInv
      <3>7. \A a \in Areas : flash'[a].hdr.ver \in Nat
        BY <1>2, VersionAssumption DEF Headers
      <3>8. \A a \in Areas : Valid(flash', a) =>
              /\ flash'[a].hdr.ver <= VersionLimit + crashes' + 1
              /\ flash'[a].hdr.ver <= VersionLimit + crashes' + 2
        BY <1>0, <3>4, <3>6, <3>7, BoundAssumption
      <3>9. QED
        BY <1>0, <3>4, <3>5, <3>8 DEF VersionInv, Valid
    <2>3. CASE /\ pc = "fmt_header"
               /\ flash'[2].hdr = flash[2].hdr
               /\ \/ flash'[1].hdr = [st |-> "ok", ver |-> 1]
                  \/ flash'[1].hdr.st # "ok"
      <3>1. ~Valid(flash', 2) /\ (Valid(flash', 1) => flash'[1].hdr.ver = 1)
        BY <2>3 DEF HeaderInv, ActiveInv, Valid, Areas
      <3>2. QED
        BY <1>0, <3>1, BoundAssumption DEF VersionInv, HeaderInv, Valid, Areas
    <2>4. QED
      BY <2>1, <2>2, <2>3, FailureHeaders
  <1>4. ActiveInv'
    BY <1>0 DEF ActiveInv, Unmounted
  <1>5. QED
    BY <1>0, <1>1, <1>3, <1>4, BoundAssumption DEF HeaderInv, Areas, Pcs

-----------------------------------------------------------------------------
(* The invariant holds in every reachable state.                           *)
LEMMA HeaderInvNext ==
    ASSUME NoWrap
    PROVE  HeaderInv /\ [Next]_vars => HeaderInv'
  <1> SUFFICES ASSUME HeaderInv, [Next]_vars
               PROVE  HeaderInv'
    OBVIOUS
  <1>1. CASE BootStep
    BY <1>1, BootPreserves
  <1>2. CASE CallStep
    BY <1>2, CallPreserves
  <1>3. CASE GcStep
    BY <1>3, GcPreserves
  <1>4. CASE InvokeWrite \/ InvokeDelete \/ InvokeReset \/ InvokeEnsure
    BY <1>4, InvokePreserves DEF InvokeWrite, InvokeDelete, InvokeReset, InvokeEnsure
  <1>5. CASE PowerFail
    BY <1>5, FailurePreserves
  <1>6. CASE UNCHANGED vars
    BY <1>6 DEF vars, ramVars, HeaderInv, FlashShape, VersionInv, ActiveInv, Valid, Unmounted,
                gcArea
  <1>7. QED
    BY <1>1, <1>2, <1>3, <1>4, <1>5, <1>6 DEF Next, Step

(* Crash consistency of the area headers: at whatever flash operation      *)
(* power fails, and however often, _setup_areas mounts the area that the   *)
(* store was running on (or that GC had just committed), its two versions  *)
(* differ, and the running store agrees with the header on flash.          *)
THEOREM MountsActiveAreaAlways ==
    ASSUME NoWrap
    PROVE  Spec => []MountsActiveArea
  <1>1. Init => HeaderInv
    BY HeaderInvInit
  <1>2. HeaderInv /\ [Next]_vars => HeaderInv'
    BY HeaderInvNext
  <1>3. HeaderInv => MountsActiveArea
    BY HeaderInvMounts
  <1>4. QED
    BY <1>1, <1>2, <1>3, PTL DEF Spec
-----------------------------------------------------------------------------
(* The log of an area, and what it holds.                                  *)

Maps == [Keys -> Vals \cup {Absent}]

(* The records of key k before offset e, and the map they leave.           *)
Recs(cell, k, e) == {o \in Offsets : o < e /\ cell[o].st = "rec" /\ cell[o].key = k}

ValAt(cell, e) ==
    [k \in Keys |-> IF Recs(cell, k, e) = {} THEN Absent ELSE cell[Max(Recs(cell, k, e))].val]

(* A record starts at offset o, or the log ends there.                     *)
Boundary(cell, o, e) == o = e \/ (o \in Offsets /\ cell[o].st = "rec")

RecordAt(cell, q, e) ==
    /\ cell[q].key \in Keys
    /\ q + RecPages(cell[q].val) <= e
    /\ \A i \in Offsets : q < i /\ i < q + RecPages(cell[q].val) => cell[i].st = "cont"
    /\ Boundary(cell, q + RecPages(cell[q].val), e)

(* The pages before e are whole records, one after the other; those after  *)
(* it are erased, and page e itself may hold a record that was never       *)
(* completed.                                                              *)
Log(cell, e) ==
    /\ cell \in [Offsets -> Cells]
    /\ e \in 1 .. AreaPages
    /\ \A q \in Offsets : q < e <=> cell[q].st \in {"rec", "cont"}
    /\ \A q \in Offsets : q > e => cell[q].st = "erased"
    /\ \A q \in Offsets : cell[q].st = "rec" => RecordAt(cell, q, e)
    /\ Boundary(cell, 1, e)

(* An area from which the store can be mounted: a log whose contents fit.  *)
LogArea(cell) == /\ \E e \in 1 .. AreaPages : Log(cell, e)
                 /\ 1 + Map!Used(Contents(cell)) <= AreaPages

-----------------------------------------------------------------------------
(* The RAM table t, the entries of which find the cells cs, indexes map m. *)
IsLive(c) == c.st = "rec" /\ c.key \in Keys /\ c.val \in Vals

TableFor(t, cs, m) ==
    /\ t \in Seq(Entries)
    /\ \A i \in 1 .. Len(t) : /\ IsLive(cs[i])
                              /\ t[i].hash = Hash[cs[i].key]
                              /\ m[cs[i].key] = cs[i].val
    /\ \A i, j \in 1 .. Len(t) : cs[i].key = cs[j].key => i = j
    /\ \A i, j \in 1 .. Len(t) : i < j => t[i].hash >= t[j].hash
    /\ \A k \in Keys : m[k] # Absent => \E i \in 1 .. Len(t) : cs[i].key = k

(* Index i is the entry of key k, or the place for one.                    *)
SlotFor(t, cs, i, k, m) ==
    IF m[k] # Absent
    THEN i \in 1 .. Len(t) /\ cs[i].key = k
    ELSE /\ i \in 1 .. Len(t) + 1
         /\ \A j \in 1 .. Len(t) : IF j < i THEN t[j].hash >= Hash[k] ELSE t[j].hash <= Hash[k]

At(t, cell) == [i \in 1 .. Len(t) |-> cell[t[i].off]]

-----------------------------------------------------------------------------
(* The invariant of the store's contents.                                  *)
Log1    == flash[active].cell
Log2    == flash[gcArea].cell
Live    == Contents(Log1)
IsReset == req # NoReq /\ req.kind = "reset"

(* What the table indexes during GC; what GC leaves in the new area.       *)
Base   == IF IsReset THEN Map!Empty ELSE Live
Target == IF IsReset THEN Map!Empty
          ELSE IF CarriesRecord THEN Map!Effect(Live, req) ELSE Live

(* A write or delete in progress, when the table t finds the cells cs.     *)
Writing(t, cs) ==
    IsWrite => /\ oldsz = Map!PagesOf(Live[req.key])
               /\ req.kind = "delete" => oldsz # 0
               /\ req.kind = "write" => 1 + Map!Used(Live) - oldsz + NewPages <= AreaPages
               /\ SlotFor(t, cs, slot, req.key, Live)

(* The page at o is erased, or holds the beginning of the record that is   *)
(* being written.                                                          *)
InProgress(cell, o) ==
    o < AreaPages => cell[o].st = "erased" \/ (page > 0 /\ cell[o].st = "bad")

Indexed == TableFor(table, At(table, Log1), Live) /\ consumed = 1 + Map!Used(Live)

Ready == /\ Log(Log1, free) /\ Indexed
         /\ free < AreaPages => Log1[free].st = "erased"

ScanInv ==
    /\ req = NoReq
    /\ off \in 1 .. AreaPages
    /\ \E e \in 1 .. AreaPages : Log(Log1, e) /\ off <= e /\ Boundary(Log1, off, e)
    /\ TableFor(table, At(table, Log1), ValAt(Log1, off))
    /\ consumed = 1 + Map!Used(ValAt(Log1, off))

AppendInv ==
    /\ Log(Log1, free) /\ Indexed /\ InProgress(Log1, free)
    /\ IsWrite /\ Writing(table, At(table, Log1))
    /\ page < NewPages /\ free + NewPages <= AreaPages

(* Erasing has reached sector s: those from the second up to s are done.   *)
ErasedUpTo(cell, s) ==
    \A o \in Offsets : o \div SectorPages >= 1 /\ (s = 0 \/ o \div SectorPages < s) =>
                          cell[o].st = "erased"

GcConsumed == ~IsReset => consumed = 1 + Map!Used(Live)

EraseInv ==
    /\ TableFor(table, At(table, Log1), Base) /\ GcConsumed
    /\ Writing(table, At(table, Log1))
    /\ sec < NumSectors /\ ErasedUpTo(Log2, sec)

(* The entries that GC has dealt with point into the new area.             *)
Moved(i) == i < idx /\ ~(CarriesRecord /\ i = slot)
Source   == [i \in 1 .. Len(table) |->
                IF Moved(i) THEN Log2[table[i].off] ELSE Log1[table[i].off]]

Copied == \A k \in Keys :
            Contents(Log2)[k] = IF \E i \in 1 .. Len(table) : Moved(i) /\ Source[i].key = k
                                THEN Base[k] ELSE Absent

NewArea == /\ flash[gcArea].hdr = ErasedHeader
           /\ Log(Log2, off) /\ off = 1 + Map!Used(Contents(Log2))
           /\ InProgress(Log2, off)

CopyInv ==
    /\ NewArea /\ GcConsumed
    /\ TableFor(table, Source, Base) /\ Writing(table, Source)
    /\ idx \in 1 .. Len(table) + 1
    /\ Copied
    /\ pc = "copy" => \/ page = 0
                      \/ /\ idx <= Len(table) /\ ~(CarriesRecord /\ idx = slot)
                         /\ page < RecPages(Source[idx].val)
    /\ pc = "inject" => /\ idx = Len(table) + 1 /\ page < NewPages
                        /\ CarriesRecord /\ req.kind = "write"

HeaderReady ==
    /\ NewArea /\ page = 0
    /\ Contents(Log2) = Target
    /\ TableFor(table, At(table, Log2), Target)
    /\ ~IsReset => consumed = 1 + Map!Used(Target)
    /\ IsWrite => /\ oldsz = Map!PagesOf(Live[req.key])
                  /\ oldsz = 0 => Writing(table, At(table, Log2))

MountInv == (\E a \in Areas : Valid(flash, a)) => LogArea(flash[MountArea(flash)].cell)

AllErased(cell) == \A o \in Offsets : cell[o].st = "erased"

ContentInv ==
    /\ \A a \in Areas : flash[a].cell \in [Offsets -> Cells]
    /\ req \in Requests \cup {NoReq} /\ page \in Nat /\ sec \in Nat
    /\ MountInv
    /\ Unmounted => req = NoReq
    /\ pc = "fmt_erase" => sec < NumSectors /\ ErasedUpTo(flash[1].cell, sec)
    /\ pc = "fmt_header" => flash[1].hdr = ErasedHeader /\ AllErased(flash[1].cell)
    /\ pc = "scan" => ScanInv
    /\ pc = "idle" => req = NoReq /\ Ready
    /\ pc = "start" => req # NoReq /\ Ready
    /\ pc = "append" => AppendInv
    /\ pc = "erase" => EraseInv
    /\ pc \in {"copy", "inject"} => CopyInv
    /\ pc = "header" => HeaderReady

-----------------------------------------------------------------------------
(* Sizes.                                                                  *)

LEMMA SizeFacts ==
    /\ AreaPages \in Nat /\ AreaPages > 1
    /\ Offsets \subseteq Nat /\ \A o : o \in Offsets <=> o \in Nat /\ o >= 1 /\ o < AreaPages
    /\ \A v \in Vals \cup {Absent} : RecPages(v) \in Nat /\ RecPages(v) >= 1
    /\ \A v \in Vals \cup {Absent} : Map!PagesOf(v) \in Nat
    /\ \A v \in Vals : v # Absent /\ Map!PagesOf(v) = RecPages(v) /\ Map!PagesOf(v) # 0
    /\ Map!PagesOf(Absent) = 0
  <1>1. AreaPages \in Nat
    BY SizesAssumption DEF AreaPages
  <1>2. \A v \in Vals : Pages[v] \in Nat /\ Pages[v] >= 1 /\ v # Absent
    BY SizesAssumption, SentinelAssumption
  <1>3. QED
    BY <1>1, <1>2, SizesAssumption DEF Offsets, RecPages, Map!PagesOf

LEMMA SectorBound ==
    ASSUME NEW o \in Offsets
    PROVE  o \div SectorPages \in Nat /\ o \div SectorPages < NumSectors
  <1> DEFINE d == o \div SectorPages
             r == o % SectorPages
  <1>1. o \in Nat /\ o < AreaPages /\ SectorPages \in Nat /\ SectorPages > 0 /\ NumSectors \in Nat
    BY SizesAssumption, SizeFacts
  <1>2. d \in Nat /\ r \in Nat /\ o = SectorPages * d + r
    BY <1>1
  <1> HIDE DEF d, r
  <1>3. d < NumSectors
    <2> SUFFICES ASSUME d >= NumSectors PROVE FALSE
      BY <1>1, <1>2
    <2>1. PICK x \in Nat : d = NumSectors + x
      <3>1. d - NumSectors \in Nat /\ d = NumSectors + (d - NumSectors)
        BY <1>1, <1>2
      <3>2. QED
        BY <3>1
    <2>2. SectorPages * d = NumSectors * SectorPages + SectorPages * x
      BY <1>1, <2>1
    <2>3. SectorPages * x \in Nat
      BY <1>1, <2>1
    <2>4. QED
      BY <1>1, <1>2, <2>2, <2>3 DEF AreaPages
  <1>4. QED
    BY <1>2, <1>3 DEF d

(* The greatest element of a bounded set of naturals.                      *)
LEMMA MaxIsIn ==
    ASSUME NEW S \in SUBSET Nat, S # {}, NEW b \in Nat, \A x \in S : x <= b
    PROVE  Max(S) \in S /\ \A y \in S : y <= Max(S)
  <1> DEFINE R == OpToRel(<, Nat)
             D == {b - x : x \in S}
  <1>1. IsWellFoundedOn(R, Nat)
    BY NatLessThanWellFounded
  <1>2. \A x, y \in Nat : y < x => <<y, x>> \in R
    BY DEF OpToRel
  <1> HIDE DEF R
  <1>3. D \subseteq Nat /\ D # {}
    <2>1. \A x \in S : b - x \in Nat
      OBVIOUS
    <2>2. QED
      BY <2>1
  <1>4. PICK d \in D : \A y \in D : ~(<<y, d>> \in R)
    BY <1>1, <1>3, WFMin
  <1>5. PICK x \in S : d = b - x
    OBVIOUS
  <1>6. ASSUME NEW y \in S PROVE y <= x
    <2>1. b - y \in D /\ b - y \in Nat /\ d \in Nat
      BY <1>3
    <2>2. ~(b - y < d)
      BY <1>2, <1>4, <2>1
    <2>3. x \in Nat /\ y \in Nat
      OBVIOUS
    <2>4. QED
      BY <1>5, <2>2, <2>3
  <1>7. \E z \in S : \A y \in S : z >= y
    BY <1>6
  <1>8. QED
    BY <1>7 DEF Max

-----------------------------------------------------------------------------
(* The pages that a map takes.                                             *)

LEMMA UsedIs == \A m : Map!Used(m) = Cardinality(Map!UsedPages(m))
  <1>1. \A S : Map!Cardinality(S) = Cardinality(S)
    BY DEF Map!Cardinality, Map!IsFiniteSet, Cardinality, IsFiniteSet
  <1>2. QED
    BY <1>1 DEF Map!Used

LEMMA UsedFinite ==
    ASSUME NEW m \in Maps
    PROVE  IsFiniteSet(Map!UsedPages(m)) /\ Map!Used(m) \in Nat
  <1> DEFINE P(k) == {k} \X (1 .. Map!PagesOf(m[k]))
             F == {P(k) : k \in Keys}
             f == [k \in Keys |-> P(k)]
  <1>1. \A k \in Keys : IsFiniteSet(P(k))
    <2> SUFFICES ASSUME NEW k \in Keys PROVE IsFiniteSet(P(k))
      OBVIOUS
    <2>1. Map!PagesOf(m[k]) \in Int /\ 1 \in Int
      BY SizeFacts DEF Maps
    <2>2. IsFiniteSet(1 .. Map!PagesOf(m[k])) /\ IsFiniteSet({k})
      BY <2>1, FS_Interval, FS_Singleton
    <2>3. QED
      BY <2>2, FS_Product
  <1>2. f \in Surjection(Keys, F)
    BY DEF Surjection
  <1>3. IsFiniteSet(F)
    <2> HIDE DEF f, F
    <2>1. QED
      BY <1>2, KeysAssumption, FS_Surjection
  <1>4. IsFiniteSet(UNION F)
    <2>1. \A T \in F : IsFiniteSet(T)
      BY <1>1
    <2> HIDE DEF F
    <2>2. QED
      BY <1>3, <2>1, FS_UNION
  <1>5. QED
    BY <1>4, FS_CardinalityType, UsedIs DEF Map!UsedPages

LEMMA UsedEmpty == Map!Used(Map!Empty) = 0 /\ Map!Empty \in Maps
  <1>1. \A k \in Keys : Map!PagesOf(Map!Empty[k]) = 0
    BY SizeFacts DEF Map!Empty
  <1>2. Map!UsedPages(Map!Empty) = {}
    BY <1>1 DEF Map!UsedPages
  <1>3. QED
    BY <1>2, FS_EmptySet, UsedIs DEF Map!Empty, Maps

(* The pages of one key are apart from those of the others.                *)
LEMMA UsedRest ==
    ASSUME NEW m \in Maps, NEW k \in Keys
    PROVE  /\ [m EXCEPT ![k] = Absent] \in Maps
           /\ Map!Used(m) = Map!Used([m EXCEPT ![k] = Absent]) + Map!PagesOf(m[k])
  <1> DEFINE r == [m EXCEPT ![k] = Absent]
             P == {k} \X (1 .. Map!PagesOf(m[k]))
  <1>1. r \in Maps /\ Map!PagesOf(r[k]) = 0 /\ \A j \in Keys : j # k => r[j] = m[j]
    BY SizeFacts DEF Maps
  <1>2. Map!PagesOf(m[k]) \in Nat
    BY SizeFacts DEF Maps
  <1>3. Map!UsedPages(m) = Map!UsedPages(r) \cup P
    BY <1>1 DEF Map!UsedPages
  <1>4. Map!UsedPages(r) \cap P = {}
    BY <1>1 DEF Map!UsedPages
  <1>5. IsFiniteSet(P) /\ Cardinality(P) = Map!PagesOf(m[k])
    <2> DEFINE n == Map!PagesOf(m[k])
    <2>1. n \in Int /\ n \in Nat
      BY <1>2
    <2> HIDE DEF n
    <2>2. IsFiniteSet(1 .. n) /\ Cardinality(1 .. n) = n
      BY <2>1, FS_Interval
    <2>3. IsFiniteSet({k}) /\ Cardinality({k}) = 1
      BY FS_Singleton
    <2>4. IsFiniteSet({k} \X (1 .. n)) /\ Cardinality({k} \X (1 .. n)) = 1 * n
      <3>1. PICK S, T : S = {k} /\ T = 1 .. n
        OBVIOUS
      <3>2. IsFiniteSet(S) /\ IsFiniteSet(T) /\ Cardinality(S) = 1 /\ Cardinality(T) = n
        BY <2>2, <2>3, <3>1, Zenon
      <3>3. IsFiniteSet(S \X T) /\ Cardinality(S \X T) = Cardinality(S) * Cardinality(T)
        BY <3>2, FS_Product, Zenon
      <3>4. QED
        BY <3>1, <3>2, <3>3, Zenon
    <2>5. QED
      BY <2>1, <2>4 DEF n
  <1>6. IsFiniteSet(Map!UsedPages(r)) /\ Map!Used(r) \in Nat
    BY <1>1, UsedFinite
  <1> HIDE DEF P, r
  <1>7. Cardinality(Map!UsedPages(r) \cup P) = Cardinality(Map!UsedPages(r)) + Cardinality(P) - Cardinality({})
    BY <1>4, <1>5, <1>6, FS_Union
  <1>8. Cardinality({}) = 0
    BY FS_EmptySet
  <1>9. Map!Used(m) = Map!Used(r) + Map!PagesOf(m[k])
    <2>1. /\ Map!Used(m) = Cardinality(Map!UsedPages(r) \cup P)
          /\ Map!Used(r) = Cardinality(Map!UsedPages(r))
      BY <1>3, UsedIs
    <2>2. Map!Used(m) = Map!Used(r) + Map!PagesOf(m[k]) - 0
      BY <1>5, <1>7, <1>8, <2>1
    <2>3. QED
      BY <1>2, <1>6, <2>2
  <1>10. QED
    BY <1>1, <1>9 DEF r

LEMMA UsedUpdate ==
    ASSUME NEW m \in Maps, NEW k \in Keys, NEW v \in Vals \cup {Absent}
    PROVE  /\ [m EXCEPT ![k] = v] \in Maps
           /\ Map!Used(m) \in Nat /\ Map!PagesOf(m[k]) \in Nat /\ Map!PagesOf(v) \in Nat
           /\ Map!PagesOf(m[k]) <= Map!Used(m)
           /\ Map!Used([m EXCEPT ![k] = v]) = Map!Used(m) - Map!PagesOf(m[k]) + Map!PagesOf(v)
  <1> DEFINE n == [m EXCEPT ![k] = v]
             r == [m EXCEPT ![k] = Absent]
  <1>1. n \in Maps /\ n[k] = v /\ [n EXCEPT ![k] = Absent] = r
    BY DEF Maps
  <1>2. r \in Maps /\ Map!Used(m) = Map!Used(r) + Map!PagesOf(m[k])
    BY UsedRest
  <1> HIDE DEF n
  <1>3. Map!Used(n) = Map!Used(r) + Map!PagesOf(v)
    BY <1>1, UsedRest
  <1> HIDE DEF r
  <1>4. Map!Used(r) \in Nat /\ Map!PagesOf(m[k]) \in Nat /\ Map!PagesOf(v) \in Nat
    BY <1>2, UsedFinite, SizeFacts DEF Maps
  <1>5. QED
    BY <1>1, <1>2, <1>3, <1>4 DEF n

(* A part of a map takes no more pages than the map.                       *)
LEMMA UsedPart ==
    ASSUME NEW g \in Maps, NEW m \in Maps, \A k \in Keys : g[k] = m[k] \/ g[k] = Absent
    PROVE  Map!Used(g) <= Map!Used(m)
  <1>1. \A k \in Keys : 1 .. Map!PagesOf(g[k]) \subseteq 1 .. Map!PagesOf(m[k])
    BY SizeFacts
  <1>2. Map!UsedPages(g) \subseteq Map!UsedPages(m)
    BY <1>1 DEF Map!UsedPages
  <1>3. IsFiniteSet(Map!UsedPages(m))
    BY UsedFinite
  <1>4. QED
    BY <1>2, <1>3, FS_Subset, UsedIs

-----------------------------------------------------------------------------
(* What a log holds.                                                       *)

LEMMA CellTypes ==
    /\ \A c \in Cells : c.key \in Keys \cup {NoKey} /\ c.val \in Vals \cup {Absent}
    /\ \A st \in {"erased", "bad", "unsized", "cont"} : Blank(st) \in Cells /\ Blank(st).st = st
    /\ \A k \in Keys, v \in Vals \cup {Absent} : [st |-> "rec", key |-> k, val |-> v] \in Cells
  BY DEF Cells, Blank

LEMMA RecsMax ==
    ASSUME NEW cell, NEW k, NEW e, Recs(cell, k, e) # {}
    PROVE  /\ Max(Recs(cell, k, e)) \in Recs(cell, k, e)
           /\ \A o \in Recs(cell, k, e) : o <= Max(Recs(cell, k, e))
  <1>1. Recs(cell, k, e) \in SUBSET Nat /\ \A o \in Recs(cell, k, e) : o <= AreaPages
    BY SizeFacts DEF Recs
  <1>2. QED
    BY <1>1, SizeFacts, MaxIsIn

LEMMA ValAtMaps ==
    ASSUME NEW cell \in [Offsets -> Cells], NEW e
    PROVE  ValAt(cell, e) \in Maps
  <1> SUFFICES ASSUME NEW k \in Keys, Recs(cell, k, e) # {}
               PROVE  cell[Max(Recs(cell, k, e))].val \in Vals \cup {Absent}
    BY DEF ValAt, Maps
  <1>1. Max(Recs(cell, k, e)) \in Offsets
    <2>1. Max(Recs(cell, k, e)) \in Recs(cell, k, e)
      BY RecsMax, Zenon
    <2>2. QED
      BY <2>1, Zenon DEF Recs
  <1>2. QED
    BY <1>1, CellTypes

LEMMA ContentsMaps ==
    ASSUME NEW cell \in [Offsets -> Cells]
    PROVE  Contents(cell) \in Maps
  <1> SUFFICES ASSUME NEW k \in Keys, LogOf(cell, k) # {}
               PROVE  cell[Max(LogOf(cell, k))].val \in Vals \cup {Absent}
    BY DEF Contents, Maps
  <1>1. LogOf(cell, k) \in SUBSET Nat /\ \A o \in LogOf(cell, k) : o <= AreaPages
    BY SizeFacts DEF LogOf
  <1>2. Max(LogOf(cell, k)) \in Offsets
    BY <1>1, SizeFacts, MaxIsIn DEF LogOf
  <1>3. QED
    BY <1>2, CellTypes

LEMMA ContentsIs ==
    ASSUME NEW cell, NEW e, Log(cell, e)
    PROVE  Contents(cell) = ValAt(cell, e)
  <1> SUFFICES ASSUME NEW k \in Keys PROVE LogOf(cell, k) = Recs(cell, k, e)
    BY DEF Contents, ValAt
  <1>1. ASSUME NEW o \in LogOf(cell, k) PROVE o \in Recs(cell, k, e)
    <2>1. o \in Offsets /\ cell[o].st = "rec" /\ cell[o].key = k
      BY DEF LogOf
    <2>2. QED
      BY <2>1 DEF Recs, Log
  <1>2. ASSUME NEW o \in Recs(cell, k, e) PROVE o \in LogOf(cell, k)
    <2>1. o \in Offsets /\ cell[o].st = "rec" /\ cell[o].key = k /\ o < e /\ e \in Nat
      BY SizeFacts DEF Recs, Log
    <2>2. \A q \in 1 .. o - 1 : q \in Offsets /\ q < e
      BY <2>1, SizeFacts
    <2>3. QED
      BY <2>1, <2>2 DEF LogOf, Log
  <1>3. QED
    BY <1>1, <1>2

(* Only the pages before e count.                                          *)
LEMMA ValAtSame ==
    ASSUME NEW c, NEW x, NEW e, \A q \in Offsets : q < e => x[q] = c[q]
    PROVE  ValAt(x, e) = ValAt(c, e)
  <1> SUFFICES ASSUME NEW k \in Keys
               PROVE  /\ Recs(x, k, e) = Recs(c, k, e)
                      /\ Recs(c, k, e) # {} => x[Max(Recs(c, k, e))] = c[Max(Recs(c, k, e))]
    BY DEF ValAt
  <1>1. Recs(x, k, e) = Recs(c, k, e)
    BY DEF Recs
  <1>2. Recs(c, k, e) # {} => Max(Recs(c, k, e)) \in Offsets /\ Max(Recs(c, k, e)) < e
    <2>1. Recs(c, k, e) # {} => Max(Recs(c, k, e)) \in Recs(c, k, e)
      BY RecsMax, Zenon
    <2>2. \A q \in Recs(c, k, e) : q \in Offsets /\ q < e
      BY DEF Recs
    <2>3. QED
      BY <2>1, <2>2, Zenon
  <1>3. QED
    BY <1>1, <1>2

LEMMA ValAtStart ==
    ASSUME NEW c
    PROVE  ValAt(c, 1) = Map!Empty
  <1>1. \A k \in Keys : Recs(c, k, 1) = {}
    BY SizeFacts DEF Recs
  <1>2. QED
    BY <1>1 DEF ValAt, Map!Empty

(* One record further: its key now has its value.                          *)
LEMMA ValAtStep ==
    ASSUME NEW c, NEW o \in Offsets, NEW n \in Nat, n >= 1, c[o].st = "rec", c[o].key \in Keys,
           \A i \in Offsets : o < i /\ i < o + n => c[i].st # "rec"
    PROVE  ValAt(c, o + n) = [ValAt(c, o) EXCEPT ![c[o].key] = c[o].val]
  <1> DEFINE k0 == c[o].key
  <1>0. o \in Nat
    BY SizeFacts
  <1>1. ASSUME NEW k \in Keys, k # k0 PROVE ValAt(c, o + n)[k] = ValAt(c, o)[k]
    <2>1. ASSUME NEW q \in Offsets PROVE q \in Recs(c, k, o + n) <=> q \in Recs(c, k, o)
      <3>1. q \in Nat
        BY SizeFacts
      <3>2. q < o => q < o + n
        BY <1>0, <3>1
      <3>3. q < o + n /\ ~(q < o) => q = o \/ (o < q /\ q < o + n)
        BY <1>0, <3>1
      <3>4. QED
        BY <1>1, <3>2, <3>3 DEF Recs
    <2>2. Recs(c, k, o + n) = Recs(c, k, o)
      BY <2>1 DEF Recs
    <2>3. QED
      BY <2>2 DEF ValAt
  <1>2. ValAt(c, o + n)[k0] = c[o].val
    <2> DEFINE S == Recs(c, k0, o + n)
    <2>1. o \in S
      BY <1>0 DEF Recs
    <2>2. \A q \in S : q \in Nat /\ q <= o
      <3> SUFFICES ASSUME NEW q \in S PROVE q \in Nat /\ q <= o
        OBVIOUS
      <3>1. q \in Offsets /\ q < o + n /\ c[q].st = "rec"
        BY DEF Recs
      <3>2. q \in Nat
        BY <3>1, SizeFacts
      <3>3. QED
        BY <1>0, <3>1, <3>2
    <2>3. Max(S) \in S /\ o <= Max(S)
      BY <2>1, RecsMax
    <2> HIDE DEF S
    <2>4. Max(S) = o
      BY <1>0, <2>2, <2>3
    <2>5. QED
      BY <2>1, <2>4 DEF ValAt, S
  <1> HIDE DEF k0
  <1>3. k0 \in Keys
    BY DEF k0
  <1>4. ValAt(c, o + n) = [k \in Keys |-> ValAt(c, o + n)[k]] /\ ValAt(c, o) = [k \in Keys |-> ValAt(c, o)[k]]
    BY DEF ValAt
  <1>5. QED
    BY <1>1, <1>2, <1>3, <1>4 DEF k0

-----------------------------------------------------------------------------
(* Programming the pages of a record at the end e of a log.                *)

(* Until its last page is programmed the log is as before.                 *)
LEMMA LogPartial ==
    ASSUME NEW c, NEW e, Log(c, e), NEW x \in [Offsets -> Cells],
           \A q \in Offsets : q # e => x[q] = c[q],
           e \in Offsets => x[e].st \notin {"rec", "cont"}
    PROVE  Log(x, e) /\ Contents(x) = Contents(c)
  <1>0. e \in 1 .. AreaPages /\ e \in Nat
    BY SizeFacts DEF Log
  <1>1. \A q \in Offsets : q \in Nat
    BY SizeFacts
  <1>2. \A q \in Offsets : q < e <=> x[q].st \in {"rec", "cont"}
    <2> SUFFICES ASSUME NEW q \in Offsets PROVE q < e <=> x[q].st \in {"rec", "cont"}
      OBVIOUS
    <2>1. CASE q = e
      BY <1>0, <2>1
    <2>2. CASE q # e
      BY <2>2 DEF Log
    <2>3. QED
      BY <2>1, <2>2
  <1>3. \A q \in Offsets : q > e => x[q].st = "erased"
    BY <1>0, <1>1 DEF Log
  <1>4. \A q \in Offsets : x[q].st = "rec" => q # e /\ c[q].st = "rec" /\ x[q] = c[q]
    OBVIOUS
  <1>5. ASSUME NEW o, Boundary(c, o, e) PROVE Boundary(x, o, e)
    BY <1>5 DEF Boundary
  <1>6. ASSUME NEW q \in Offsets, x[q].st = "rec" PROVE RecordAt(x, q, e)
    <2>1. x[q] = c[q] /\ RecordAt(c, q, e)
      BY <1>4, <1>6 DEF Log
    <2>2. RecPages(c[q].val) \in Nat
      BY SizeFacts, CellTypes DEF Log
    <2>3. \A i \in Offsets : q < i /\ i < q + RecPages(c[q].val) => i # e
      BY <1>0, <1>1, <2>1, <2>2 DEF RecordAt
    <2>4. QED
      BY <1>5, <2>1, <2>3 DEF RecordAt
  <1>7. Boundary(x, 1, e)
    BY <1>5 DEF Log
  <1>8. Log(x, e)
    BY <1>0, <1>2, <1>3, <1>6, <1>7 DEF Log
  <1>9. ValAt(x, e) = ValAt(c, e)
    BY <1>0, <1>1, ValAtSame
  <1>10. QED
    BY <1>8, <1>9, ContentsIs

(* The last page completes the record.                                     *)
LEMMA LogFinal ==
    ASSUME NEW c, NEW e, Log(c, e), NEW k \in Keys, NEW v \in Vals \cup {Absent},
           e + RecPages(v) <= AreaPages,
           NEW x \in [Offsets -> Cells], x[e] = [st |-> "rec", key |-> k, val |-> v],
           \A q \in Offsets : e < q /\ q < e + RecPages(v) => x[q].st = "cont",
           \A q \in Offsets : q < e \/ q >= e + RecPages(v) => x[q] = c[q]
    PROVE  Log(x, e + RecPages(v)) /\ Contents(x) = [Contents(c) EXCEPT ![k] = v]
  <1> DEFINE n == RecPages(v)
             f == e + n
  <1>0. e \in Nat /\ e >= 1 /\ n \in Nat /\ n >= 1 /\ f \in Nat /\ e < f /\ e \in Offsets
    BY SizeFacts DEF Log
  <1>a. f \in 1 .. AreaPages
    BY SizeFacts DEF Log
  <1>1. \A q \in Offsets : q \in Nat
    BY SizeFacts
  <1>2. x[e].st = "rec" /\ x[e].key = k /\ x[e].val = v
    OBVIOUS
  <1>3. /\ \A q \in Offsets : e < q /\ q < f => x[q].st = "cont"
        /\ \A q \in Offsets : q < e \/ q >= f => x[q] = c[q]
    OBVIOUS
  <1> HIDE DEF n, f
  <1>4. ASSUME NEW q \in Offsets PROVE q < e \/ q = e \/ (e < q /\ q < f) \/ q >= f
    <2>1. q \in Nat
      BY <1>1
    <2>2. QED
      BY <1>0, <2>1
  <1>5. ASSUME NEW q \in Offsets PROVE q < f <=> x[q].st \in {"rec", "cont"}
    <2>0. q \in Nat /\ f \in Nat
      BY <1>0, <1>1
    <2>1. CASE q < e
      BY <1>0, <1>3, <2>0, <2>1 DEF Log
    <2>2. CASE q = e
      BY <1>0, <1>2, <2>2
    <2>3. CASE e < q /\ q < f
      BY <1>3, <2>3
    <2>4. CASE q >= f
      <3>1. ~(q < e) /\ ~(q < f)
        BY <1>0, <2>0, <2>4
      <3>2. QED
        BY <1>3, <2>4, <3>1 DEF Log
    <2>5. QED
      BY <1>4, <2>1, <2>2, <2>3, <2>4
  <1>6. ASSUME NEW q \in Offsets, q >= f PROVE x[q].st = "erased"
    <2>0. q \in Nat
      BY <1>1
    <2>1. q > e
      BY <1>0, <1>6, <2>0
    <2>2. QED
      BY <1>3, <1>6, <2>1 DEF Log
  <1>7. ASSUME NEW o, Boundary(c, o, e) PROVE Boundary(x, o, f)
    <2>1. CASE o = e
      BY <1>0, <1>2, <2>1 DEF Boundary
    <2>2. CASE o # e
      <3>1. o \in Offsets /\ c[o].st = "rec"
        BY <1>7, <2>2 DEF Boundary
      <3>2. o < e
        BY <3>1 DEF Log
      <3>3. QED
        BY <1>3, <3>1, <3>2 DEF Boundary
    <2>3. QED
      BY <2>1, <2>2
  <1>8. ASSUME NEW q \in Offsets, x[q].st = "rec" PROVE RecordAt(x, q, f)
    <2>1. CASE q = e
      BY <1>0, <1>2, <1>3, <2>1 DEF RecordAt, Boundary, f, n
    <2>2. CASE q # e
      <3>1. q < e /\ x[q] = c[q]
        <4>1. q < f
          BY <1>5, <1>8
        <4>2. ~(e < q)
          BY <1>3, <1>8, <4>1
        <4>3. q < e
          <5>1. ~(q >= f)
            BY <1>0, <1>1, <4>1
          <5>2. QED
            BY <1>4, <2>2, <4>2, <5>1
        <4>4. QED
          BY <1>3, <4>3
      <3>2. RecordAt(c, q, e)
        BY <1>8, <3>1 DEF Log
      <3>3. RecPages(c[q].val) \in Nat
        BY SizeFacts, CellTypes DEF Log
      <3>4. \A i \in Offsets : q < i /\ i < q + RecPages(c[q].val) => x[i] = c[i]
        <4>1. q + RecPages(c[q].val) <= e /\ q \in Nat
          BY <1>1, <3>2 DEF RecordAt
        <4>2. \A i \in Offsets : i < q + RecPages(c[q].val) => i < e
          <5> SUFFICES ASSUME NEW i \in Offsets, i < q + RecPages(c[q].val) PROVE i < e
            OBVIOUS
          <5>1. i \in Nat
            BY <1>1
          <5>2. QED
            BY <1>0, <3>3, <4>1, <5>1
        <4>3. QED
          BY <1>3, <4>2
      <3>5. q + RecPages(c[q].val) <= f
        <4>1. q + RecPages(c[q].val) <= e /\ q \in Nat /\ f \in Nat
          BY <1>0, <1>1, <3>2 DEF RecordAt
        <4>2. QED
          BY <1>0, <3>3, <4>1
      <3>6. QED
        BY <1>7, <3>1, <3>2, <3>4, <3>5 DEF RecordAt
    <2>3. QED
      BY <2>1, <2>2
  <1>9. Log(x, f)
    <2>1. ASSUME NEW q \in Offsets, q > f PROVE x[q].st = "erased"
      <3>1. q >= f
        BY <1>0, <1>1, <2>1
      <3>2. QED
        BY <1>6, <3>1
    <2>2. QED
      BY <1>a, <1>5, <1>7, <1>8, <2>1 DEF Log
  <1>10. ValAt(x, e) = ValAt(c, e)
    BY <1>3, ValAtSame
  <1>11. ValAt(x, e + n) = [ValAt(x, e) EXCEPT ![k] = v]
    <2>1. \A i \in Offsets : e < i /\ i < e + n => x[i].st # "rec"
      BY <1>3 DEF f
    <2>2. ValAt(x, e + n) = [ValAt(x, e) EXCEPT ![x[e].key] = x[e].val]
      BY <1>0, <1>2, <2>1, ValAtStep
    <2>3. QED
      BY <1>2, <2>2
  <1>12. QED
    BY <1>9, <1>10, <1>11, ContentsIs DEF f, n

(* One page program of record k -> v at offset o of an area.               *)
Partial(x, c, o) == /\ \A q \in Offsets : q # o => x[q] = c[q]
                    /\ x[o].st \in {"bad", "unsized"}

Final(x, c, o, k, v) ==
    /\ x[o] = [st |-> "rec", key |-> k, val |-> v]
    /\ \A q \in Offsets : o < q /\ q < o + RecPages(v) => x[q].st = "cont"
    /\ \A q \in Offsets : q < o \/ q >= o + RecPages(v) => x[q] = c[q]

LEMMA FinalLog ==
    ASSUME NEW c, NEW e, Log(c, e), NEW k \in Keys, NEW v \in Vals \cup {Absent},
           e + RecPages(v) <= AreaPages, NEW x \in [Offsets -> Cells], Final(x, c, e, k, v)
    PROVE  Log(x, e + RecPages(v)) /\ Contents(x) = [Contents(c) EXCEPT ![k] = v]
  BY LogFinal DEF Final

LEMMA ProgramCells ==
    ASSUME NEW area, area.cell \in [Offsets -> Cells], NEW o \in Offsets, NEW k \in Keys,
           NEW v \in Vals \cup {Absent}, NEW p \in Nat, p < RecPages(v)
    PROVE  LET x == ProgramPage(area, o, k, v, p).cell IN
           /\ x \in [Offsets -> Cells]
           /\ IF p + 1 < RecPages(v) THEN Partial(x, area.cell, o) /\ x[o].st = "bad"
                                     ELSE Final(x, area.cell, o, k, v)
  <1> DEFINE x == ProgramPage(area, o, k, v, p).cell
             r == [st |-> "rec", key |-> k, val |-> v]
             n == RecPages(v)
  <1>0. n \in Nat /\ n >= 1 /\ o \in Nat /\ p \in Nat /\ p < n
    BY SizeFacts
  <1>1. x = [q \in Offsets |->
               CASE q = o /\ p + 1 < n -> Blank("bad")
                 [] q = o /\ p + 1 >= n -> r
                 [] q \in o + 1 .. o + n - 1 /\ p + 1 = n -> Blank("cont")
                 [] OTHER -> area.cell[q]]
    BY DEF ProgramPage
  <1>2. r \in Cells /\ Blank("bad") \in Cells /\ Blank("cont") \in Cells
        /\ Blank("bad").st = "bad" /\ Blank("cont").st = "cont"
    BY CellTypes
  <1> HIDE DEF x, r, n
  <1>3. CASE p + 1 < n
    <2>0. p + 1 # n /\ ~(p + 1 >= n)
      BY <1>0, <1>3
    <2>1. x[o] = Blank("bad")
      BY <1>1, <1>3, <2>0
    <2>2. ASSUME NEW q \in Offsets, q # o PROVE x[q] = area.cell[q]
      BY <1>1, <2>0, <2>2
    <2>3. x = [q \in Offsets |-> x[q]] /\ \A q \in Offsets : x[q] \in Cells
      BY <1>1, <1>2, <2>1, <2>2
    <2>4. QED
      BY <1>2, <1>3, <2>1, <2>2, <2>3 DEF Partial, x, n
  <1>4. CASE ~(p + 1 < n)
    <2>1. p + 1 = n /\ p + 1 >= n
      BY <1>0, <1>4
    <2>0. \A q \in o + 1 .. o + n - 1 : q # o
      BY <1>0
    <2>2. x = [q \in Offsets |-> IF q = o THEN r
                                 ELSE IF q \in o + 1 .. o + n - 1 THEN Blank("cont")
                                 ELSE area.cell[q]]
      BY <1>1, <1>4, <2>0, <2>1
    <2>3. x \in [Offsets -> Cells] /\ x[o] = r
      BY <1>2, <2>2
    <2>4. ASSUME NEW q \in Offsets PROVE /\ o < q /\ q < o + n => x[q].st = "cont"
                                         /\ q < o \/ q >= o + n => x[q] = area.cell[q]
      <3>1. q \in Nat
        BY SizeFacts
      <3>2. (o < q /\ q < o + n) <=> q \in o + 1 .. o + n - 1
        BY <1>0, <3>1
      <3>3. (q < o \/ q >= o + n) => q # o /\ ~(o < q /\ q < o + n)
        BY <1>0, <3>1
      <3>4. o < q => q # o
        BY <1>0
      <3>5. QED
        BY <1>2, <2>2, <3>2, <3>3, <3>4
    <2>5. QED
      BY <1>4, <2>3, <2>4 DEF Final, x, n, r
  <1>5. QED
    BY <1>3, <1>4 DEF x, n

LEMMA TornCells ==
    ASSUME NEW area, area.cell \in [Offsets -> Cells], NEW o \in Offsets, NEW k \in Keys,
           NEW v \in Vals \cup {Absent}, NEW p \in Nat, p < RecPages(v),
           NEW y \in TornPage(area, o, k, v, p)
    PROVE  /\ y.cell \in [Offsets -> Cells]
           /\ \/ y.cell = area.cell
              \/ Partial(y.cell, area.cell, o)
              \/ p + 1 = RecPages(v) /\ Final(y.cell, area.cell, o, k, v)
  <1>0. RecPages(v) \in Nat
    BY SizeFacts
  <1>1. CASE y = area
    BY <1>1
  <1>2. CASE y = ProgramPage(area, o, k, v, p)
    <2> DEFINE x == ProgramPage(area, o, k, v, p).cell
    <2>1. /\ x \in [Offsets -> Cells]
          /\ IF p + 1 < RecPages(v) THEN Partial(x, area.cell, o)
                                    ELSE Final(x, area.cell, o, k, v)
      BY ProgramCells
    <2>2. p + 1 < RecPages(v) \/ p + 1 = RecPages(v)
      BY <1>0
    <2>3. y.cell = x
      BY <1>2
    <2> HIDE DEF x
    <2>4. QED
      BY <2>1, <2>2, <2>3
  <1>3. CASE \E st \in {"bad", "unsized"} :
               y = [hdr |-> area.hdr, cell |-> [area.cell EXCEPT ![o] = Blank(st)]]
    <2>1. PICK st \in {"bad", "unsized"} : y.cell = [area.cell EXCEPT ![o] = Blank(st)]
      BY <1>3
    <2>2. Blank(st) \in Cells /\ Blank(st).st = st
      BY CellTypes
    <2>3. QED
      BY <2>1, <2>2 DEF Partial
  <1>4. QED
    BY <1>1, <1>2, <1>3, TornAssumption DEF TornPage

-----------------------------------------------------------------------------
(* The RAM table.                                                          *)

LEMMA LeastIndex ==
    ASSUME NEW n \in Nat, NEW S \in SUBSET (1 .. n), S # {}
    PROVE  \E i \in S : \A j \in 1 .. i - 1 : j \notin S
  <1> DEFINE R == OpToRel(<, Nat)
  <1>1. IsWellFoundedOn(R, Nat)
    BY NatLessThanWellFounded
  <1>2. \A x, y \in Nat : y < x => <<y, x>> \in R
    BY DEF OpToRel
  <1> HIDE DEF R
  <1>3. S \subseteq Nat
    OBVIOUS
  <1>4. PICK i \in S : \A y \in S : ~(<<y, i>> \in R)
    BY <1>1, <1>3, WFMin
  <1>5. i \in Nat
    BY <1>3
  <1>6. ASSUME NEW j \in 1 .. i - 1 PROVE j \notin S
    <2>1. j \in Nat /\ j < i
      BY <1>5
    <2>2. QED
      BY <1>2, <1>4, <1>5, <2>1
  <1>7. QED
    BY <1>6

(* Searching the table finds the entry of a key, or where it would go.     *)
LEMMA FindFacts ==
    ASSUME NEW m, TableFor(table, At(table, Log1), m), NEW k \in Keys
    PROVE  /\ SlotFor(table, At(table, Log1), FindIdx(k), k, m)
           /\ Found(k) <=> m[k] # Absent
           /\ Found(k) => StoredVal(k) = m[k]
  <1> DEFINE n == Len(table)
             i == FindIdx(k)
             C(j) == Log1[table[j].off]
  <1>0. n \in Nat /\ Hash[k] \in Nat /\ \A j \in 1 .. n : table[j] \in Entries /\ table[j].hash \in Nat
    <2>1. table \in Seq(Entries)
      BY DEF TableFor
    <2>2. Hash[k] \in Nat
      BY SizesAssumption
    <2>3. n \in Nat /\ \A j \in 1 .. n : table[j] \in Entries
      BY <2>1
    <2>4. QED
      BY <2>2, <2>3 DEF Entries
  <1>1. \A j \in 1 .. n : At(table, Log1)[j] = C(j)
    BY DEF At
  <1>2. \A j \in 1 .. n : /\ C(j).st = "rec" /\ C(j).key \in Keys /\ C(j).val \in Vals
                          /\ table[j].hash = Hash[C(j).key] /\ m[C(j).key] = C(j).val
    BY <1>1 DEF TableFor, IsLive
  <1>3. \A j \in 1 .. n : (ReadKey(table[j], k) = "ok" <=> C(j).key = k)
                          /\ (ReadKey(table[j], k) # "item_not_found" <=> C(j).key = k)
    BY <1>2 DEF ReadKey, Log1
  <1>4. i \in 1 .. n + 1 /\ StopsAt(i, k) /\ \A j \in 1 .. i - 1 : ~StopsAt(j, k)
    <2> DEFINE S == {j \in 1 .. n + 1 : StopsAt(j, k)}
    <2>1. n + 1 \in S
      BY <1>0 DEF StopsAt
    <2>2. n + 1 \in Nat /\ S \in SUBSET (1 .. n + 1)
      BY <1>0
    <2>3. PICK a \in S : \A j \in 1 .. a - 1 : j \notin S
      <3> HIDE DEF S
      <3>1. QED
        BY <2>1, <2>2, LeastIndex
    <2>4. \A j \in 1 .. a - 1 : j \in 1 .. n + 1
      BY <2>2
    <2>5. \E b \in 1 .. n + 1 : StopsAt(b, k) /\ \A j \in 1 .. b - 1 : ~StopsAt(j, k)
      BY <2>3, <2>4
    <2>6. QED
      BY <2>5 DEF FindIdx
  <1> HIDE DEF i
  <1>5. i \in Nat /\ (i = n + 1 \/ i \in 1 .. n)
    BY <1>0, <1>4
  <1>6. ASSUME NEW j \in 1 .. n, j < i
        PROVE  table[j].hash >= Hash[k] /\ (table[j].hash = Hash[k] => C(j).key # k)
    <2>1. ~StopsAt(j, k)
      BY <1>4, <1>5, <1>6
    <2>2. ~(Hash[k] > table[j].hash) /\ ~(Hash[k] = table[j].hash /\ C(j).key = k)
      BY <1>3, <2>1 DEF StopsAt
    <2>3. QED
      BY <1>0, <2>2
  <1>7. \A a, b \in 1 .. n : a < b => table[a].hash >= table[b].hash
    BY DEF TableFor
  <1>8. CASE m[k] # Absent
    <2>1. PICK j \in 1 .. n : C(j).key = k
      BY <1>1, <1>8 DEF TableFor
    <2>2. table[j].hash = Hash[k]
      BY <1>2, <2>1
    <2>3. ~(j < i)
      BY <1>6, <2>1, <2>2
    <2>4. i \in 1 .. n /\ i <= j
      BY <1>0, <1>5, <2>3
    <2>5. ~(Hash[k] > table[i].hash)
      <3>1. CASE i = j
        BY <1>0, <2>2, <3>1
      <3>2. CASE i # j
        <4>1. table[i].hash >= table[j].hash
          BY <1>5, <1>7, <2>4, <3>2
        <4>2. QED
          BY <1>0, <2>2, <2>4, <4>1
      <3>3. QED
        BY <3>1, <3>2
    <2>6. Hash[k] = table[i].hash /\ C(i).key = k
      <3>1. i # n + 1
        BY <1>0, <2>4
      <3>2. QED
        BY <1>3, <1>4, <2>4, <2>5, <3>1 DEF StopsAt
    <2>7. ReadKey(table[i], k) = "ok" /\ i <= n
      BY <1>0, <1>3, <2>4, <2>6
    <2>8. Found(k)
      BY <2>6, <2>7 DEF Found, i
    <2>9. StoredVal(k) = m[k]
      BY <1>2, <2>4, <2>6 DEF StoredVal, i, Log1
    <2>10. SlotFor(table, At(table, Log1), i, k, m)
      BY <1>1, <1>8, <2>4, <2>6 DEF SlotFor
    <2>11. QED
      BY <1>8, <2>8, <2>9, <2>10 DEF i
  <1>9. CASE m[k] = Absent
    <2>1. \A j \in 1 .. n : C(j).key # k
      BY <1>2, <1>9, SentinelAssumption
    <2>2. ~Found(k)
      <3>1. i <= n => ReadKey(table[i], k) # "ok"
        BY <1>0, <1>3, <1>4, <2>1
      <3>2. QED
        BY <3>1 DEF Found, i
    <2>3. i \in 1 .. n => Hash[k] > table[i].hash
      <3>1. i \in 1 .. n => i # n + 1
        BY <1>0
      <3>2. QED
        BY <1>3, <1>4, <2>1, <3>1 DEF StopsAt
    <2>4. ASSUME NEW j \in 1 .. n, ~(j < i) PROVE table[j].hash <= Hash[k]
      <3>1. i \in 1 .. n /\ (i = j \/ i < j)
        BY <1>0, <1>5, <2>4
      <3>2. table[i].hash >= table[j].hash
        BY <1>0, <1>7, <3>1
      <3>3. QED
        BY <1>0, <2>3, <3>1, <3>2
    <2>5. SlotFor(table, At(table, Log1), i, k, m)
      BY <1>4, <1>6, <1>9, <2>4 DEF SlotFor
    <2>6. QED
      BY <1>9, <2>2, <2>5 DEF i
  <1>10. QED
    BY <1>8, <1>9

LEMMA RemoveAtElements ==
    ASSUME NEW S, NEW s \in Seq(S), NEW n \in 1 .. Len(s)
    PROVE  /\ RemoveAt(s, n) \in Seq(S) /\ Len(RemoveAt(s, n)) = Len(s) - 1
           /\ \A i \in 1 .. Len(s) - 1 : RemoveAt(s, n)[i] = IF i < n THEN s[i] ELSE s[i + 1]
  <1> DEFINE lo == SubSeq(s, 1, n - 1)
             hi == SubSeq(s, n + 1, Len(s))
             l == Len(s)
  <1>1. l \in Nat /\ n \in Nat /\ n >= 1 /\ n <= l /\ \A i \in 1 .. l : s[i] \in S
    OBVIOUS
  <1>2. lo \in Seq(S) /\ Len(lo) = n - 1 /\ \A i \in 1 .. n - 1 : lo[i] = s[i]
    <2>1. \A i \in 1 .. n - 1 : s[i] \in S
      BY <1>1
    <2>2. lo \in Seq(S) /\ Len(lo) = (IF 1 <= n - 1 THEN (n - 1) - 1 + 1 ELSE 0)
          /\ \A i \in 1 .. (n - 1) - 1 + 1 : lo[i] = s[1 + i - 1]
      BY <1>1, <2>1, SubSeqProperties
    <2> HIDE DEF lo
    <2>3. QED
      BY <1>1, <2>2
  <1>3. hi \in Seq(S) /\ Len(hi) = l - n /\ \A i \in 1 .. l - n : hi[i] = s[n + i]
    <2>1. \A i \in n + 1 .. l : s[i] \in S
      BY <1>1
    <2>2. hi \in Seq(S) /\ Len(hi) = (IF n + 1 <= l THEN l - (n + 1) + 1 ELSE 0)
          /\ \A i \in 1 .. l - (n + 1) + 1 : hi[i] = s[(n + 1) + i - 1]
      BY <1>1, <2>1, SubSeqProperties
    <2> HIDE DEF hi
    <2>3. QED
      BY <1>1, <2>2
  <1>4. RemoveAt(s, n) = lo \o hi
    BY DEF RemoveAt
  <1> HIDE DEF lo, hi, l
  <1>5. /\ lo \o hi \in Seq(S) /\ Len(lo \o hi) = Len(lo) + Len(hi)
        /\ \A i \in 1 .. Len(lo) + Len(hi) :
              (lo \o hi)[i] = IF i <= Len(lo) THEN lo[i] ELSE hi[i - Len(lo)]
    BY <1>2, <1>3, ConcatProperties
  <1>6. ASSUME NEW i \in 1 .. l - 1 PROVE (lo \o hi)[i] = IF i < n THEN s[i] ELSE s[i + 1]
    <2>1. i \in 1 .. Len(lo) + Len(hi)
      BY <1>1, <1>2, <1>3
    <2>2. CASE i < n
      <3>1. i <= Len(lo) /\ i \in 1 .. n - 1
        BY <1>1, <1>2, <2>2
      <3>2. QED
        BY <1>2, <1>5, <2>1, <2>2, <3>1
    <2>3. CASE ~(i < n)
      <3>1. ~(i <= Len(lo)) /\ i - Len(lo) \in 1 .. l - n /\ n + (i - Len(lo)) = i + 1
        BY <1>1, <1>2, <2>3
      <3>2. QED
        BY <1>3, <1>5, <2>1, <2>3, <3>1
    <2>4. QED
      BY <2>2, <2>3
  <1>7. Len(lo \o hi) = l - 1
    BY <1>1, <1>2, <1>3, <1>5
  <1>8. QED
    BY <1>4, <1>5, <1>6, <1>7 DEF l

LEMMA InsertAtElements ==
    ASSUME NEW S, NEW s \in Seq(S), NEW n \in 1 .. Len(s) + 1, NEW x \in S
    PROVE  /\ InsertAt(s, n, x) \in Seq(S) /\ Len(InsertAt(s, n, x)) = Len(s) + 1
           /\ \A i \in 1 .. Len(s) + 1 :
                InsertAt(s, n, x)[i] = IF i < n THEN s[i] ELSE IF i = n THEN x ELSE s[i - 1]
  <1> DEFINE lo == SubSeq(s, 1, n - 1)
             hi == SubSeq(s, n, Len(s))
             mid == <<x>>
             l == Len(s)
  <1>1. l \in Nat /\ n \in Nat /\ n >= 1 /\ n <= l + 1 /\ \A i \in 1 .. l : s[i] \in S
    OBVIOUS
  <1>2. lo \in Seq(S) /\ Len(lo) = n - 1 /\ \A i \in 1 .. n - 1 : lo[i] = s[i]
    <2>1. \A i \in 1 .. n - 1 : s[i] \in S
      BY <1>1
    <2>2. lo \in Seq(S) /\ Len(lo) = (IF 1 <= n - 1 THEN (n - 1) - 1 + 1 ELSE 0)
          /\ \A i \in 1 .. (n - 1) - 1 + 1 : lo[i] = s[1 + i - 1]
      BY <1>1, <2>1, SubSeqProperties
    <2> HIDE DEF lo
    <2>3. QED
      BY <1>1, <2>2
  <1>3. hi \in Seq(S) /\ Len(hi) = l - n + 1 /\ \A i \in 1 .. l - n + 1 : hi[i] = s[n + i - 1]
    <2>1. \A i \in n .. l : s[i] \in S
      BY <1>1
    <2>2. hi \in Seq(S) /\ Len(hi) = (IF n <= l THEN l - n + 1 ELSE 0)
          /\ \A i \in 1 .. l - n + 1 : hi[i] = s[n + i - 1]
      BY <1>1, <2>1, SubSeqProperties
    <2> HIDE DEF hi
    <2>3. QED
      BY <1>1, <2>2
  <1>4. mid \in Seq(S) /\ Len(mid) = 1 /\ mid[1] = x
    OBVIOUS
  <1>5. InsertAt(s, n, x) = (lo \o mid) \o hi
    BY DEF InsertAt
  <1> HIDE DEF lo, hi, l, mid
  <1> DEFINE u == lo \o mid
  <1>6. u \in Seq(S) /\ Len(u) = n /\ \A i \in 1 .. n : u[i] = IF i < n THEN s[i] ELSE x
    <2>1. /\ u \in Seq(S) /\ Len(u) = Len(lo) + Len(mid)
          /\ \A i \in 1 .. Len(lo) + Len(mid) :
                u[i] = IF i <= Len(lo) THEN lo[i] ELSE mid[i - Len(lo)]
      BY <1>2, <1>4, ConcatProperties
    <2> HIDE DEF u
    <2>2. Len(lo) + Len(mid) = n
      BY <1>1, <1>2, <1>4
    <2>3. ASSUME NEW i \in 1 .. n PROVE u[i] = IF i < n THEN s[i] ELSE x
      <3>1. CASE i < n
        <4>1. i <= Len(lo) /\ i \in 1 .. n - 1
          BY <1>1, <1>2, <3>1
        <4>2. QED
          BY <1>2, <2>1, <2>2, <3>1, <4>1
      <3>2. CASE ~(i < n)
        <4>1. ~(i <= Len(lo)) /\ i - Len(lo) = 1
          BY <1>1, <1>2, <3>2
        <4>2. QED
          BY <1>4, <2>1, <2>2, <3>2, <4>1
      <3>3. QED
        BY <3>1, <3>2
    <2>4. QED
      BY <2>1, <2>2, <2>3
  <1> HIDE DEF u
  <1>7. /\ u \o hi \in Seq(S) /\ Len(u \o hi) = Len(u) + Len(hi)
        /\ \A i \in 1 .. Len(u) + Len(hi) :
              (u \o hi)[i] = IF i <= Len(u) THEN u[i] ELSE hi[i - Len(u)]
    BY <1>3, <1>6, ConcatProperties
  <1>8. Len(u) + Len(hi) = l + 1
    BY <1>1, <1>3, <1>6
  <1>9. ASSUME NEW i \in 1 .. l + 1
        PROVE  (u \o hi)[i] = IF i < n THEN s[i] ELSE IF i = n THEN x ELSE s[i - 1]
    <2>1. CASE i <= n
      <3>1. i \in 1 .. n /\ i <= Len(u) /\ (i < n \/ i = n)
        BY <1>1, <1>6, <2>1
      <3>2. QED
        BY <1>1, <1>6, <1>7, <1>8, <3>1
    <2>2. CASE ~(i <= n)
      <3>1. ~(i <= Len(u)) /\ i - Len(u) \in 1 .. l - n + 1 /\ n + (i - Len(u)) - 1 = i - 1
            /\ ~(i < n) /\ i # n
        BY <1>1, <1>6, <2>2
      <3>2. QED
        BY <1>3, <1>7, <1>8, <3>1
    <2>3. QED
      BY <2>1, <2>2
  <1>10. QED
    BY <1>5, <1>7, <1>8, <1>9 DEF l, u

(* A table whose entries are those of other keys, in the same order, and   *)
(* the one at p, for key k with value v.                                   *)
Derived(t, cs, t2, c2, k, v, p, h) ==
    /\ IF v = Absent THEN p = 0 ELSE p \in 1 .. Len(t2)
    /\ \A j \in 1 .. Len(t2) :
         /\ j = p => /\ t2[j].hash = Hash[k]
                     /\ c2[j] = [st |-> "rec", key |-> k, val |-> v]
         /\ j # p => /\ h[j] \in 1 .. Len(t) /\ cs[h[j]].key # k
                     /\ t2[j] = t[h[j]] /\ c2[j] = cs[h[j]]
         /\ j < p => t2[j].hash >= Hash[k]
         /\ p # 0 /\ j > p => t2[j].hash <= Hash[k]
    /\ \A i, j \in 1 .. Len(t2) : i < j /\ i # p /\ j # p => h[i] < h[j]
    /\ \A l \in 1 .. Len(t) : cs[l].key # k => \E j \in 1 .. Len(t2) : j # p /\ h[j] = l

LEMMA TableFrom ==
    ASSUME NEW t, NEW cs, NEW m \in Maps, TableFor(t, cs, m), NEW k \in Keys,
           NEW v \in Vals \cup {Absent}, NEW t2 \in Seq(Entries), NEW c2, NEW p \in Nat,
           NEW h \in [1 .. Len(t2) -> Int], Derived(t, cs, t2, c2, k, v, p, h)
    PROVE  TableFor(t2, c2, [m EXCEPT ![k] = v])
  <1> DEFINE n == [m EXCEPT ![k] = v]
  <1>1. \A j \in Keys : n[j] = IF j = k THEN v ELSE m[j]
    BY DEF Maps
  <1>2. ASSUME NEW j \in 1 .. Len(t2), j = p
        PROVE  /\ IsLive(c2[j]) /\ c2[j].key = k
               /\ t2[j].hash = Hash[c2[j].key] /\ n[c2[j].key] = c2[j].val
    <2>1. v # Absent
      BY <1>2 DEF Derived
    <2>2. c2[j].st = "rec" /\ c2[j].key = k /\ c2[j].val = v
      BY <1>2 DEF Derived
    <2>3. QED
      BY <1>1, <1>2, <2>1, <2>2 DEF IsLive, Derived
  <1> HIDE DEF n
  <1>3. ASSUME NEW j \in 1 .. Len(t2), j # p
        PROVE  /\ IsLive(c2[j]) /\ c2[j].key # k
               /\ t2[j].hash = Hash[c2[j].key] /\ n[c2[j].key] = c2[j].val
    <2>1. /\ h[j] \in 1 .. Len(t) /\ cs[h[j]].key # k /\ t2[j] = t[h[j]] /\ c2[j] = cs[h[j]]
      BY <1>3 DEF Derived
    <2>2. IsLive(cs[h[j]]) /\ t[h[j]].hash = Hash[cs[h[j]].key] /\ m[cs[h[j]].key] = cs[h[j]].val
      BY <2>1 DEF TableFor
    <2>3. QED
      BY <1>1, <2>1, <2>2 DEF IsLive
  <1>4. \A j \in 1 .. Len(t2) : j \in Nat
    OBVIOUS
  <1>5. ASSUME NEW i \in 1 .. Len(t2), NEW j \in 1 .. Len(t2), c2[i].key = c2[j].key
        PROVE  i = j
    <2>1. CASE i = p \/ j = p
      BY <1>2, <1>3, <1>5, <2>1
    <2>2. CASE i # p /\ j # p
      <3>1. /\ h[i] \in 1 .. Len(t) /\ h[j] \in 1 .. Len(t) /\ cs[h[i]].key = cs[h[j]].key
        BY <1>5, <2>2 DEF Derived
      <3>2. h[i] = h[j] /\ h[i] \in Int
        BY <3>1 DEF TableFor
      <3>3. ~(i < j) /\ ~(j < i)
        BY <2>2, <3>2 DEF Derived
      <3>4. QED
        BY <1>4, <3>3
    <2>3. QED
      BY <2>1, <2>2
  <1>6. ASSUME NEW i \in 1 .. Len(t2), NEW j \in 1 .. Len(t2), i < j
        PROVE  t2[i].hash >= t2[j].hash
    <2>1. CASE i = p
      <3>1. t2[i].hash = Hash[k] /\ j > p /\ p # 0
        BY <1>4, <1>6, <2>1 DEF Derived
      <3>2. t2[j].hash <= Hash[k] /\ t2[j].hash \in Nat /\ Hash[k] \in Nat
        <4>1. t2[j].hash <= Hash[k]
          BY <3>1 DEF Derived
        <4>2. t2[j] \in Entries
          OBVIOUS
        <4>3. QED
          BY <4>1, <4>2, SizesAssumption DEF Entries
      <3>3. QED
        BY <3>1, <3>2
    <2>2. CASE j = p
      <3>1. t2[j].hash = Hash[k] /\ i < p
        BY <1>6, <2>2 DEF Derived
      <3>2. QED
        BY <3>1 DEF Derived
    <2>3. CASE i # p /\ j # p
      <3>1. h[i] < h[j] /\ h[i] \in 1 .. Len(t) /\ h[j] \in 1 .. Len(t)
            /\ t2[i] = t[h[i]] /\ t2[j] = t[h[j]]
        BY <1>6, <2>3 DEF Derived
      <3>2. QED
        BY <3>1 DEF TableFor
    <2>4. QED
      BY <2>1, <2>2, <2>3
  <1>7. ASSUME NEW q \in Keys, n[q] # Absent PROVE \E j \in 1 .. Len(t2) : c2[j].key = q
    <2>1. CASE q = k
      <3>1. p \in 1 .. Len(t2)
        BY <1>1, <1>7, <2>1 DEF Derived
      <3>2. QED
        BY <1>2, <2>1, <3>1
    <2>2. CASE q # k
      <3>1. m[q] # Absent
        BY <1>1, <1>7, <2>2
      <3>2. PICK l \in 1 .. Len(t) : cs[l].key = q
        BY <3>1 DEF TableFor
      <3>3. PICK j \in 1 .. Len(t2) : j # p /\ h[j] = l
        BY <2>2, <3>2 DEF Derived
      <3>4. c2[j].key = q
        BY <3>2, <3>3 DEF Derived
      <3>5. QED
        BY <3>4
    <2>3. QED
      BY <2>1, <2>2
  <1>8. \A j \in 1 .. Len(t2) : /\ IsLive(c2[j]) /\ t2[j].hash = Hash[c2[j].key]
                                /\ n[c2[j].key] = c2[j].val
    BY <1>2, <1>3
  <1>9. TableFor(t2, c2, n)
    BY <1>5, <1>6, <1>7, <1>8 DEF TableFor
  <1>10. QED
    BY <1>9 DEF n

(* _mtb_kvstore_update_ram_table keeps the table in step with the log.     *)
LEMMA UpdateFor ==
    ASSUME NEW t, NEW cs, NEW m \in Maps, TableFor(t, cs, m), NEW k \in Keys,
           NEW v \in Vals \cup {Absent}, NEW i, SlotFor(t, cs, i, k, m),
           v = Absent => m[k] # Absent, NEW o, NEW cell,
           v # Absent => o \in Offsets /\ cell[o] = [st |-> "rec", key |-> k, val |-> v],
           \A j \in 1 .. Len(t) : (m[k] # Absent /\ j = i) \/ cell[t[j].off] = cs[j],
           NEW t2, t2 = UpdateRamTable(t, i, k, v, Map!PagesOf(m[k]), o)
    PROVE  TableFor(t2, At(t2, cell), [m EXCEPT ![k] = v])
  <1> DEFINE l == Len(t)
             e == [hash |-> Hash[k], off |-> o]
             c2 == At(t2, cell)
  <1>0. t \in Seq(Entries) /\ l \in Nat /\ Hash[k] \in Nat
    BY SizesAssumption DEF TableFor
  <1>1. \A j \in 1 .. l : t[j] \in Entries
    BY <1>0
  <1>2. m[k] \in Vals \cup {Absent} /\ (Map!PagesOf(m[k]) = 0 <=> m[k] = Absent)
    BY SizeFacts DEF Maps
  <1>3. m[k] # Absent => i \in 1 .. l /\ \A j \in 1 .. l : j # i => cs[j].key # k
    BY DEF SlotFor, TableFor
  <1>4. m[k] = Absent => \A j \in 1 .. l : cs[j].key # k
    BY SentinelAssumption DEF TableFor, IsLive
  <1>5. v # Absent => e \in Entries /\ e.hash = Hash[k] /\ e.off = o
    BY <1>0 DEF Entries
  <1>6. \A j \in 1 .. Len(t2) : c2[j] = cell[t2[j].off]
    BY DEF At
  <1>7. CASE v = Absent
    <2>1. m[k] # Absent /\ i \in 1 .. l /\ i \in Nat
      BY <1>0, <1>3, <1>7
    <2>2. t2 = RemoveAt(t, i)
      BY <1>7 DEF UpdateRamTable
    <2>3. /\ t2 \in Seq(Entries) /\ Len(t2) = l - 1
          /\ \A j \in 1 .. l - 1 : t2[j] = IF j < i THEN t[j] ELSE t[j + 1]
      <3>1. /\ RemoveAt(t, i) \in Seq(Entries) /\ Len(RemoveAt(t, i)) = Len(t) - 1
            /\ \A j \in 1 .. Len(t) - 1 : RemoveAt(t, i)[j] = IF j < i THEN t[j] ELSE t[j + 1]
        BY <1>0, <2>1, RemoveAtElements, Zenon
      <3>2. QED
        BY <2>2, <3>1, Zenon
    <2> DEFINE h == [j \in 1 .. Len(t2) |-> IF j < i THEN j ELSE j + 1]
    <2>4. h \in [1 .. Len(t2) -> Int]
      BY <1>0, <2>3
    <2>5. ASSUME NEW j \in 1 .. Len(t2)
          PROVE  /\ h[j] \in 1 .. l /\ h[j] # i /\ t2[j] = t[h[j]]
      BY <1>0, <2>1, <2>3
    <2>6. \A a, b \in 1 .. Len(t2) : a < b => h[a] < h[b]
      BY <1>0, <2>1, <2>3
    <2>7. ASSUME NEW a \in 1 .. l, cs[a].key # k PROVE \E j \in 1 .. Len(t2) : j # 0 /\ h[j] = a
      <3>0. a # i
        BY <2>1, <2>7 DEF SlotFor
      <3>1. CASE a < i
        <4>1. a \in 1 .. Len(t2) /\ h[a] = a /\ a # 0
          BY <1>0, <2>1, <2>3, <3>1
        <4>2. QED
          BY <4>1
      <3>2. CASE ~(a < i)
        <4>1. a - 1 \in 1 .. Len(t2) /\ h[a - 1] = a /\ a - 1 # 0
          BY <1>0, <2>1, <2>3, <3>0, <3>2
        <4>2. QED
          BY <4>1
      <3>3. QED
        BY <3>1, <3>2
    <2> HIDE DEF h, c2, l, e
    <2>8. ASSUME NEW j \in 1 .. Len(t2)
          PROVE  /\ h[j] \in 1 .. l /\ cs[h[j]].key # k /\ t2[j] = t[h[j]] /\ c2[j] = cs[h[j]]
      BY <1>3, <1>6, <2>1, <2>5 DEF l
    <2>9. \A j \in 1 .. Len(t2) : j # 0 /\ ~(j < 0)
      BY <1>0, <2>3
    <2>a. Derived(t, cs, t2, c2, k, v, 0, h)
      BY <1>7, <2>6, <2>7, <2>8, <2>9 DEF Derived, l
    <2>10. TableFor(t2, c2, [m EXCEPT ![k] = v])
      BY <2>3, <2>4, <2>a, TableFrom
    <2>11. QED
      BY <2>10 DEF c2
  <1>8. CASE v # Absent /\ m[k] = Absent
    <2>1. /\ i \in 1 .. l + 1 /\ i \in Nat
          /\ \A j \in 1 .. l : IF j < i THEN t[j].hash >= Hash[k] ELSE t[j].hash <= Hash[k]
      BY <1>0, <1>8 DEF SlotFor
    <2>2. t2 = InsertAt(t, i, e)
      BY <1>2, <1>8 DEF UpdateRamTable
    <2> HIDE DEF e
    <2>3. /\ t2 \in Seq(Entries) /\ Len(t2) = l + 1
          /\ \A j \in 1 .. l + 1 : t2[j] = IF j < i THEN t[j] ELSE IF j = i THEN e ELSE t[j - 1]
      <3>1. e \in Entries
        BY <1>5, <1>8
      <3>2. t \in Seq(Entries) /\ i \in 1 .. Len(t) + 1
        BY <1>0, <2>1
      <3>3. /\ InsertAt(t, i, e) \in Seq(Entries) /\ Len(InsertAt(t, i, e)) = Len(t) + 1
            /\ \A j \in 1 .. Len(t) + 1 :
                 InsertAt(t, i, e)[j] = IF j < i THEN t[j] ELSE IF j = i THEN e ELSE t[j - 1]
        BY <3>1, <3>2, InsertAtElements
      <3>4. QED
        BY <2>2, <3>3
    <2> DEFINE h == [j \in 1 .. Len(t2) |-> IF j < i THEN j ELSE j - 1]
    <2>4. h \in [1 .. Len(t2) -> Int]
      BY <1>0, <2>3
    <2>5. ASSUME NEW j \in 1 .. Len(t2), j # i
          PROVE  /\ h[j] \in 1 .. l /\ t2[j] = t[h[j]]
                 /\ j < i => h[j] < i
                 /\ j > i => ~(h[j] < i)
      BY <1>0, <2>1, <2>3, <2>5
    <2>6. \A a, b \in 1 .. Len(t2) : a < b /\ a # i /\ b # i => h[a] < h[b]
      BY <1>0, <2>1, <2>3
    <2>7. ASSUME NEW a \in 1 .. l PROVE \E j \in 1 .. Len(t2) : j # i /\ h[j] = a
      <3>1. CASE a < i
        <4>1. a \in 1 .. Len(t2) /\ h[a] = a /\ a # i
          BY <1>0, <2>1, <2>3, <3>1
        <4>2. QED
          BY <4>1
      <3>2. CASE ~(a < i)
        <4>1. a + 1 \in 1 .. Len(t2) /\ h[a + 1] = a /\ a + 1 # i
          BY <1>0, <2>1, <2>3, <3>2
        <4>2. QED
          BY <4>1
      <3>3. QED
        BY <3>1, <3>2
    <2> HIDE DEF h, c2, l
    <2>8. ASSUME NEW j \in 1 .. Len(t2), j # i
          PROVE  /\ h[j] \in 1 .. l /\ cs[h[j]].key # k /\ t2[j] = t[h[j]] /\ c2[j] = cs[h[j]]
      BY <1>4, <1>6, <1>8, <2>5, <2>8 DEF l
    <2>9. i \in 1 .. Len(t2) /\ t2[i] = e
      BY <1>0, <2>1, <2>3
    <2>10. t2[i].hash = Hash[k] /\ c2[i] = [st |-> "rec", key |-> k, val |-> v]
      BY <1>5, <1>6, <1>8, <2>9
    <2>11. \A j \in 1 .. Len(t2) : j < i => j # i
      BY <2>1
    <2>12. \A j \in 1 .. Len(t2) : j < i => t2[j].hash >= Hash[k]
      BY <2>1, <2>5, <2>11
    <2>13. \A j \in 1 .. Len(t2) : j > i => j # i
      BY <2>1
    <2>14. \A j \in 1 .. Len(t2) : j > i => t2[j].hash <= Hash[k]
      BY <2>1, <2>5, <2>13
    <2>15. TableFor(t2, c2, [m EXCEPT ![k] = v])
      <3>1. Derived(t, cs, t2, c2, k, v, i, h)
        BY <1>8, <2>6, <2>7, <2>8, <2>9, <2>10, <2>12, <2>14 DEF Derived, l
      <3>2. QED
        BY <2>1, <2>3, <2>4, <3>1, TableFrom
    <2>16. QED
      BY <2>15 DEF c2
  <1>9. CASE v # Absent /\ m[k] # Absent
    <2>1. i \in 1 .. l /\ i \in Nat /\ cs[i].key = k
      BY <1>0, <1>3, <1>9 DEF SlotFor
    <2>2. t2 = [t EXCEPT ![i] = e]
      BY <1>2, <1>9 DEF UpdateRamTable
    <2> HIDE DEF e
    <2>3. /\ t2 \in Seq(Entries) /\ Len(t2) = l
          /\ \A j \in 1 .. l : t2[j] = IF j = i THEN e ELSE t[j]
      BY <1>0, <1>5, <1>9, <2>1, <2>2, ExceptSeq
    <2> DEFINE h == [j \in 1 .. Len(t2) |-> j]
    <2>4. h \in [1 .. Len(t2) -> Int] /\ \A j \in 1 .. Len(t2) : h[j] = j
      BY <1>0, <2>3
    <2>5. t[i].hash = Hash[k]
      BY <2>1 DEF TableFor
    <2> HIDE DEF h, c2, l
    <2>6. ASSUME NEW j \in 1 .. Len(t2), j # i
          PROVE  /\ h[j] \in 1 .. l /\ cs[h[j]].key # k /\ t2[j] = t[h[j]] /\ c2[j] = cs[h[j]]
      BY <1>3, <1>6, <1>9, <2>3, <2>4, <2>6 DEF l
    <2>7. t2[i].hash = Hash[k] /\ c2[i] = [st |-> "rec", key |-> k, val |-> v] /\ i \in 1 .. Len(t2)
      BY <1>5, <1>6, <1>9, <2>1, <2>3
    <2>8. ASSUME NEW j \in 1 .. Len(t2), j < i PROVE t2[j].hash >= Hash[k]
      <3>1. j # i /\ j \in 1 .. l
        BY <2>1, <2>3, <2>8
      <3>2. t2[j] = t[j] /\ t[j].hash >= t[i].hash
        BY <2>1, <2>3, <2>8, <3>1 DEF TableFor, l
      <3>3. QED
        BY <2>5, <3>2
    <2>9. ASSUME NEW j \in 1 .. Len(t2), j > i PROVE t2[j].hash <= Hash[k]
      <3>1. j # i /\ j \in 1 .. l /\ i < j
        BY <1>0, <2>1, <2>3, <2>9
      <3>2. t2[j] = t[j] /\ t[i].hash >= t[j].hash
        BY <2>1, <2>3, <3>1 DEF TableFor, l
      <3>3. t[j].hash \in Nat
        BY <1>1, <3>1 DEF Entries
      <3>4. QED
        BY <1>0, <2>5, <3>2, <3>3
    <2>10. \A a \in 1 .. l : cs[a].key # k => \E j \in 1 .. Len(t2) : j # i /\ h[j] = a
      BY <2>1, <2>3, <2>4
    <2>11. \A a, b \in 1 .. Len(t2) : a < b => h[a] < h[b]
      BY <2>4
    <2>12. TableFor(t2, c2, [m EXCEPT ![k] = v])
      <3>1. Derived(t, cs, t2, c2, k, v, i, h)
        BY <1>9, <2>6, <2>7, <2>8, <2>9, <2>10, <2>11 DEF Derived, l
      <3>2. QED
        BY <2>1, <2>3, <2>4, <3>1, TableFrom
    <2>13. QED
      BY <2>12 DEF c2
  <1>10. QED
    BY <1>7, <1>8, <1>9

(* t2 is table t, which finds the cells cs and indexes m, after the record *)
(* k -> v at offset o; t2's entries point into cell.                       *)
Updates(t, cs, m, k, v, i, o, cell, t2, d) ==
    /\ d = 1 + Map!Used(m)
    /\ m \in Maps /\ k \in Keys /\ v \in Vals \cup {Absent}
    /\ TableFor(t, cs, m) /\ SlotFor(t, cs, i, k, m)
    /\ v = Absent => m[k] # Absent
    /\ v # Absent => o \in Offsets /\ cell[o] = [st |-> "rec", key |-> k, val |-> v]
    /\ \A j \in 1 .. Len(t) : (m[k] # Absent /\ j = i) \/ cell[t[j].off] = cs[j]
    /\ t2 = UpdateRamTable(t, i, k, v, Map!PagesOf(m[k]), o)

(* The table and consumed_size follow the record together.                 *)
LEMMA UpdateBoth ==
    ASSUME NEW t, NEW cs, NEW m, NEW k, NEW v, NEW i, NEW o, NEW cell, NEW t2,
           NEW d, Updates(t, cs, m, k, v, i, o, cell, t2, d)
    PROVE  /\ TableFor(t2, At(t2, cell), [m EXCEPT ![k] = v])
           /\ UpdateConsumedSize(d, v, Map!PagesOf(m[k])) = 1 + Map!Used([m EXCEPT ![k] = v])
  <1>1. TableFor(t2, At(t2, cell), [m EXCEPT ![k] = v])
    BY UpdateFor, Zenon DEF Updates
  <1>2. m \in Maps /\ k \in Keys /\ v \in Vals \cup {Absent} /\ d = 1 + Map!Used(m)
    BY DEF Updates
  <1> DEFINE a == Map!Used(m)
             b == Map!PagesOf(m[k])
             c == Map!PagesOf(v)
             n == Map!Used([m EXCEPT ![k] = v])
  <1>3. a \in Nat /\ b \in Nat /\ c \in Nat /\ b <= a /\ n = a - b + c
    BY <1>2, UsedUpdate
  <1>4. v = Absent => c = 0
    BY SizeFacts
  <1>5. v # Absent => c = RecPages(v)
    BY <1>2, SizeFacts
  <1> HIDE DEF a, b, c, n
  <1>6. IF v = Absent THEN d - b = 1 + n ELSE d - b + RecPages(v) = 1 + n
    BY <1>2, <1>3, <1>4, <1>5 DEF a
  <1>7. QED
    BY <1>1, <1>6 DEF UpdateConsumedSize, b, n

-----------------------------------------------------------------------------
(* Erasing an area.                                                        *)

LEMMA FirstErased ==
    ASSUME NEW cell
    PROVE  FirstToErase \in Nat /\ FirstToErase < NumSectors /\ ErasedUpTo(cell, FirstToErase)
  <1>1. NumSectors \in Nat /\ NumSectors >= 1
    BY SizesAssumption
  <1>2. FirstToErase \in Nat /\ FirstToErase < NumSectors
    BY <1>1 DEF FirstToErase
  <1>3. ASSUME NEW o \in Offsets, o \div SectorPages >= 1,
               FirstToErase = 0 \/ o \div SectorPages < FirstToErase
        PROVE  FALSE
    <2> DEFINE d == o \div SectorPages
    <2>1. d \in Nat /\ d < NumSectors
      BY SectorBound
    <2>2. d >= 1 /\ (FirstToErase = 0 \/ d < FirstToErase)
      BY <1>3
    <2> HIDE DEF d
    <2>3. QED
      BY <1>1, <2>1, <2>2 DEF FirstToErase
  <1>4. QED
    BY <1>2, <1>3 DEF ErasedUpTo

LEMMA EraseCells ==
    ASSUME NEW area, area.cell \in [Offsets -> Cells], NEW s \in Nat, s < NumSectors,
           ErasedUpTo(area.cell, s), NEW x, x = EraseSector(area, s)
    PROVE  /\ x.cell \in [Offsets -> Cells]
           /\ s = 0 => x.hdr = ErasedHeader /\ AllErased(x.cell)
           /\ s # 0 => /\ NextToErase(s) \in Nat /\ NextToErase(s) < NumSectors
                       /\ ErasedUpTo(x.cell, NextToErase(s))
  <1> DEFINE D(o) == o \div SectorPages
             hit(o) == /\ D(o) < s /\ area.cell[o].st = "rec"
                       /\ (o + RecPages(area.cell[o].val) - 1) \div SectorPages >= s
  <1>1. \A o \in Offsets : D(o) \in Nat /\ D(o) < NumSectors
    BY SectorBound
  <1>2. x.cell = [o \in Offsets |-> CASE D(o) = s -> Blank("erased")
                                      [] hit(o) -> Blank("bad")
                                      [] OTHER -> area.cell[o]]
    BY DEF EraseSector
  <1>3. x.hdr = IF s = 0 THEN ErasedHeader ELSE area.hdr
    BY DEF EraseSector
  <1> HIDE DEF D
  <1>4. ASSUME NEW o \in Offsets
        PROVE  /\ x.cell[o] \in Cells
               /\ D(o) = s \/ area.cell[o].st = "erased" => x.cell[o].st = "erased"
    <2>1. /\ Blank("erased") \in Cells /\ Blank("erased").st = "erased" /\ Blank("bad") \in Cells
          /\ area.cell[o] \in Cells
      BY CellTypes
    <2>2. CASE D(o) = s
      <3>1. ~hit(o)
        BY <1>1, <2>2
      <3> HIDE DEF hit
      <3>2. x.cell[o] = Blank("erased")
        BY <1>2, <2>2, <3>1
      <3>3. QED
        BY <2>1, <3>2
    <2>3. CASE D(o) # s /\ hit(o)
      <3>1. area.cell[o].st # "erased"
        BY <2>3
      <3> HIDE DEF hit
      <3>2. x.cell[o] = Blank("bad")
        BY <1>2, <2>3
      <3>3. QED
        BY <2>1, <2>3, <3>1, <3>2
    <2>4. CASE D(o) # s /\ ~hit(o)
      <3> HIDE DEF hit
      <3>1. x.cell[o] = area.cell[o]
        BY <1>2, <2>4
      <3>2. QED
        BY <2>1, <2>4, <3>1
    <2>5. QED
      BY <2>2, <2>3, <2>4
  <1>5. x.cell \in [Offsets -> Cells]
    <2>1. x.cell = [o \in Offsets |-> x.cell[o]]
      BY <1>2
    <2>2. QED
      BY <1>4, <2>1
  <1>6. \A o \in Offsets : D(o) >= 1 /\ (s = 0 \/ D(o) < s) => area.cell[o].st = "erased"
    BY DEF ErasedUpTo, D
  <1>7. CASE s = 0
    <2>1. \A o \in Offsets : x.cell[o].st = "erased"
      BY <1>1, <1>4, <1>6, <1>7
    <2>2. QED
      BY <1>3, <1>5, <1>7, <2>1 DEF AllErased
  <1>8. CASE s # 0
    <2> DEFINE u == NextToErase(s)
    <2>0. NumSectors \in Nat
      BY SizesAssumption
    <2>1. u \in Nat /\ u < NumSectors /\ (u = 0 => ~(s + 1 < NumSectors)) /\ (u # 0 => u = s + 1)
      BY <1>8, <2>0 DEF NextToErase
    <2> HIDE DEF u
    <2>2. ASSUME NEW o \in Offsets, D(o) >= 1, u = 0 \/ D(o) < u
          PROVE  D(o) = s \/ D(o) < s
      BY <1>1, <2>0, <2>1, <2>2
    <2>3. ErasedUpTo(x.cell, u)
      BY <1>4, <1>6, <2>2 DEF ErasedUpTo, D
    <2>4. QED
      BY <1>5, <1>8, <2>1, <2>3 DEF u
  <1>9. QED
    BY <1>7, <1>8

LEMMA ErasedLog ==
    ASSUME NEW cell \in [Offsets -> Cells], AllErased(cell)
    PROVE  Log(cell, 1) /\ Contents(cell) = Map!Empty /\ LogArea(cell)
  <1>1. 1 \in 1 .. AreaPages
    BY SizeFacts
  <1>2. \A q \in Offsets : ~(q < 1)
    BY SizeFacts
  <1>3. Log(cell, 1)
    BY <1>1, <1>2 DEF Log, AllErased, Boundary
  <1>4. Contents(cell) = Map!Empty
    BY <1>3, ContentsIs, ValAtStart
  <1>5. QED
    BY <1>1, <1>3, <1>4, UsedEmpty, SizeFacts DEF LogArea

-----------------------------------------------------------------------------
(* Requests.                                                               *)

LEMMA RequestKinds ==
    ASSUME NEW r \in Requests
    PROVE  /\ r # NoReq /\ r \in Map!Requests
           /\ r.kind \in {"write", "delete", "reset", "compact", "ensure"}
           /\ r.kind \in {"write", "delete"} => r.key \in Keys
           /\ r.kind = "write" => r.val \in Vals
           /\ r.kind = "ensure" => r.pages \in Nat
  <1>0. r # NoReq
    BY NoReqAssumption
  <1>1. CASE r \in [kind : {"write"}, key : Keys, val : Vals]
    BY <1>0, <1>1 DEF Map!Requests
  <1>2. CASE r \in [kind : {"delete"}, key : Keys]
    BY <1>0, <1>2 DEF Map!Requests
  <1>3. CASE r \in [kind : {"reset", "compact"}]
    BY <1>0, <1>3 DEF Map!Requests
  <1>4. CASE r \in [kind : {"ensure"}, pages : EnsureSizes]
    BY <1>0, <1>4, SizesAssumption DEF Map!Requests
  <1>5. QED
    BY <1>1, <1>2, <1>3, <1>4 DEF Requests

LEMMA WriteFacts ==
    ASSUME req \in Requests \cup {NoReq}, IsWrite
    PROVE  /\ req \in Requests /\ req # NoReq /\ req.key \in Keys
           /\ req.kind \in {"write", "delete"}
           /\ NewVal \in Vals \cup {Absent} /\ NewPages = RecPages(NewVal)
           /\ NewPages \in Nat /\ NewPages >= 1
           /\ req.kind = "write" => NewVal = req.val /\ NewVal \in Vals /\ NewVal # Absent
           /\ req.kind = "delete" => NewVal = Absent
           /\ \A m : Map!Effect(m, req) = [m EXCEPT ![req.key] = NewVal]
  <1>1. req \in Requests /\ req # NoReq /\ req.kind \in {"write", "delete"}
    BY DEF IsWrite
  <1>2. req.key \in Keys /\ (req.kind = "write" => req.val \in Vals)
    BY <1>1, RequestKinds
  <1>3. CASE req.kind = "write"
    BY <1>1, <1>2, <1>3, SizeFacts DEF NewVal, NewPages, Map!Effect
  <1>4. CASE req.kind = "delete"
    BY <1>1, <1>2, <1>4, SizeFacts DEF NewVal, NewPages, Map!Effect
  <1>5. QED
    BY <1>1, <1>3, <1>4

-----------------------------------------------------------------------------
(* Frames.                                                                 *)

MapStep == UNCHANGED <<Recoverable, req, crashes>> \/ Map!Next

(* What the running store knows of the two areas.                          *)
LEMMA MountedFacts ==
    ASSUME HeaderInv, ContentInv, ~Unmounted
    PROVE  /\ active \in Areas /\ gcArea \in Areas /\ Areas = {active, gcArea} /\ active # gcArea
           /\ Log1 \in [Offsets -> Cells] /\ Log2 \in [Offsets -> Cells]
           /\ Live \in Maps /\ LogArea(Log1) /\ Recoverable = Live
           /\ Map!Used(Live) \in Nat /\ 1 + Map!Used(Live) <= AreaPages
           /\ Base \in Maps
  <1>1. active \in Areas /\ gcArea \in Areas /\ Areas = {active, gcArea} /\ active # gcArea
    BY DEF HeaderInv, gcArea, Other, Areas
  <1>2. MountArea(flash) = active /\ Valid(flash, active)
    BY HeaderInvMounts DEF MountsActiveArea, Unmounted
  <1>3. Log1 \in [Offsets -> Cells] /\ Log2 \in [Offsets -> Cells]
    BY <1>1 DEF ContentInv, Log1, Log2
  <1>4. LogArea(Log1) /\ Recoverable = Live
    BY <1>1, <1>2 DEF ContentInv, MountInv, Recoverable, Log1, Live
  <1>5. Live \in Maps
    BY <1>3, ContentsMaps DEF Live
  <1>6. Map!Used(Live) \in Nat
    BY <1>5, UsedFinite
  <1>7. 1 + Map!Used(Live) <= AreaPages
    BY <1>4 DEF LogArea, Live
  <1>8. Base \in Maps
    BY <1>5, UsedEmpty DEF Base
  <1>9. QED
    BY <1>1, <1>3, <1>4, <1>5, <1>6, <1>7, <1>8

LEMMA MountedNext ==
    ASSUME HeaderInv', ~Unmounted'
    PROVE  /\ active' \in Areas /\ MountArea(flash') = active' /\ Valid(flash', active')
           /\ Recoverable' = Live'
           /\ LogArea(Log1') => MountInv'
  <1>1. active' \in Areas /\ MountArea(flash') = active' /\ Valid(flash', active')
    BY DEF HeaderInv, VersionInv, ActiveInv, FlashShape, IsArea, Headers,
           MountArea, Areas, gcArea, Other, Valid, Unmounted
  <1>2. QED
    BY <1>1 DEF Recoverable, Live, Log1, MountInv

LEMMA FlashSame ==
    ASSUME flash' = flash, ContentInv
    PROVE  /\ Recoverable' = Recoverable /\ MountInv'
           /\ \A a \in Areas : flash'[a].cell \in [Offsets -> Cells]
  BY DEF ContentInv, MountInv, Recoverable

LEMMA ViewsSame ==
    ASSUME flash' = flash, active' = active
    PROVE  Log1' = Log1 /\ Log2' = Log2 /\ Live' = Live /\ gcArea' = gcArea
  BY DEF Log1, Log2, Live, gcArea

-----------------------------------------------------------------------------
(* Booting.                                                                *)

LEMMA EmptyTable ==
    ASSUME NEW cs
    PROVE  TableFor(<<>>, cs, Map!Empty)
  <1>1. <<>> \in Seq(Entries) /\ Len(<<>>) = 0 /\ 1 .. 0 = {}
    OBVIOUS
  <1>2. \A k \in Keys : Map!Empty[k] = Absent
    BY DEF Map!Empty
  <1>3. QED
    BY <1>1, <1>2 DEF TableFor

LEMMA ScanStarts ==
    ASSUME NEW a, NEW v, StartScan(a, v), req' = NoReq, LogArea(Log1')
    PROVE  ScanInv'
  <1>1. table' = <<>> /\ consumed' = 1 /\ off' = 1
    BY DEF StartScan
  <1>2. PICK e \in 1 .. AreaPages : Log(Log1', e)
    BY DEF LogArea
  <1>3. Boundary(Log1', 1, e) /\ 1 <= e /\ 1 \in 1 .. AreaPages
    BY <1>2, SizeFacts DEF Log
  <1>4. ValAt(Log1', 1) = Map!Empty
    BY ValAtStart
  <1>5. TableFor(<<>>, At(<<>>, Log1'), Map!Empty)
    BY EmptyTable
  <1>6. QED
    BY <1>1, <1>2, <1>3, <1>4, <1>5, UsedEmpty DEF ScanInv

LEMMA SetupContent ==
    ASSUME HeaderInv, ContentInv, SetupFails \/ SetupMount \/ SetupFormat
    PROVE  ContentInv' /\ MapStep
  <1>0. /\ flash' = flash /\ req' = req /\ crashes' = crashes /\ page' \in Nat
        /\ pc = "off" /\ req = NoReq /\ req' \in Requests \cup {NoReq}
    BY DEF SetupFails, SetupMount, SetupFormat, ForgetLocals, ContentInv, Unmounted
  <1>1. /\ Recoverable' = Recoverable /\ MountInv'
        /\ \A a \in Areas : flash'[a].cell \in [Offsets -> Cells]
    BY <1>0, FlashSame
  <1>2. MapStep
    BY <1>0, <1>1 DEF MapStep
  <1>3. CASE SetupFails
    <2>1. pc' = "failed" /\ sec' \in Nat
      BY <1>3 DEF SetupFails, ForgetLocals
    <2>2. QED
      BY <1>0, <1>1, <1>2, <2>1 DEF ContentInv
  <1>4. CASE SetupMount
    <2>1. pc' = "scan" /\ sec' \in Nat /\ active' = MountArea(flash)
      BY <1>4 DEF SetupMount, StartScan, ContentInv
    <2>2. LogArea(Log1')
      BY <1>0, <1>4, <2>1 DEF SetupMount, ContentInv, MountInv, Log1
    <2>3. ScanInv'
      BY <1>0, <1>4, <2>2, ScanStarts DEF SetupMount
    <2>4. QED
      BY <1>0, <1>1, <1>2, <2>1, <2>3 DEF ContentInv
  <1>5. CASE SetupFormat
    <2>1. pc' = "fmt_erase" /\ sec' = FirstToErase
      BY <1>5 DEF SetupFormat
    <2>2. sec' \in Nat /\ sec' < NumSectors /\ ErasedUpTo(flash'[1].cell, sec')
      BY <2>1, FirstErased
    <2>3. QED
      BY <1>0, <1>1, <1>2, <2>1, <2>2 DEF ContentInv
  <1>6. QED
    BY <1>3, <1>4, <1>5

(* A step that replaces one area.                                          *)
LEMMA AreaCells ==
    ASSUME HeaderInv, ContentInv, NEW a \in Areas, NEW x, flash' = [flash EXCEPT ![a] = x],
           x.cell \in [Offsets -> Cells]
    PROVE  /\ flash'[a] = x /\ flash'[Other(a)] = flash[Other(a)]
           /\ \A b \in Areas : flash'[b].cell \in [Offsets -> Cells]
  <1>1. Other(a) \in Areas /\ Areas = {a, Other(a)} /\ a # Other(a)
    BY DEF Areas, Other
  <1>2. flash'[a] = x /\ flash'[Other(a)] = flash[Other(a)]
    BY <1>1 DEF HeaderInv, FlashShape
  <1>3. QED
    BY <1>1, <1>2 DEF ContentInv

LEMMA FormatContent ==
    ASSUME HeaderInv, HeaderInv', ContentInv, FormatErase \/ FormatHeader
    PROVE  ContentInv' /\ MapStep
  <1>0. /\ req' = req /\ crashes' = crashes /\ page' = page /\ req = NoReq
        /\ 1 \in Areas /\ Other(1) = 2 /\ page \in Nat /\ flash[1].cell \in [Offsets -> Cells]
        /\ \A a \in Areas : ~Valid(flash, a)
    BY DEF FormatErase, FormatHeader, ContentInv, Unmounted, Areas, Other, HeaderInv, ActiveInv
  <1>1. Recoverable = Map!Empty
    BY <1>0 DEF Recoverable, Map!Empty
  <1>2. CASE FormatErase
    <2>1. PICK x : x = EraseSector(flash[1], sec)
      OBVIOUS
    <2>2. /\ flash' = [flash EXCEPT ![1] = x] /\ pc = "fmt_erase" /\ sec \in Nat
          /\ sec < NumSectors /\ ErasedUpTo(flash[1].cell, sec)
      BY <1>2, <2>1 DEF FormatErase, ContentInv
    <2>3. /\ x.cell \in [Offsets -> Cells]
          /\ sec = 0 => x.hdr = ErasedHeader /\ AllErased(x.cell)
          /\ sec # 0 => /\ NextToErase(sec) \in Nat /\ NextToErase(sec) < NumSectors
                        /\ ErasedUpTo(x.cell, NextToErase(sec))
      BY <1>0, <2>1, <2>2, EraseCells
    <2>4. /\ flash'[1] = x /\ \A b \in Areas : flash'[b].cell \in [Offsets -> Cells]
      BY <1>0, <2>2, <2>3, AreaCells
    <2>5. \/ sec = 0 /\ pc' = "fmt_header" /\ sec' = sec
          \/ sec # 0 /\ pc' = "fmt_erase" /\ sec' = NextToErase(sec)
      BY <1>2, <2>2 DEF FormatErase
    <2>6. \A a \in Areas : ~Valid(flash', a)
      BY <2>5 DEF HeaderInv, ActiveInv
    <2>7. MountInv' /\ Recoverable' = Map!Empty
      BY <2>6 DEF MountInv, Recoverable, Map!Empty
    <2>8. ContentInv'
      BY <1>0, <2>2, <2>3, <2>4, <2>5, <2>7 DEF ContentInv
    <2>9. QED
      BY <1>0, <1>1, <2>7, <2>8 DEF MapStep
  <1>3. CASE FormatHeader
    <2>1. PICK x : x = ProgramHeader(flash[1], 1)
      OBVIOUS
    <2>2. flash' = [flash EXCEPT ![1] = x] /\ x.cell = flash[1].cell /\ AllErased(flash[1].cell)
      BY <1>3, <2>1 DEF FormatHeader, ProgramHeader, ContentInv
    <2>3. flash'[1] = x /\ \A b \in Areas : flash'[b].cell \in [Offsets -> Cells]
      BY <1>0, <2>2, AreaCells
    <2>4. pc' = "scan" /\ active' = 1 /\ sec' = sec /\ ~Unmounted' /\ StartScan(1, 1)
      BY <1>3 DEF FormatHeader, StartScan, Unmounted
    <2>5. Log1' = flash[1].cell
      BY <2>2, <2>3, <2>4 DEF Log1
    <2>6. LogArea(Log1') /\ Live' = Map!Empty
      BY <1>0, <2>2, <2>5, ErasedLog DEF Live
    <2>7. MountInv' /\ Recoverable' = Map!Empty
      BY <2>4, <2>6, MountedNext
    <2>8. ScanInv'
      BY <1>0, <2>4, <2>6, ScanStarts
    <2>9. ContentInv'
      BY <1>0, <2>3, <2>4, <2>7, <2>8 DEF ContentInv
    <2>10. QED
      BY <1>0, <1>1, <2>7, <2>9 DEF MapStep
  <1>4. QED
    BY <1>2, <1>3

LEMMA ScanContent ==
    ASSUME HeaderInv, ContentInv, ScanRecord \/ ScanEnd \/ ScanFails \/ ScanCorrupt
    PROVE  ContentInv' /\ MapStep
  <1>0. /\ flash' = flash /\ req' = req /\ crashes' = crashes /\ active' = active
        /\ pc = "scan" /\ ~Unmounted /\ ScanInv /\ req = NoReq
        /\ page' \in Nat /\ sec \in Nat /\ req' \in Requests \cup {NoReq}
    BY DEF ScanRecord, ScanEnd, ScanFails, ScanCorrupt, ForgetLocals, ContentInv, Unmounted,
           ramVars, ScanInv
  <1>1. /\ Recoverable' = Recoverable /\ MountInv'
        /\ \A a \in Areas : flash'[a].cell \in [Offsets -> Cells]
    BY <1>0, FlashSame
  <1>2. MapStep
    BY <1>0, <1>1 DEF MapStep
  <1>3. Log1' = Log1 /\ Log2' = Log2 /\ Live' = Live
    BY <1>0, ViewsSame
  <1>4. PICK e \in 1 .. AreaPages : Log(Log1, e) /\ off <= e /\ Boundary(Log1, off, e)
    BY <1>0 DEF ScanInv
  <1>5. /\ off \in 1 .. AreaPages /\ off \in Nat /\ e \in Nat
        /\ TableFor(table, At(table, Log1), ValAt(Log1, off))
        /\ consumed = 1 + Map!Used(ValAt(Log1, off))
    BY <1>0, SizeFacts DEF ScanInv
  <1>6. Log1 \in [Offsets -> Cells] /\ ValAt(Log1, off) \in Maps
    BY <1>4, ValAtMaps DEF Log
  <1>7. off = e => ValAt(Log1, off) = Live
    BY <1>4, ContentsIs DEF Live
  <1>8. off < AreaPages => off \in Offsets
    BY <1>5, SizeFacts
  <1>9. (off < AreaPages => Log1[off].st # "rec") => off = e
    BY <1>4, <1>5, <1>8, SizeFacts DEF Boundary
  <1>10. CASE ScanRecord
    <2> DEFINE c == Log1[off]
               m == ValAt(Log1, off)
               n == RecPages(c.val)
    <2>1. off \in Offsets /\ c.st = "rec" /\ c \in Cells /\ off' = off + n
      BY <1>6, <1>8, <1>10 DEF ScanRecord, Log1
    <2>2. RecordAt(Log1, off, e)
      BY <1>4, <2>1 DEF Log
    <2>3. c.key \in Keys /\ c.val \in Vals \cup {Absent} /\ n \in Nat /\ n >= 1
      BY <2>1, <2>2, CellTypes, SizeFacts DEF RecordAt
    <2>4. off' <= e /\ Boundary(Log1, off', e) /\ off' \in 1 .. AreaPages
      <3>1. off + n <= e /\ Boundary(Log1, off + n, e)
        BY <2>2 DEF RecordAt
      <3>2. off + n \in 1 .. AreaPages
        BY <1>4, <1>5, <2>3, <3>1, SizeFacts
      <3>3. QED
        BY <2>1, <3>1, <3>2
    <2>5. ValAt(Log1, off') = [m EXCEPT ![c.key] = c.val]
      <3>1. \A i \in Offsets : off < i /\ i < off + n => Log1[i].st # "rec"
        BY <2>2 DEF RecordAt
      <3>2. QED
        BY <2>1, <2>3, <3>1, ValAtStep
    <2>6. /\ SlotFor(table, At(table, Log1), FindIdx(c.key), c.key, m)
          /\ Found(c.key) <=> m[c.key] # Absent
          /\ Found(c.key) => StoredVal(c.key) = m[c.key]
      BY <1>5, <2>3, FindFacts
    <2>7. /\ m \in Maps /\ m[c.key] \in Vals \cup {Absent}
      BY <1>6, <2>3 DEF Maps
    <2> DEFINE old == IF Found(c.key) THEN RecPages(StoredVal(c.key)) ELSE 0
    <2>8. old = Map!PagesOf(m[c.key])
      BY <2>6, <2>7, SizeFacts
    <2>9. /\ c.val = Absent /\ ~Found(c.key) => UNCHANGED <<table, consumed>>
          /\ ~(c.val = Absent /\ ~Found(c.key)) =>
               /\ table' = UpdateRamTable(table, FindIdx(c.key), c.key, c.val, old, off)
               /\ consumed' = UpdateConsumedSize(consumed, c.val, old)
      BY <1>10 DEF ScanRecord, Log1
    <2>10. pc' = "scan" /\ sec' = sec
      BY <1>0, <1>10 DEF ScanRecord
    <2>11. TableFor(table', At(table', Log1), ValAt(Log1, off')) /\ consumed' = 1 + Map!Used(ValAt(Log1, off'))
      <3> HIDE DEF c, m, n, old
      <3>1. CASE c.val = Absent /\ ~Found(c.key)
        <4>1. [m EXCEPT ![c.key] = c.val] = m
          BY <2>6, <2>7, <3>1 DEF Maps
        <4>2. QED
          BY <1>5, <2>5, <2>9, <3>1, <4>1 DEF m
      <3>2. CASE ~(c.val = Absent /\ ~Found(c.key))
        <4>1. c.val # Absent => off \in Offsets /\ Log1[off] = [st |-> "rec", key |-> c.key, val |-> c.val]
          BY <2>1 DEF Cells, c
        <4>2. \A j \in 1 .. Len(table) : Log1[table[j].off] = At(table, Log1)[j]
          BY DEF At
        <4>3. c.val = Absent => m[c.key] # Absent
          BY <2>6, <3>2
        <4>4. table' = UpdateRamTable(table, FindIdx(c.key), c.key, c.val, Map!PagesOf(m[c.key]), off)
          BY <2>8, <2>9, <3>2
        <4>5. TableFor(table, At(table, Log1), m) /\ consumed = 1 + Map!Used(m)
          BY <1>5 DEF m
        <4>6. Updates(table, At(table, Log1), m, c.key, c.val, FindIdx(c.key), off, Log1, table', consumed)
          BY <2>3, <2>6, <2>7, <4>1, <4>2, <4>3, <4>4, <4>5, Zenon DEF Updates
        <4>7. /\ TableFor(table', At(table', Log1), [m EXCEPT ![c.key] = c.val])
              /\ UpdateConsumedSize(consumed, c.val, Map!PagesOf(m[c.key])) = 1 + Map!Used([m EXCEPT ![c.key] = c.val])
          BY <4>6, UpdateBoth
        <4>8. consumed' = UpdateConsumedSize(consumed, c.val, Map!PagesOf(m[c.key]))
          BY <2>8, <2>9, <3>2
        <4>9. QED
          BY <2>5, <4>7, <4>8
      <3>3. QED
        BY <3>1, <3>2
    <2>12. ScanInv'
      BY <1>0, <1>3, <1>4, <2>4, <2>11 DEF ScanInv
    <2>13. QED
      BY <1>0, <1>1, <1>2, <2>10, <2>12 DEF ContentInv
  <1>11. CASE ScanEnd
    <2>1. pc' = "idle" /\ free' = off /\ UNCHANGED <<table, consumed>> /\ sec' \in Nat
      BY <1>11 DEF ScanEnd, ForgetLocals
    <2>2. off < AreaPages => Log1[off].st = "erased"
      BY <1>11 DEF ScanEnd, Log1
    <2>3. off = e
      BY <1>9, <2>2
    <2>4. Ready'
      BY <1>3, <1>4, <1>5, <1>7, <2>1, <2>2, <2>3 DEF Ready, Indexed
    <2>5. QED
      BY <1>0, <1>1, <1>2, <2>1, <2>4 DEF ContentInv
  <1>12. CASE ScanFails
    <2>1. pc' = "failed" /\ sec' \in Nat
      BY <1>12 DEF ScanFails, ForgetLocals
    <2>2. QED
      BY <1>0, <1>1, <1>2, <2>1 DEF ContentInv
  <1>13. CASE ScanCorrupt
    <2>1. pc' = "erase" /\ sec' = FirstToErase /\ UNCHANGED <<table, consumed>>
      BY <1>13 DEF ScanCorrupt, StartGC, ramVars
    <2>2. off < AreaPages => Log1[off].st # "rec"
      BY <1>13 DEF ScanCorrupt, Log1
    <2>3. off = e
      BY <1>9, <2>2
    <2>4. ~IsReset' /\ ~IsWrite'
      BY <1>0 DEF IsReset, IsWrite
    <2>5. sec' \in Nat /\ sec' < NumSectors /\ ErasedUpTo(Log2', sec')
      BY <2>1, FirstErased
    <2>6. Base' = Live
      BY <1>3, <2>4 DEF Base
    <2>7. TableFor(table', At(table', Log1'), Base') /\ GcConsumed'
      BY <1>3, <1>5, <1>7, <2>1, <2>3, <2>6 DEF GcConsumed
    <2>8. EraseInv'
      BY <2>4, <2>5, <2>7 DEF EraseInv, Writing
    <2>9. QED
      BY <1>0, <1>1, <1>2, <2>1, <2>5, <2>8 DEF ContentInv
  <1>14. QED
    BY <1>10, <1>11, <1>12, <1>13

-----------------------------------------------------------------------------
(* Requests, up to the first flash operation.                              *)

LEMMA InvokeContent ==
    ASSUME HeaderInv, ContentInv, NEW r \in Requests, Invoke(r)
    PROVE  ContentInv' /\ MapStep
  <1>0. /\ flash' = flash /\ active' = active /\ req' = r /\ pc = "idle" /\ pc' = "start"
        /\ UNCHANGED <<table, consumed, free, page, sec, crashes>>
        /\ req = NoReq /\ Ready /\ page \in Nat /\ sec \in Nat
    BY DEF Invoke, ContentInv, ramVars, callVars
  <1>1. /\ Recoverable' = Recoverable /\ MountInv'
        /\ \A a \in Areas : flash'[a].cell \in [Offsets -> Cells]
    BY <1>0, FlashSame
  <1>2. Log1' = Log1 /\ Live' = Live
    BY <1>0, ViewsSame
  <1>3. r # NoReq /\ r \in Map!Requests
    BY RequestKinds
  <1>4. Ready'
    BY <1>0, <1>2 DEF Ready, Indexed
  <1>5. ContentInv'
    BY <1>0, <1>1, <1>3, <1>4 DEF ContentInv, Unmounted
  <1>6. Map!Invoke
    BY <1>0, <1>1, <1>3 DEF Map!Invoke
  <1>7. QED
    BY <1>5, <1>6 DEF MapStep, Map!Next

(* What a call finds when it starts.                                       *)
LEMMA StartFacts ==
    ASSUME HeaderInv, ContentInv, pc = "start"
    PROVE  /\ req \in Requests /\ req # NoReq /\ page \in Nat /\ sec \in Nat
           /\ ~Unmounted /\ Ready /\ Live \in Maps /\ Recoverable = Live
           /\ Log(Log1, free) /\ TableFor(table, At(table, Log1), Live)
           /\ Map!Used(Live) \in Nat /\ consumed = 1 + Map!Used(Live)
           /\ req.kind \in {"write", "delete"} =>
                /\ IsWrite /\ req.key \in Keys
                /\ OldPages = Map!PagesOf(Live[req.key])
                /\ Found(req.key) <=> Live[req.key] # Absent
                /\ SlotFor(table, At(table, Log1), FindIdx(req.key), req.key, Live)
  <1>1. /\ req \in Requests /\ req # NoReq /\ page \in Nat /\ sec \in Nat
        /\ ~Unmounted /\ Ready
    BY DEF ContentInv, Unmounted
  <1>2. Live \in Maps /\ Recoverable = Live /\ Map!Used(Live) \in Nat
    BY <1>1, MountedFacts
  <1>3. /\ Log(Log1, free) /\ TableFor(table, At(table, Log1), Live)
        /\ consumed = 1 + Map!Used(Live)
    BY <1>1 DEF Ready, Indexed
  <1>4. ASSUME req.kind \in {"write", "delete"}
        PROVE  /\ IsWrite /\ req.key \in Keys
               /\ OldPages = Map!PagesOf(Live[req.key])
               /\ Found(req.key) <=> Live[req.key] # Absent
               /\ SlotFor(table, At(table, Log1), FindIdx(req.key), req.key, Live)
    <2>1. IsWrite /\ req.key \in Keys
      BY <1>1, <1>4, RequestKinds DEF IsWrite
    <2>2. /\ Found(req.key) <=> Live[req.key] # Absent
          /\ Found(req.key) => StoredVal(req.key) = Live[req.key]
          /\ SlotFor(table, At(table, Log1), FindIdx(req.key), req.key, Live)
      BY <1>3, <2>1, FindFacts
    <2>3. Live[req.key] \in Vals \cup {Absent}
      BY <1>2, <2>1 DEF Maps
    <2>4. OldPages = Map!PagesOf(Live[req.key])
      BY <2>2, <2>3, SizeFacts DEF OldPages
    <2>5. QED
      BY <2>1, <2>2, <2>4
  <1>5. QED
    BY <1>1, <1>2, <1>3, <1>4

(* A call that returns without touching the flash.                         *)
LEMMA ReturnContent ==
    ASSUME HeaderInv, ContentInv, pc = "start", Return, UNCHANGED <<flash, ramVars, crashes>>
    PROVE  ContentInv' /\ Recoverable' = Recoverable /\ req' = NoReq /\ crashes' = crashes
  <1>0. /\ flash' = flash /\ active' = active /\ req' = NoReq /\ pc' = "idle"
        /\ UNCHANGED <<table, consumed, free, crashes>> /\ page' \in Nat /\ sec' \in Nat /\ Ready
    BY DEF ContentInv, ramVars, Return, ForgetLocals
  <1>1. /\ Recoverable' = Recoverable /\ MountInv'
        /\ \A a \in Areas : flash'[a].cell \in [Offsets -> Cells]
    BY <1>0, FlashSame
  <1>2. Log1' = Log1 /\ Live' = Live
    BY <1>0, ViewsSame
  <1>3. Ready'
    BY <1>0, <1>2 DEF Ready, Indexed
  <1>4. QED
    BY <1>0, <1>1, <1>3 DEF ContentInv, Unmounted

LEMMA DeleteMissingContent ==
    ASSUME HeaderInv, ContentInv, DeleteMissing
    PROVE  ContentInv' /\ MapStep
  <1>1. pc = "start" /\ req.kind = "delete" /\ ~Found(req.key) /\ Return /\ UNCHANGED <<flash, ramVars, crashes>>
    BY DEF DeleteMissing
  <1>2. /\ req \in Requests /\ req # NoReq /\ Live \in Maps /\ Recoverable = Live
        /\ IsWrite /\ req.key \in Keys /\ Live[req.key] = Absent
    BY <1>1, StartFacts
  <1>3. ContentInv' /\ Recoverable' = Recoverable /\ req' = NoReq /\ crashes' = crashes
    BY <1>1, ReturnContent
  <1>4. Map!Effect(Live, req) = [Live EXCEPT ![req.key] = Absent]
    BY <1>1 DEF Map!Effect
  <1>5. [Live EXCEPT ![req.key] = Absent] = Live
    BY <1>2 DEF Maps
  <1>6. Map!Granted(Live, req)
    BY <1>1 DEF Map!Granted
  <1>7. Map!Complete
    BY <1>2, <1>3, <1>4, <1>5, <1>6 DEF Map!Complete
  <1>8. QED
    BY <1>3, <1>7 DEF MapStep, Map!Next

LEMMA WriteFullContent ==
    ASSUME HeaderInv, ContentInv, WriteFull
    PROVE  ContentInv' /\ MapStep
  <1>1. /\ pc = "start" /\ req.kind = "write" /\ consumed - OldPages + NewPages > AreaPages
        /\ Return /\ UNCHANGED <<flash, ramVars, crashes>>
    BY DEF WriteFull, Overflows
  <1>2. /\ req \in Requests /\ req # NoReq /\ Live \in Maps /\ Recoverable = Live
        /\ IsWrite /\ req.key \in Keys /\ consumed = 1 + Map!Used(Live)
        /\ OldPages = Map!PagesOf(Live[req.key])
    BY <1>1, StartFacts
  <1>3. ContentInv' /\ Recoverable' = Recoverable /\ req' = NoReq /\ crashes' = crashes
    BY <1>1, ReturnContent
  <1>4. /\ NewVal \in Vals /\ NewPages = RecPages(NewVal)
        /\ Map!Effect(Live, req) = [Live EXCEPT ![req.key] = NewVal]
    BY <1>1, <1>2, WriteFacts
  <1> DEFINE a == Map!Used(Live)
             b == Map!PagesOf(Live[req.key])
             c == Map!PagesOf(NewVal)
             n == Map!Used([Live EXCEPT ![req.key] = NewVal])
  <1>5. a \in Nat /\ b \in Nat /\ c \in Nat /\ b <= a /\ n = a - b + c
    BY <1>2, <1>4, UsedUpdate
  <1>6. c = NewPages
    BY <1>4, SizeFacts
  <1>7. consumed = 1 + a /\ OldPages = b
    BY <1>2
  <1> HIDE DEF a, b, c, n
  <1>8. ~(n <= AreaPages - 1)
    BY <1>1, <1>5, <1>6, <1>7, SizeFacts
  <1>9. ~Map!Granted(Live, req)
    BY <1>1, <1>4, <1>8 DEF Map!Granted, n
  <1>10. Map!Refuse
    BY <1>2, <1>3, <1>9 DEF Map!Refuse
  <1>11. QED
    BY <1>3, <1>10 DEF MapStep, Map!Next

(* A call that starts garbage collection.                                  *)
LEMMA StartGcContent ==
    ASSUME HeaderInv, ContentInv, pc = "start", StartGC, page' \in Nat,
           UNCHANGED <<flash, active, req, consumed, crashes>>,
           TableFor(table', At(table', Log1), Base'), Writing(table, At(table, Log1))'
    PROVE  ContentInv' /\ MapStep
  <1>0. /\ pc' = "erase" /\ sec' = FirstToErase /\ req \in Requests /\ req # NoReq
        /\ consumed = 1 + Map!Used(Live)
    BY StartFacts DEF StartGC
  <1>1. /\ Recoverable' = Recoverable /\ MountInv'
        /\ \A a \in Areas : flash'[a].cell \in [Offsets -> Cells]
    BY FlashSame
  <1>2. Log1' = Log1 /\ Live' = Live
    BY ViewsSame
  <1>3. sec' \in Nat /\ sec' < NumSectors /\ ErasedUpTo(Log2', sec')
    BY <1>0, FirstErased
  <1>4. GcConsumed'
    BY <1>0, <1>2 DEF GcConsumed
  <1>5. EraseInv'
    BY <1>2, <1>3, <1>4 DEF EraseInv
  <1>6. ContentInv'
    BY <1>0, <1>1, <1>3, <1>5 DEF ContentInv, Unmounted
  <1>7. QED
    BY <1>1, <1>6 DEF MapStep

LEMMA WriteStartContent ==
    ASSUME HeaderInv, ContentInv, WriteStart
    PROVE  ContentInv' /\ MapStep
  <1>0. /\ pc = "start" /\ IsWrite /\ (req.kind = "delete" => Found(req.key)) /\ ~Overflows
        /\ slot' = FindIdx(req.key) /\ oldsz' = OldPages
        /\ UNCHANGED <<flash, req, active, table, consumed, free, crashes>>
    BY DEF WriteStart, ramVars
  <1>1. /\ req \in Requests /\ req # NoReq /\ page \in Nat /\ sec \in Nat
        /\ ~Unmounted /\ Ready /\ Live \in Maps /\ Recoverable = Live
        /\ Log(Log1, free) /\ TableFor(table, At(table, Log1), Live)
        /\ Map!Used(Live) \in Nat /\ consumed = 1 + Map!Used(Live)
    BY <1>0, StartFacts
  <1>2. /\ req.key \in Keys /\ req.kind \in {"write", "delete"}
        /\ OldPages = Map!PagesOf(Live[req.key])
        /\ Found(req.key) <=> Live[req.key] # Absent
        /\ SlotFor(table, At(table, Log1), FindIdx(req.key), req.key, Live)
    BY <1>0, StartFacts DEF IsWrite
  <1>3. /\ Recoverable' = Recoverable /\ MountInv'
        /\ \A a \in Areas : flash'[a].cell \in [Offsets -> Cells]
    BY <1>0, FlashSame
  <1>4. Log1' = Log1 /\ Live' = Live
    BY <1>0, ViewsSame
  <1>5. IsWrite' /\ NewPages' = NewPages /\ ~IsReset'
    BY <1>0, <1>2 DEF IsWrite, IsReset, NewPages, NewVal
  <1>6. Live[req.key] \in Vals \cup {Absent}
    BY <1>1, <1>2 DEF Maps
  <1>7. req.kind = "delete" => OldPages # 0
    BY <1>0, <1>2, <1>6, SizeFacts
  <1>8. req.kind = "write" => 1 + Map!Used(Live) - OldPages + NewPages <= AreaPages
    <2>1. OldPages \in Nat /\ NewPages \in Nat
      BY <1>0, <1>1, <1>2, <1>6, SizeFacts, WriteFacts
    <2>2. QED
      BY <1>0, <1>1, <2>1, SizeFacts DEF Overflows
  <1>9. Writing(table, At(table, Log1))'
    BY <1>0, <1>2, <1>4, <1>5, <1>7, <1>8 DEF Writing
  <1>10. CASE free + NewPages > AreaPages
    <2>1. StartGC /\ page' \in Nat
      BY <1>1, <1>10 DEF WriteStart
    <2>2. Base' = Live
      BY <1>4, <1>5 DEF Base
    <2>3. TableFor(table', At(table', Log1), Base')
      BY <1>0, <1>1, <2>2
    <2>4. QED
      BY <1>0, <1>9, <2>1, <2>3, StartGcContent
  <1>11. CASE ~(free + NewPages > AreaPages)
    <2>1. pc' = "append" /\ page' = 0 /\ sec' = sec
      BY <1>11 DEF WriteStart
    <2>2. NewPages \in Nat /\ NewPages >= 1 /\ free \in Nat
      BY <1>0, <1>1, WriteFacts, SizeFacts DEF Log
    <2>3. page' < NewPages' /\ free' + NewPages' <= AreaPages
      BY <1>0, <1>5, <1>11, <2>1, <2>2, SizeFacts
    <2>4. InProgress(Log1, free)'
      BY <1>0, <1>1, <1>4 DEF Ready, InProgress
    <2>5. Log(Log1, free)' /\ Indexed'
      BY <1>0, <1>1, <1>4 DEF Indexed
    <2>6. AppendInv'
      BY <1>5, <1>9, <2>3, <2>4, <2>5 DEF AppendInv
    <2>7. ContentInv'
      BY <1>0, <1>1, <1>3, <2>1, <2>6 DEF ContentInv, Unmounted
    <2>8. QED
      BY <1>0, <1>3, <2>7 DEF MapStep
  <1>12. QED
    BY <1>10, <1>11

LEMMA ResetStartContent ==
    ASSUME HeaderInv, ContentInv, ResetStart
    PROVE  ContentInv' /\ MapStep
  <1>0. /\ pc = "start" /\ req.kind = "reset" /\ table' = <<>> /\ StartGC /\ page' \in Nat
        /\ UNCHANGED <<flash, active, req, consumed, crashes>>
    BY DEF ResetStart, ContentInv
  <1>1. req # NoReq
    BY <1>0, StartFacts
  <1>2. IsReset' /\ ~IsWrite'
    BY <1>0, <1>1 DEF IsReset, IsWrite
  <1>3. Base' = Map!Empty
    BY <1>2 DEF Base, Map!Empty
  <1>4. TableFor(table', At(table', Log1), Base')
    BY <1>0, <1>3, EmptyTable
  <1>5. Writing(table, At(table, Log1))'
    BY <1>2 DEF Writing
  <1>6. QED
    BY <1>0, <1>4, <1>5, StartGcContent

LEMMA EnsureStartContent ==
    ASSUME HeaderInv, ContentInv, EnsureStart
    PROVE  ContentInv' /\ MapStep
  <1>0. pc = "start" /\ req.kind \in {"ensure", "compact"} /\ UNCHANGED <<flash, ramVars, crashes>>
    BY DEF EnsureStart
  <1>1. /\ req \in Requests /\ req # NoReq /\ Recoverable = Live /\ page \in Nat
        /\ TableFor(table, At(table, Log1), Live)
    BY <1>0, StartFacts
  <1>2. CASE NeedsCompaction
    <2>1. StartGC /\ page' \in Nat /\ UNCHANGED <<flash, active, req, table, consumed, crashes>>
      BY <1>0, <1>1, <1>2 DEF EnsureStart, ramVars
    <2>2. ~IsReset' /\ ~IsWrite'
      BY <1>0, <2>1 DEF IsReset, IsWrite
    <2>3. Base' = Live
      BY <2>1, <2>2, ViewsSame DEF Base
    <2>4. TableFor(table', At(table', Log1), Base')
      BY <1>1, <2>1, <2>3
    <2>5. Writing(table, At(table, Log1))'
      BY <2>2 DEF Writing
    <2>6. QED
      BY <1>0, <2>1, <2>4, <2>5, StartGcContent
  <1>3. CASE ~NeedsCompaction
    <2>1. Return
      BY <1>3 DEF EnsureStart
    <2>2. ContentInv' /\ Recoverable' = Recoverable /\ req' = NoReq /\ crashes' = crashes
      BY <1>0, <2>1, ReturnContent
    <2>3. Map!Effect(Live, req) = Live
      BY <1>0 DEF Map!Effect
    <2>4. Map!Complete \/ Map!Refuse
      BY <1>1, <2>2, <2>3 DEF Map!Complete, Map!Refuse
    <2>5. QED
      BY <2>2, <2>4 DEF MapStep, Map!Next
  <1>4. QED
    BY <1>2, <1>3

-----------------------------------------------------------------------------
(* Appending a record to the log.                                          *)

(* The outcome of a write or delete that was let through fits.             *)
LEMMA EffectFits ==
    ASSUME req \in Requests \cup {NoReq}, Live \in Maps, 1 + Map!Used(Live) <= AreaPages,
           IsWrite, NEW t, NEW cs, Writing(t, cs)
    PROVE  /\ Map!Granted(Live, req) /\ Map!Effect(Live, req) \in Maps
           /\ 1 + Map!Used(Map!Effect(Live, req)) <= AreaPages
  <1> DEFINE a == Map!Used(Live)
             b == Map!PagesOf(Live[req.key])
             c == Map!PagesOf(NewVal)
             w == [Live EXCEPT ![req.key] = NewVal]
             n == Map!Used(w)
  <1>1. /\ req.key \in Keys /\ req.kind \in {"write", "delete"}
        /\ NewVal \in Vals \cup {Absent} /\ NewPages = RecPages(NewVal)
        /\ req.kind = "write" => NewVal \in Vals
        /\ req.kind = "delete" => NewVal = Absent
        /\ Map!Effect(Live, req) = w
    BY WriteFacts
  <1>2. a \in Nat /\ b \in Nat /\ c \in Nat /\ b <= a /\ n = a - b + c /\ w \in Maps
    BY <1>1, UsedUpdate
  <1>3. (req.kind = "write" => c = NewPages) /\ (req.kind = "delete" => c = 0)
    BY <1>1, SizeFacts
  <1>4. req.kind = "write" => 1 + a - b + NewPages <= AreaPages
    BY DEF Writing
  <1>5. 1 + a <= AreaPages
    OBVIOUS
  <1> HIDE DEF a, b, c, n, w
  <1>6. 1 + n <= AreaPages /\ n <= AreaPages - 1
    BY <1>1, <1>2, <1>3, <1>4, <1>5, SizeFacts
  <1>7. Map!Granted(Live, req)
    BY <1>1, <1>6 DEF Map!Granted, n
  <1>8. QED
    BY <1>1, <1>2, <1>6, <1>7 DEF n

(* The table's entries do not see changes outside of good records.         *)
LEMMA SameEntries ==
    ASSUME NEW t, NEW c, NEW x, NEW m, TableFor(t, At(t, c), m),
           \A q \in Offsets : c[q].st = "rec" => x[q] = c[q]
    PROVE  At(t, x) = At(t, c)
  <1> SUFFICES ASSUME NEW i \in 1 .. Len(t) PROVE x[t[i].off] = c[t[i].off]
    BY DEF At
  <1>1. t \in Seq(Entries) /\ IsLive(At(t, c)[i])
    BY DEF TableFor
  <1>2. t[i].off \in Offsets
    <2>1. t[i] \in Entries
      BY <1>1
    <2>2. QED
      BY <2>1 DEF Entries
  <1>3. At(t, c)[i] = c[t[i].off]
    BY DEF At
  <1>4. QED
    BY <1>1, <1>2, <1>3 DEF IsLive

(* What holds while a record is being appended.                            *)
LEMMA AppendFacts ==
    ASSUME HeaderInv, ContentInv, pc = "append"
    PROVE  /\ ~Unmounted /\ active \in Areas /\ Log1 \in [Offsets -> Cells] /\ sec \in Nat
           /\ Live \in Maps /\ Recoverable = Live /\ 1 + Map!Used(Live) <= AreaPages
           /\ IsWrite /\ req \in Requests /\ req # NoReq /\ req.key \in Keys
           /\ NewVal \in Vals \cup {Absent} /\ NewPages = RecPages(NewVal)
           /\ NewPages \in Nat /\ page \in Nat /\ page < NewPages
           /\ free \in Offsets /\ free + NewPages <= AreaPages
           /\ Log(Log1, free) /\ Log1[free].st \in {"erased", "bad"}
           /\ TableFor(table, At(table, Log1), Live) /\ Writing(table, At(table, Log1))
           /\ consumed = 1 + Map!Used(Live)
           /\ Map!Granted(Live, req) /\ Map!Effect(Live, req) = [Live EXCEPT ![req.key] = NewVal]
           /\ 1 + Map!Used([Live EXCEPT ![req.key] = NewVal]) <= AreaPages
  <1>1. ~Unmounted /\ AppendInv /\ page \in Nat /\ sec \in Nat /\ req \in Requests \cup {NoReq}
    BY DEF ContentInv, Unmounted
  <1>2. /\ active \in Areas /\ Log1 \in [Offsets -> Cells] /\ Live \in Maps /\ Recoverable = Live
        /\ 1 + Map!Used(Live) <= AreaPages
    BY <1>1, MountedFacts
  <1>3. /\ IsWrite /\ page < NewPages /\ free + NewPages <= AreaPages
        /\ Log(Log1, free) /\ Writing(table, At(table, Log1))
        /\ TableFor(table, At(table, Log1), Live) /\ consumed = 1 + Map!Used(Live)
    BY <1>1 DEF AppendInv, Indexed
  <1>4. /\ req \in Requests /\ req # NoReq /\ req.key \in Keys
        /\ NewVal \in Vals \cup {Absent} /\ NewPages = RecPages(NewVal)
        /\ NewPages \in Nat /\ NewPages >= 1
        /\ Map!Effect(Live, req) = [Live EXCEPT ![req.key] = NewVal]
    BY <1>1, <1>3, WriteFacts
  <1>5. free \in Nat /\ free >= 1
    BY <1>3, SizeFacts DEF Log
  <1>6. free \in Offsets /\ free < AreaPages
    BY <1>3, <1>4, <1>5, SizeFacts
  <1>7. Log1[free].st \in {"erased", "bad"}
    BY <1>1, <1>6 DEF AppendInv, InProgress
  <1>8. Map!Granted(Live, req) /\ 1 + Map!Used(Map!Effect(Live, req)) <= AreaPages
    BY <1>1, <1>2, <1>3, EffectFits
  <1>9. QED
    BY <1>1, <1>2, <1>3, <1>4, <1>6, <1>7, <1>8

LEMMA AppendPageContent ==
    ASSUME HeaderInv, HeaderInv', ContentInv, AppendPage
    PROVE  ContentInv' /\ MapStep
  <1>0. pc = "append" /\ crashes' = crashes
    BY DEF AppendPage
  <1>1. /\ ~Unmounted /\ active \in Areas /\ Log1 \in [Offsets -> Cells] /\ sec \in Nat
        /\ Live \in Maps /\ Recoverable = Live /\ 1 + Map!Used(Live) <= AreaPages
        /\ IsWrite /\ req \in Requests /\ req # NoReq /\ req.key \in Keys
        /\ NewVal \in Vals \cup {Absent} /\ NewPages = RecPages(NewVal)
        /\ NewPages \in Nat /\ page \in Nat /\ page < NewPages
        /\ free \in Offsets /\ free \in Nat /\ free + NewPages <= AreaPages
        /\ Log(Log1, free) /\ Log1[free].st \in {"erased", "bad"}
        /\ TableFor(table, At(table, Log1), Live) /\ Writing(table, At(table, Log1))
        /\ consumed = 1 + Map!Used(Live)
    BY <1>0, AppendFacts, SizeFacts
  <1>2. /\ Map!Granted(Live, req) /\ Map!Effect(Live, req) = [Live EXCEPT ![req.key] = NewVal]
        /\ 1 + Map!Used([Live EXCEPT ![req.key] = NewVal]) <= AreaPages
    BY <1>0, AppendFacts
  <1>3. PICK y : y = ProgramPage(flash[active], free, req.key, NewVal, page)
    OBVIOUS
  <1>4. flash' = [flash EXCEPT ![active] = y]
    BY <1>3 DEF AppendPage
  <1>5. PICK x : x = y.cell
    OBVIOUS
  <1>6. /\ x \in [Offsets -> Cells]
        /\ IF page + 1 < NewPages THEN Partial(x, Log1, free) /\ x[free].st = "bad"
                                  ELSE Final(x, Log1, free, req.key, NewVal)
    BY <1>1, <1>3, <1>5, ProgramCells DEF Log1
  <1>7. flash'[active] = y /\ \A b \in Areas : flash'[b].cell \in [Offsets -> Cells]
    BY <1>1, <1>4, <1>5, <1>6, AreaCells
  <1>8. \A q \in Offsets : Log1[q].st = "rec" => q # free
    BY <1>1
  <1>9. CASE page + 1 < NewPages
    <2>1. /\ page' = page + 1 /\ pc' = "append"
          /\ UNCHANGED <<req, active, table, consumed, free, sec, slot, oldsz>>
      BY <1>0, <1>9 DEF AppendPage, ramVars
    <2>2. Partial(x, Log1, free) /\ x[free].st = "bad"
      BY <1>6, <1>9
    <2>3. Log1' = x /\ ~Unmounted'
      BY <1>5, <1>7, <2>1 DEF Log1, Unmounted
    <2>4. Log(x, free) /\ Contents(x) = Live
      BY <1>1, <1>6, <2>2, LogPartial DEF Partial, Live
    <2>5. Live' = Live
      BY <2>3, <2>4 DEF Live
    <2>6. At(table, x) = At(table, Log1)
      BY <1>1, <1>8, <2>2, SameEntries DEF Partial
    <2>7. LogArea(Log1')
      BY <1>1, <2>3, <2>4 DEF LogArea, Log
    <2>8. MountInv' /\ Recoverable' = Recoverable
      BY <1>1, <2>3, <2>5, <2>7, MountedNext
    <2>9. page' \in Nat /\ page' > 0 /\ page' < NewPages
      BY <1>1, <1>9, <2>1
    <2>10. IsWrite' /\ NewPages' = NewPages
      BY <1>1, <2>1 DEF IsWrite, NewPages, NewVal
    <2>11. Log(Log1, free)' /\ Indexed' /\ InProgress(Log1, free)'
      BY <1>1, <2>1, <2>2, <2>3, <2>4, <2>5, <2>6, <2>9 DEF Indexed, InProgress
    <2>12. Writing(table, At(table, Log1))'
      BY <1>1, <2>1, <2>3, <2>5, <2>6, <2>10 DEF Writing
    <2>13. AppendInv'
      BY <1>1, <2>1, <2>9, <2>10, <2>11, <2>12 DEF AppendInv
    <2>14. ContentInv'
      BY <1>1, <1>7, <2>1, <2>8, <2>9, <2>13, <2>3 DEF ContentInv
    <2>15. QED
      BY <1>0, <2>1, <2>8, <2>14 DEF MapStep
  <1>10. CASE ~(page + 1 < NewPages)
    <2>1. /\ table' = UpdateRamTable(table, slot, req.key, NewVal, oldsz, free)
          /\ consumed' = UpdateConsumedSize(consumed, NewVal, oldsz)
          /\ free' = free + NewPages /\ active' = active
          /\ pc' = "idle" /\ req' = NoReq /\ page' \in Nat /\ sec' \in Nat
      BY <1>10 DEF AppendPage, Return, ForgetLocals
    <2>2. Final(x, Log1, free, req.key, NewVal)
      BY <1>6, <1>10
    <2>3. Log1' = x /\ ~Unmounted'
      BY <1>5, <1>7, <2>1 DEF Log1, Unmounted
    <2> DEFINE w == [Live EXCEPT ![req.key] = NewVal]
    <2>4. Log(x, free + NewPages) /\ Contents(x) = w
      BY <1>1, <1>6, <2>2, LogFinal DEF Final, Live
    <2>5. Live' = w
      BY <2>3, <2>4 DEF Live
    <2>6. oldsz = Map!PagesOf(Live[req.key]) /\ SlotFor(table, At(table, Log1), slot, req.key, Live)
      BY <1>1 DEF Writing
    <2>7. NewVal = Absent => Live[req.key] # Absent
      <3>1. NewVal = Absent => req.kind = "delete"
        BY <1>1, WriteFacts
      <3>2. req.kind = "delete" => oldsz # 0
        BY <1>1 DEF Writing
      <3>3. QED
        BY <2>6, <3>1, <3>2, SizeFacts
    <2>8. \A q \in Offsets : Log1[q].st = "rec" => x[q] = Log1[q]
      <3> SUFFICES ASSUME NEW q \in Offsets, Log1[q].st = "rec" PROVE q < free
        BY <2>2 DEF Final
      <3>1. QED
        BY <1>1 DEF Log
    <2>9. At(table, x) = At(table, Log1)
      BY <1>1, <2>8, SameEntries
    <2>10. \A j \in 1 .. Len(table) : x[table[j].off] = At(table, Log1)[j]
      BY <2>9 DEF At
    <2>11. Updates(table, At(table, Log1), Live, req.key, NewVal, slot, free, x, table', consumed)
      BY <1>1, <2>1, <2>2, <2>6, <2>7, <2>10 DEF Updates, Final
    <2>12. TableFor(table', At(table', x), w) /\ consumed' = 1 + Map!Used(w)
      BY <2>1, <2>6, <2>11, UpdateBoth
    <2>13. LogArea(Log1')
      BY <1>2, <2>3, <2>4 DEF LogArea, Log
    <2>14. MountInv' /\ Recoverable' = w
      BY <2>3, <2>5, <2>13, MountedNext
    <2>15. free' < AreaPages => Log1'[free'].st = "erased"
      <3>1. SUFFICES ASSUME free + NewPages < AreaPages PROVE x[free + NewPages].st = "erased"
        BY <2>1, <2>3
      <3>2. NewPages >= 1
        BY <1>1, SizeFacts
      <3>3. free + NewPages \in Offsets /\ free + NewPages > free /\ free + NewPages >= free + RecPages(NewVal)
        BY <1>1, <3>1, <3>2, SizeFacts
      <3>4. x[free + NewPages] = Log1[free + NewPages]
        BY <1>1, <2>2, <3>3 DEF Final
      <3>5. QED
        BY <1>1, <3>3, <3>4 DEF Log
    <2>16. Ready'
      BY <2>1, <2>3, <2>4, <2>5, <2>12, <2>15 DEF Ready, Indexed
    <2>17. ContentInv'
      BY <1>7, <2>1, <2>14, <2>16 DEF ContentInv, Unmounted
    <2>18. Map!Complete
      BY <1>0, <1>1, <1>2, <2>1, <2>14 DEF Map!Complete
    <2>19. QED
      BY <2>17, <2>18 DEF MapStep, Map!Next
  <1>11. QED
    BY <1>9, <1>10

-----------------------------------------------------------------------------
(* Garbage collection.                                                     *)

(* A step of GC before the header changes the new area only.               *)
LEMMA GcAreaChanges ==
    ASSUME HeaderInv, HeaderInv', ContentInv, ~Unmounted, ~Unmounted', active' = active,
           NEW y, flash' = [flash EXCEPT ![gcArea] = y], y.cell \in [Offsets -> Cells]
    PROVE  /\ Log1' = Log1 /\ Live' = Live /\ Log2' = y.cell /\ flash'[gcArea'] = y
           /\ MountInv' /\ Recoverable' = Recoverable
           /\ \A b \in Areas : flash'[b].cell \in [Offsets -> Cells]
  <1>1. /\ active \in Areas /\ gcArea \in Areas /\ LogArea(Log1) /\ Recoverable = Live
    BY MountedFacts
  <1>2. Other(gcArea) = active /\ gcArea' = gcArea
    BY <1>1 DEF gcArea, Other, Areas
  <1>3. /\ flash'[gcArea] = y /\ flash'[active] = flash[active]
        /\ \A b \in Areas : flash'[b].cell \in [Offsets -> Cells]
    BY <1>1, <1>2, AreaCells
  <1>4. Log1' = Log1 /\ Live' = Live /\ Log2' = y.cell /\ flash'[gcArea'] = y
    BY <1>2, <1>3 DEF Log1, Log2, Live
  <1>5. MountInv' /\ Recoverable' = Recoverable
    BY <1>1, <1>4, MountedNext
  <1>6. QED
    BY <1>3, <1>4, <1>5

LEMMA SameRequest ==
    ASSUME req' = req, oldsz' = oldsz, Live' = Live
    PROVE  /\ IsReset' = IsReset /\ IsWrite' = IsWrite /\ CarriesRecord' = CarriesRecord
           /\ NewVal' = NewVal /\ NewPages' = NewPages /\ Base' = Base /\ Target' = Target
  <1>1. /\ IsReset' = IsReset /\ IsWrite' = IsWrite /\ NewVal' = NewVal /\ NewPages' = NewPages
    BY DEF IsReset, IsWrite, NewVal, NewPages
  <1>2. CarriesRecord' = CarriesRecord
    BY <1>1 DEF CarriesRecord
  <1>3. QED
    BY <1>1, <1>2 DEF Base, Target

LEMMA GcEraseContent ==
    ASSUME HeaderInv, HeaderInv', ContentInv, GcErase
    PROVE  ContentInv' /\ MapStep
  <1>0. /\ pc = "erase" /\ ~Unmounted /\ EraseInv /\ sec \in Nat /\ page \in Nat
        /\ req \in Requests \cup {NoReq}
        /\ UNCHANGED <<req, active, table, consumed, slot, oldsz, crashes>>
    BY DEF GcErase, ContentInv, Unmounted, ramVars
  <1>1. PICK y : y = EraseSector(flash[gcArea], sec)
    OBVIOUS
  <1>2. flash' = [flash EXCEPT ![gcArea] = y]
    BY <1>1 DEF GcErase
  <1>3. Log2 \in [Offsets -> Cells] /\ gcArea \in Areas
    BY <1>0, MountedFacts
  <1>4. /\ y.cell \in [Offsets -> Cells]
        /\ sec = 0 => y.hdr = ErasedHeader /\ AllErased(y.cell)
        /\ sec # 0 => /\ NextToErase(sec) \in Nat /\ NextToErase(sec) < NumSectors
                      /\ ErasedUpTo(y.cell, NextToErase(sec))
    BY <1>0, <1>1, <1>3, EraseCells DEF Log2, EraseInv
  <1>5. \/ sec = 0 /\ pc' = "copy" /\ off' = 1 /\ idx' = 1 /\ page' = 0 /\ sec' = sec
        \/ sec # 0 /\ pc' = "erase" /\ sec' = NextToErase(sec) /\ page' = page
    BY <1>0 DEF GcErase
  <1>6. /\ Log1' = Log1 /\ Live' = Live /\ Log2' = y.cell /\ flash'[gcArea'] = y
        /\ MountInv' /\ Recoverable' = Recoverable
        /\ \A b \in Areas : flash'[b].cell \in [Offsets -> Cells]
    BY <1>0, <1>2, <1>4, <1>5, GcAreaChanges DEF Unmounted
  <1>7. /\ IsReset' = IsReset /\ IsWrite' = IsWrite /\ Base' = Base
        /\ NewPages' = NewPages
    BY <1>0, <1>6, SameRequest
  <1>8. /\ TableFor(table, At(table, Log1), Base) /\ GcConsumed
        /\ Writing(table, At(table, Log1))
    BY <1>0 DEF EraseInv
  <1>9. GcConsumed'
    BY <1>0, <1>6, <1>7, <1>8 DEF GcConsumed
  <1>10. MapStep
    BY <1>0, <1>6 DEF MapStep
  <1>11. CASE sec # 0
    <2>1. Writing(table, At(table, Log1))'
      BY <1>0, <1>6, <1>7, <1>8 DEF Writing
    <2>2. EraseInv'
      BY <1>0, <1>4, <1>5, <1>6, <1>7, <1>8, <1>9, <1>11, <2>1 DEF EraseInv
    <2>3. QED
      BY <1>0, <1>4, <1>5, <1>6, <1>10, <1>11, <2>2 DEF ContentInv, Unmounted
  <1>12. CASE sec = 0
    <2>1. Log(y.cell, 1) /\ Contents(y.cell) = Map!Empty
      BY <1>4, <1>12, ErasedLog
    <2>2. NewArea'
      <3>1. 1 \in Offsets
        BY SizeFacts
      <3>2. InProgress(Log2, off)'
        BY <1>4, <1>5, <1>6, <1>12, <3>1 DEF InProgress, AllErased
      <3>3. QED
        BY <1>4, <1>5, <1>6, <1>12, <2>1, <3>2, UsedEmpty DEF NewArea
    <2>3. Len(table) \in Nat /\ table' = table /\ idx' = 1
      BY <1>0, <1>5, <1>8, <1>12 DEF TableFor
    <2>4. \A i \in 1 .. Len(table) : ~Moved(i)'
      BY <2>3 DEF Moved
    <2>5. Source' = At(table, Log1)
      BY <1>6, <2>3, <2>4 DEF Source, At
    <2>6. Copied'
      <3>1. \A k \in Keys : Contents(Log2')[k] = Absent
        BY <1>6, <2>1 DEF Map!Empty
      <3>2. QED
        BY <2>3, <2>4, <3>1 DEF Copied
    <2>7. Writing(table, Source)'
      BY <1>0, <1>6, <1>7, <1>8, <2>5 DEF Writing
    <2>8. CopyInv'
      BY <1>5, <1>7, <1>8, <1>9, <1>12, <2>2, <2>3, <2>5, <2>6, <2>7 DEF CopyInv
    <2>9. QED
      BY <1>0, <1>5, <1>6, <1>10, <1>12, <2>8 DEF ContentInv, Unmounted
  <1>13. QED
    BY <1>11, <1>12

(* What holds while live records are copied.                               *)
LEMMA CopyingFacts ==
    ASSUME HeaderInv, ContentInv, pc \in {"copy", "inject"}
    PROVE  /\ ~Unmounted /\ CopyInv /\ page \in Nat /\ sec \in Nat /\ gcArea \in Areas
           /\ req \in Requests \cup {NoReq}
           /\ Log1 \in [Offsets -> Cells] /\ Log2 \in [Offsets -> Cells]
           /\ Live \in Maps /\ Base \in Maps /\ 1 + Map!Used(Live) <= AreaPages
           /\ Map!Used(Base) \in Nat /\ 1 + Map!Used(Base) <= AreaPages
           /\ Contents(Log2) \in Maps /\ Map!Used(Contents(Log2)) \in Nat
           /\ Log(Log2, off) /\ off \in Nat /\ off >= 1 /\ off = 1 + Map!Used(Contents(Log2))
           /\ off < AreaPages => off \in Offsets /\ Log2[off].st \in {"erased", "bad"}
           /\ table \in Seq(Entries) /\ Len(table) \in Nat /\ idx \in Nat
           /\ \A i \in 1 .. Len(table) : table[i] \in Entries /\ table[i].off \in Offsets
  <1>1. /\ ~Unmounted /\ CopyInv /\ page \in Nat /\ sec \in Nat /\ req \in Requests \cup {NoReq}
    BY DEF ContentInv, Unmounted
  <1>2. /\ gcArea \in Areas /\ Log1 \in [Offsets -> Cells] /\ Log2 \in [Offsets -> Cells]
        /\ Live \in Maps /\ Base \in Maps /\ 1 + Map!Used(Live) <= AreaPages
    BY <1>1, MountedFacts
  <1>3. Map!Used(Base) \in Nat /\ 1 + Map!Used(Base) <= AreaPages
    BY <1>2, UsedFinite, UsedEmpty, SizeFacts DEF Base
  <1>4. Contents(Log2) \in Maps /\ Map!Used(Contents(Log2)) \in Nat
    BY <1>2, ContentsMaps, UsedFinite
  <1>5. /\ Log(Log2, off) /\ off = 1 + Map!Used(Contents(Log2)) /\ InProgress(Log2, off)
        /\ table \in Seq(Entries)
    BY <1>1 DEF CopyInv, NewArea, TableFor
  <1>6. off \in Nat /\ off >= 1
    BY <1>5, SizeFacts DEF Log
  <1>7. off < AreaPages => off \in Offsets /\ Log2[off].st \in {"erased", "bad"}
    BY <1>5, <1>6, SizeFacts DEF InProgress
  <1>8. Len(table) \in Nat /\ \A i \in 1 .. Len(table) : table[i] \in Entries
    BY <1>5
  <1>9. \A i \in 1 .. Len(table) : table[i].off \in Offsets
    BY <1>8 DEF Entries
  <1>10. idx \in Nat
    BY <1>1, <1>8 DEF CopyInv
  <1>11. QED
    BY <1>1, <1>2, <1>3, <1>4, <1>5, <1>6, <1>7, <1>8, <1>9, <1>10

(* The entries that were moved point at records of the new log.            *)
LEMMA MovedRecords ==
    ASSUME HeaderInv, ContentInv, pc \in {"copy", "inject"}, NEW i \in 1 .. Len(table), Moved(i)
    PROVE  Source[i] = Log2[table[i].off] /\ Log2[table[i].off].st = "rec" /\ table[i].off < off
  <1>1. Source[i] = Log2[table[i].off]
    BY DEF Source
  <1>2. IsLive(Source[i])
    BY CopyingFacts DEF CopyInv, TableFor
  <1>3. table[i].off \in Offsets /\ Log(Log2, off)
    BY CopyingFacts
  <1>4. QED
    BY <1>1, <1>2, <1>3 DEF IsLive, Log

(* The record that is copied next is live, not yet copied, and fits.       *)
LEMMA NextRecord ==
    ASSUME HeaderInv, ContentInv, pc = "copy", idx <= Len(table), ~(CarriesRecord /\ idx = slot),
           NEW c, c = Log1[table[idx].off]
    PROVE  /\ idx \in 1 .. Len(table) /\ Source[idx] = c
           /\ c \in Cells /\ c.st = "rec" /\ c.key \in Keys /\ c.val \in Vals
           /\ Base[c.key] = c.val /\ Contents(Log2)[c.key] = Absent
           /\ RecPages(c.val) \in Nat /\ RecPages(c.val) >= 1 /\ page < RecPages(c.val)
           /\ RecPages(c.val) = Map!PagesOf(c.val)
           /\ off \in Offsets /\ off + RecPages(c.val) <= AreaPages
           /\ \A i \in 1 .. Len(table) : Source[i].key = c.key => i = idx
  <1>1. idx \in 1 .. Len(table) /\ idx \in Nat
    BY CopyingFacts DEF CopyInv
  <1>2. ~Moved(idx)
    BY <1>1 DEF Moved
  <1>3. Source[idx] = c
    BY <1>1, <1>2 DEF Source
  <1>4. TableFor(table, Source, Base) /\ Copied
    BY CopyingFacts DEF CopyInv
  <1>5. c.st = "rec" /\ c.key \in Keys /\ c.val \in Vals /\ Base[c.key] = c.val
    BY <1>1, <1>3, <1>4 DEF TableFor, IsLive
  <1>6. c \in Cells
    BY <1>1, CopyingFacts
  <1>7. \A i \in 1 .. Len(table) : Source[i].key = c.key => i = idx
    BY <1>1, <1>3, <1>4 DEF TableFor
  <1> DEFINE g == Contents(Log2)
             w == [g EXCEPT ![c.key] = c.val]
             n == RecPages(c.val)
  <1>8. g[c.key] = Absent
    BY <1>2, <1>4, <1>5, <1>7 DEF Copied
  <1>9. n \in Nat /\ n >= 1 /\ n = Map!PagesOf(c.val)
    BY <1>5, SizeFacts
  <1>10. page < n
    BY <1>3, <1>9, CopyingFacts DEF CopyInv
  <1>11. g \in Maps /\ Base \in Maps /\ \A k \in Keys : g[k] = Base[k] \/ g[k] = Absent
    BY <1>4, CopyingFacts DEF Copied
  <1>12. w \in Maps /\ Map!Used(w) = Map!Used(g) - Map!PagesOf(g[c.key]) + Map!PagesOf(c.val)
    BY <1>5, <1>11, UsedUpdate
  <1>13. \A k \in Keys : w[k] = Base[k] \/ w[k] = Absent
    BY <1>5, <1>11 DEF Maps
  <1> HIDE DEF g, w, n
  <1>14. Map!Used(w) <= Map!Used(Base)
    BY <1>11, <1>12, <1>13, UsedPart
  <1>15. Map!Used(w) = Map!Used(g) + n /\ Map!Used(g) \in Nat
    BY <1>8, <1>9, <1>11, <1>12, UsedFinite, SizeFacts
  <1>16. off = 1 + Map!Used(g) /\ off \in Nat /\ off >= 1 /\ 1 + Map!Used(Base) <= AreaPages /\ Map!Used(Base) \in Nat
    BY CopyingFacts DEF g
  <1>17. off + n <= AreaPages
    BY <1>9, <1>14, <1>15, <1>16, SizeFacts
  <1>18. off \in Offsets
    BY <1>9, <1>16, <1>17, SizeFacts
  <1>19. QED
    BY <1>1, <1>3, <1>5, <1>6, <1>7, <1>8, <1>9, <1>10, <1>17, <1>18 DEF g, n

LEMMA GcSkipContent ==
    ASSUME HeaderInv, HeaderInv', ContentInv, GcSkip
    PROVE  ContentInv' /\ MapStep
  <1>0. /\ pc = "copy" /\ pc' = "copy" /\ idx <= Len(table) /\ CarriesRecord /\ idx = slot
        /\ idx' = idx + 1
        /\ flash' = flash /\ active' = active
        /\ UNCHANGED <<req, table, consumed, off, page, sec, slot, oldsz, crashes>>
    BY DEF GcSkip, ramVars
  <1>1. /\ Recoverable' = Recoverable /\ MountInv'
        /\ \A a \in Areas : flash'[a].cell \in [Offsets -> Cells]
    BY <1>0, FlashSame
  <1>2. Log1' = Log1 /\ Log2' = Log2 /\ Live' = Live /\ gcArea' = gcArea
    BY <1>0, ViewsSame
  <1>3. /\ CopyInv /\ Len(table) \in Nat /\ idx \in Nat /\ page \in Nat /\ sec \in Nat
        /\ req \in Requests \cup {NoReq}
    BY <1>0, CopyingFacts
  <1>4. /\ IsReset' = IsReset /\ IsWrite' = IsWrite /\ CarriesRecord' = CarriesRecord
        /\ NewPages' = NewPages /\ Base' = Base
    BY <1>0, <1>2, SameRequest
  <1>5. page = 0
    BY <1>0, <1>3 DEF CopyInv
  <1>6. ASSUME NEW i \in 1 .. Len(table) PROVE Moved(i)' = Moved(i)
    <2>1. i \in Nat
      OBVIOUS
    <2>2. i < idx + 1 <=> i < idx \/ i = idx
      BY <1>3, <2>1
    <2>3. Moved(i)' <=> Moved(i)
      BY <1>0, <1>4, <2>2 DEF Moved
    <2>4. QED
      BY <2>3 DEF Moved
  <1>7. Source' = Source
    BY <1>0, <1>2, <1>6 DEF Source
  <1>8. Copied'
    BY <1>0, <1>2, <1>3, <1>4, <1>6, <1>7 DEF CopyInv, Copied
  <1>9. NewArea'
    BY <1>0, <1>2, <1>3 DEF CopyInv, NewArea, InProgress
  <1>10. Writing(table, Source)' /\ GcConsumed'
    BY <1>0, <1>2, <1>3, <1>4, <1>7 DEF CopyInv, Writing, GcConsumed
  <1>11. idx' \in 1 .. Len(table') + 1
    BY <1>0, <1>3
  <1>12. TableFor(table, Source, Base)'
    BY <1>0, <1>3, <1>4, <1>7 DEF CopyInv
  <1>13. CopyInv'
    BY <1>0, <1>5, <1>8, <1>9, <1>10, <1>11, <1>12 DEF CopyInv
  <1>14. QED
    BY <1>0, <1>1, <1>3, <1>13 DEF ContentInv, Unmounted, MapStep

(* A page of a copied or injected record that is not its last.             *)
LEMMA PartialContent ==
    ASSUME HeaderInv, HeaderInv', ContentInv, pc \in {"copy", "inject"}, pc' = pc,
           UNCHANGED <<req, active, table, consumed, off, idx, sec, slot, oldsz, crashes>>,
           page' = page + 1, off \in Offsets,
           NEW y, flash' = [flash EXCEPT ![gcArea] = y], y.hdr = flash[gcArea].hdr,
           y.cell \in [Offsets -> Cells], Partial(y.cell, Log2, off), y.cell[off].st = "bad",
           pc = "copy" => /\ idx <= Len(table) /\ ~(CarriesRecord /\ idx = slot)
                          /\ page + 1 < RecPages(Source[idx].val),
           pc = "inject" => page + 1 < NewPages
    PROVE  ContentInv' /\ MapStep
  <1>1. /\ ~Unmounted /\ CopyInv /\ page \in Nat /\ sec \in Nat /\ req \in Requests \cup {NoReq}
        /\ Log(Log2, off) /\ Len(table) \in Nat /\ off \in Nat
        /\ \A i \in 1 .. Len(table) : table[i].off \in Offsets
    BY CopyingFacts
  <1>2. ~Unmounted'
    BY DEF Unmounted
  <1>3. /\ Log1' = Log1 /\ Live' = Live /\ Log2' = y.cell /\ flash'[gcArea'] = y
        /\ MountInv' /\ Recoverable' = Recoverable
        /\ \A b \in Areas : flash'[b].cell \in [Offsets -> Cells]
    BY <1>1, <1>2, GcAreaChanges
  <1>4. /\ IsReset' = IsReset /\ IsWrite' = IsWrite /\ CarriesRecord' = CarriesRecord
        /\ NewPages' = NewPages /\ Base' = Base
    BY <1>3, SameRequest
  <1>5. Log(y.cell, off) /\ Contents(y.cell) = Contents(Log2)
    BY <1>1, LogPartial DEF Partial
  <1>6. \A i \in 1 .. Len(table) : Moved(i)' = Moved(i)
    BY <1>4 DEF Moved
  <1>7. Source' = Source
    <2>1. ASSUME NEW i \in 1 .. Len(table), Moved(i) PROVE y.cell[table[i].off] = Log2[table[i].off]
      <3>1. table[i].off < off
        BY <2>1, MovedRecords
      <3>2. table[i].off \in Offsets /\ table[i].off # off
        BY <1>1, <3>1
      <3>3. QED
        BY <3>2 DEF Partial
    <2>2. QED
      BY <1>3, <1>6, <2>1 DEF Source
  <1>8. Copied'
    BY <1>1, <1>3, <1>4, <1>5, <1>6, <1>7 DEF CopyInv, Copied
  <1>9. page' \in Nat /\ page' > 0
    BY <1>1
  <1>10. NewArea'
    <2>1. InProgress(Log2, off)'
      BY <1>3, <1>9 DEF InProgress
    <2>2. QED
      BY <1>1, <1>3, <1>5, <2>1 DEF CopyInv, NewArea
  <1>11. Writing(table, Source)' /\ GcConsumed'
    BY <1>1, <1>3, <1>4, <1>7 DEF CopyInv, Writing, GcConsumed
  <1>12. TableFor(table, Source, Base)' /\ idx' \in 1 .. Len(table') + 1
    BY <1>1, <1>4, <1>7 DEF CopyInv
  <1>13. pc' = "copy" => /\ idx' <= Len(table') /\ ~(CarriesRecord' /\ idx' = slot')
                         /\ page' < RecPages(Source'[idx'].val)
    BY <1>4, <1>7
  <1>14. pc' = "inject" => /\ idx' = Len(table') + 1 /\ page' < NewPages'
                           /\ CarriesRecord' /\ req'.kind = "write"
    BY <1>1, <1>4 DEF CopyInv
  <1>15. CopyInv'
    BY <1>8, <1>10, <1>11, <1>12, <1>13, <1>14 DEF CopyInv
  <1>16. QED
    BY <1>1, <1>2, <1>3, <1>9, <1>15 DEF ContentInv, MapStep

(* After the last page of a record the log goes on with an erased page.    *)
LEMMA NextErased ==
    ASSUME NEW c, NEW e \in Offsets, Log(c, e), NEW k, NEW v \in Vals \cup {Absent}, NEW x,
           Final(x, c, e, k, v), e + RecPages(v) < AreaPages
    PROVE  x[e + RecPages(v)].st = "erased"
  <1>1. RecPages(v) \in Nat /\ RecPages(v) >= 1 /\ e \in Nat
    BY SizeFacts
  <1>2. e + RecPages(v) \in Offsets /\ e + RecPages(v) > e /\ e + RecPages(v) >= e + RecPages(v)
    BY <1>1, SizeFacts
  <1>3. x[e + RecPages(v)] = c[e + RecPages(v)]
    BY <1>2 DEF Final
  <1>4. QED
    BY <1>2, <1>3 DEF Log

(* Only the offsets of the entries differ.                                 *)
LEMMA SameTable ==
    ASSUME NEW t, NEW cs, NEW m, TableFor(t, cs, m), NEW t2 \in Seq(Entries),
           Len(t2) = Len(t), \A i \in 1 .. Len(t) : t2[i].hash = t[i].hash
    PROVE  /\ TableFor(t2, cs, m)
           /\ \A i, k : SlotFor(t, cs, i, k, m) => SlotFor(t2, cs, i, k, m)
  <1>1. TableFor(t2, cs, m)
    BY DEF TableFor
  <1>2. QED
    BY <1>1 DEF SlotFor

LEMMA GcCopyPageContent ==
    ASSUME HeaderInv, HeaderInv', ContentInv, GcCopyPage
    PROVE  ContentInv' /\ MapStep
  <1>1. PICK c : c = Log1[table[idx].off]
    OBVIOUS
  <1>2. /\ pc = "copy" /\ pc' = "copy" /\ idx <= Len(table) /\ ~(CarriesRecord /\ idx = slot)
        /\ flash' = [flash EXCEPT ![gcArea] = ProgramPage(flash[gcArea], off, c.key, c.val, page)]
        /\ UNCHANGED <<req, active, consumed, sec, slot, oldsz, crashes>>
        /\ IF page + 1 < RecPages(c.val)
           THEN page' = page + 1 /\ UNCHANGED <<table, off, idx>>
           ELSE /\ table' = [table EXCEPT ![idx].off = off] /\ off' = off + RecPages(c.val)
                /\ idx' = idx + 1 /\ page' = 0
    BY <1>1 DEF GcCopyPage, Log1
  <1>3. /\ ~Unmounted /\ CopyInv /\ page \in Nat /\ sec \in Nat /\ gcArea \in Areas
        /\ req \in Requests \cup {NoReq} /\ Log2 \in [Offsets -> Cells]
        /\ Contents(Log2) \in Maps /\ Map!Used(Contents(Log2)) \in Nat
        /\ Log(Log2, off) /\ off \in Nat /\ off = 1 + Map!Used(Contents(Log2))
        /\ table \in Seq(Entries) /\ Len(table) \in Nat /\ idx \in Nat
        /\ \A i \in 1 .. Len(table) : table[i] \in Entries /\ table[i].off \in Offsets
    BY <1>2, CopyingFacts
  <1>4. /\ idx \in 1 .. Len(table) /\ Source[idx] = c
        /\ c \in Cells /\ c.st = "rec" /\ c.key \in Keys /\ c.val \in Vals
        /\ Base[c.key] = c.val /\ Contents(Log2)[c.key] = Absent
        /\ RecPages(c.val) \in Nat /\ RecPages(c.val) >= 1 /\ page < RecPages(c.val)
        /\ RecPages(c.val) = Map!PagesOf(c.val)
        /\ off \in Offsets /\ off + RecPages(c.val) <= AreaPages
        /\ \A i \in 1 .. Len(table) : Source[i].key = c.key => i = idx
    BY <1>1, <1>2, NextRecord
  <1>5. PICK y : y = ProgramPage(flash[gcArea], off, c.key, c.val, page)
    OBVIOUS
  <1>6. /\ flash' = [flash EXCEPT ![gcArea] = y] /\ y.hdr = flash[gcArea].hdr
    BY <1>2, <1>5 DEF ProgramPage
  <1>7. PICK x : x = y.cell
    OBVIOUS
  <1>8. /\ x \in [Offsets -> Cells]
        /\ IF page + 1 < RecPages(c.val) THEN Partial(x, Log2, off) /\ x[off].st = "bad"
                                         ELSE Final(x, Log2, off, c.key, c.val)
    <2>1. PICK k \in Keys, v \in Vals \cup {Absent} : k = c.key /\ v = c.val
      BY <1>4
    <2>2. PICK a : a = flash[gcArea]
      OBVIOUS
    <2>3. /\ x = ProgramPage(a, off, k, v, page).cell /\ a.cell = Log2
          /\ a.cell \in [Offsets -> Cells] /\ page < RecPages(v)
      BY <1>3, <1>4, <1>5, <1>7, <2>1, <2>2 DEF Log2
    <2>4. /\ x \in [Offsets -> Cells]
          /\ IF page + 1 < RecPages(v) THEN Partial(x, a.cell, off) /\ x[off].st = "bad"
                                       ELSE Final(x, a.cell, off, k, v)
      BY <1>3, <1>4, <2>3, ProgramCells
    <2>5. QED
      BY <2>1, <2>3, <2>4
  <1>9. CASE page + 1 < RecPages(c.val)
    <2>1. Partial(x, Log2, off) /\ x[off].st = "bad"
      BY <1>8, <1>9
    <2>2. page' = page + 1 /\ UNCHANGED <<table, off, idx>>
      BY <1>2, <1>9
    <2>3. page + 1 < RecPages(Source[idx].val)
      BY <1>4, <1>9
    <2>4. QED
      BY <1>2, <1>4, <1>6, <1>7, <1>8, <2>1, <2>2, <2>3, PartialContent
  <1>10. CASE ~(page + 1 < RecPages(c.val))
    <2>1. /\ table' = [table EXCEPT ![idx].off = off] /\ off' = off + RecPages(c.val)
          /\ idx' = idx + 1 /\ page' = 0 /\ Final(x, Log2, off, c.key, c.val)
      BY <1>2, <1>8, <1>10
    <2>2. ~Unmounted'
      BY <1>2 DEF Unmounted
    <2>3. /\ Log1' = Log1 /\ Live' = Live /\ Log2' = x /\ flash'[gcArea'] = y
          /\ MountInv' /\ Recoverable' = Recoverable
          /\ \A b \in Areas : flash'[b].cell \in [Offsets -> Cells]
      BY <1>2, <1>3, <1>6, <1>7, <1>8, <2>2, GcAreaChanges
    <2>4. /\ IsReset' = IsReset /\ IsWrite' = IsWrite /\ CarriesRecord' = CarriesRecord
          /\ NewPages' = NewPages /\ Base' = Base
      BY <1>2, <2>3, SameRequest
    <2>5. /\ Log(x, off + RecPages(c.val))
          /\ Contents(x) = [Contents(Log2) EXCEPT ![c.key] = c.val]
      <3>1. PICK k \in Keys, v \in Vals \cup {Absent} : k = c.key /\ v = c.val
        BY <1>4
      <3>2. Log(x, off + RecPages(v)) /\ Contents(x) = [Contents(Log2) EXCEPT ![k] = v]
        BY <1>3, <1>4, <1>8, <2>1, <3>1, FinalLog
      <3>3. QED
        BY <3>1, <3>2
    <2>6. /\ Len(table') = Len(table) /\ table' \in Seq(Entries)
          /\ \A i \in 1 .. Len(table) : table'[i].hash = table[i].hash
          /\ table'[idx].off = off
          /\ \A i \in 1 .. Len(table) : i # idx => table'[i] = table[i]
      <3>1. [table[idx] EXCEPT !.off = off] \in Entries /\ [table[idx] EXCEPT !.off = off].off = off
            /\ [table[idx] EXCEPT !.off = off].hash = table[idx].hash
        BY <1>3, <1>4 DEF Entries
      <3>2. PICK e \in Entries : e = [table[idx] EXCEPT !.off = off]
        BY <3>1
      <3>3. table' = [table EXCEPT ![idx] = e]
        BY <2>1, <3>2
      <3>4. QED
        BY <1>3, <1>4, <3>1, <3>2, <3>3
    <2>7. ASSUME NEW i \in 1 .. Len(table) PROVE Moved(i)' <=> Moved(i) \/ i = idx
      <3>1. i \in Nat
        OBVIOUS
      <3>2. i < idx + 1 <=> i < idx \/ i = idx
        BY <1>3, <3>1
      <3>3. QED
        BY <1>2, <2>1, <2>4, <3>2 DEF Moved
    <2>8. ~Moved(idx)
      BY <1>3 DEF Moved
    <2>9. Source' = Source
      <3>1. ASSUME NEW i \in 1 .. Len(table) PROVE Source'[i] = Source[i]
        <4>1. Source'[i] = IF Moved(i)' THEN x[table'[i].off] ELSE Log1[table'[i].off]
          BY <2>3, <2>6 DEF Source
        <4>2. CASE i = idx
          <5>1. Source'[i] = x[off]
            BY <2>6, <2>7, <4>1, <4>2
          <5>2. x[off] = [st |-> "rec", key |-> c.key, val |-> c.val]
            BY <2>1 DEF Final
          <5>3. c = [st |-> "rec", key |-> c.key, val |-> c.val]
            BY <1>4 DEF Cells
          <5>4. QED
            BY <1>4, <4>2, <5>1, <5>2, <5>3
        <4>3. CASE i # idx /\ Moved(i)
          <5>1. Source[i] = Log2[table[i].off] /\ table[i].off < off
            BY <1>2, <4>3, MovedRecords
          <5>2. x[table[i].off] = Log2[table[i].off]
            BY <1>3, <2>1, <5>1 DEF Final
          <5>3. QED
            BY <2>6, <2>7, <4>1, <4>3, <5>1, <5>2
        <4>4. CASE i # idx /\ ~Moved(i)
          BY <2>6, <2>7, <4>1, <4>4 DEF Source
        <4>5. QED
          BY <4>2, <4>3, <4>4
      <3>2. Source' = [i \in 1 .. Len(table) |-> Source'[i]] /\ Source = [i \in 1 .. Len(table) |-> Source[i]]
        BY <2>6 DEF Source
      <3>3. QED
        BY <3>1, <3>2
    <2>10. TableFor(table, Source, Base)' /\ \A i, k : SlotFor(table, Source, i, k, Live) => SlotFor(table', Source, i, k, Live)
      BY <1>3, <2>4, <2>6, <2>9, SameTable DEF CopyInv, SlotFor
    <2>11. Writing(table, Source)' /\ GcConsumed'
      BY <1>2, <1>3, <2>3, <2>4, <2>9, <2>10 DEF CopyInv, Writing, GcConsumed
    <2>12. Copied'
      <3> SUFFICES ASSUME NEW k \in Keys
                   PROVE  Contents(x)[k] = IF \E i \in 1 .. Len(table) : Moved(i)' /\ Source[i].key = k
                                           THEN Base[k] ELSE Absent
        BY <2>3, <2>4, <2>6, <2>9 DEF Copied
      <3>1. CASE k = c.key
        <4>1. Contents(x)[k] = Base[k]
          BY <1>3, <1>4, <2>5, <3>1 DEF Maps
        <4>2. PICK j \in 1 .. Len(table) : j = idx
          BY <1>4
        <4>3. Moved(j)' /\ Source[j].key = k
          BY <1>4, <2>7, <3>1, <4>2
        <4>4. QED
          BY <4>1, <4>3
      <3>2. CASE k # c.key
        <4>1. Contents(x)[k] = Contents(Log2)[k]
          BY <1>3, <2>5, <3>2 DEF Maps
        <4>2. \A i \in 1 .. Len(table) : Source[i].key = k => (Moved(i)' <=> Moved(i))
          BY <1>4, <2>7, <3>2
        <4>3. QED
          BY <1>3, <4>1, <4>2 DEF CopyInv, Copied
      <3>3. QED
        BY <3>1, <3>2
    <2>13. off' = 1 + Map!Used(Contents(x))
      <3>1. /\ Map!Used([Contents(Log2) EXCEPT ![c.key] = c.val])
                 = Map!Used(Contents(Log2)) - Map!PagesOf(Contents(Log2)[c.key]) + Map!PagesOf(c.val)
        <4>1. PICK g \in Maps, k \in Keys, v \in Vals \cup {Absent} :
                g = Contents(Log2) /\ k = c.key /\ v = c.val
          BY <1>3, <1>4
        <4>2. Map!Used([g EXCEPT ![k] = v]) = Map!Used(g) - Map!PagesOf(g[k]) + Map!PagesOf(v)
          BY UsedUpdate
        <4>3. QED
          BY <4>1, <4>2
      <3>2. Map!PagesOf(Contents(Log2)[c.key]) = 0
        BY <1>4, SizeFacts
      <3>3. Map!Used(Contents(x)) = Map!Used(Contents(Log2)) - 0 + RecPages(c.val)
        BY <1>4, <2>5, <3>1, <3>2
      <3>4. QED
        BY <1>3, <1>4, <2>1, <3>3
    <2>14. NewArea'
      <3>1. off + RecPages(c.val) < AreaPages => x[off + RecPages(c.val)].st = "erased"
        BY <1>3, <1>4, <2>1, NextErased
      <3>2. InProgress(Log2, off)'
        BY <2>1, <2>3, <3>1 DEF InProgress
      <3>3. QED
        BY <1>3, <1>6, <2>1, <2>3, <2>5, <2>13, <3>2 DEF CopyInv, NewArea
    <2>15. idx' \in 1 .. Len(table') + 1
      BY <1>2, <1>3, <2>1, <2>6
    <2>16. CopyInv'
      BY <1>2, <2>1, <2>10, <2>11, <2>12, <2>14, <2>15 DEF CopyInv
    <2>17. QED
      BY <1>2, <1>3, <2>1, <2>2, <2>3, <2>16 DEF ContentInv, MapStep
  <1>11. QED
    BY <1>9, <1>10

(* All live records are in the new area, but for the one that the request  *)
(* replaces or deletes.                                                    *)
LEMMA AllCopied ==
    ASSUME HeaderInv, ContentInv, pc \in {"copy", "inject"}, idx > Len(table)
    PROVE  /\ idx = Len(table) + 1 /\ Contents(Log2) \in Maps
           /\ ~CarriesRecord => /\ Contents(Log2) = Target /\ Base = Target
                                /\ Source = At(table, Log2)
           /\ CarriesRecord =>
                /\ IsWrite /\ ~IsReset /\ Base = Live /\ req.key \in Keys
                /\ NewVal \in Vals \cup {Absent} /\ Live[req.key] # Absent
                /\ oldsz = Map!PagesOf(Live[req.key])
                /\ SlotFor(table, Source, slot, req.key, Live)
                /\ Contents(Log2) = [Live EXCEPT ![req.key] = Absent]
                /\ Target = [Live EXCEPT ![req.key] = NewVal]
                /\ \A j \in 1 .. Len(table) :
                     j = slot \/ (Source[j] = Log2[table[j].off] /\ table[j].off < off)
  <1>1. /\ CopyInv /\ Len(table) \in Nat /\ idx \in Nat /\ Contents(Log2) \in Maps
        /\ Base \in Maps /\ Live \in Maps /\ req \in Requests \cup {NoReq}
    BY CopyingFacts
  <1>2. idx = Len(table) + 1 /\ TableFor(table, Source, Base) /\ Copied /\ Writing(table, Source)
    BY <1>1 DEF CopyInv
  <1>3. ASSUME NEW i \in 1 .. Len(table) PROVE Moved(i) <=> ~(CarriesRecord /\ i = slot)
    BY <1>1, <1>2 DEF Moved
  <1>4. CASE ~CarriesRecord
    <2>1. \A i \in 1 .. Len(table) : Moved(i)
      BY <1>3, <1>4
    <2>2. Source = At(table, Log2)
      BY <2>1 DEF Source, At
    <2>3. \A k \in Keys : Contents(Log2)[k] = Base[k]
      BY <1>2, <2>1 DEF Copied, TableFor
    <2>4. Contents(Log2) = Base
      BY <1>1, <2>3 DEF Maps
    <2>5. Base = Target
      BY <1>4 DEF Base, Target
    <2>6. QED
      BY <1>1, <1>2, <1>4, <2>2, <2>4, <2>5
  <1>5. CASE CarriesRecord
    <2>1. IsWrite /\ ~IsReset /\ oldsz # 0
      BY <1>5 DEF CarriesRecord, IsWrite, IsReset
    <2>2. Base = Live
      BY <2>1 DEF Base
    <2>3. /\ req.key \in Keys /\ NewVal \in Vals \cup {Absent}
          /\ Map!Effect(Live, req) = [Live EXCEPT ![req.key] = NewVal]
      BY <1>1, <2>1, WriteFacts
    <2>4. Target = [Live EXCEPT ![req.key] = NewVal]
      BY <1>5, <2>1, <2>3 DEF Target
    <2>5. oldsz = Map!PagesOf(Live[req.key]) /\ SlotFor(table, Source, slot, req.key, Live)
      BY <1>2, <2>1 DEF Writing
    <2>6. Live[req.key] # Absent
      BY <2>1, <2>5, SizeFacts
    <2>7. slot \in 1 .. Len(table) /\ Source[slot].key = req.key
      BY <2>5, <2>6 DEF SlotFor
    <2>8. \A i \in 1 .. Len(table) : i = slot <=> Source[i].key = req.key
      BY <1>2, <2>7 DEF TableFor
    <2>9. ASSUME NEW j \in 1 .. Len(table), j # slot
          PROVE  Source[j] = Log2[table[j].off] /\ table[j].off < off
      <3>1. Moved(j)
        BY <1>3, <2>9
      <3>2. QED
        BY <3>1, MovedRecords
    <2>10. ASSUME NEW k \in Keys
           PROVE  Contents(Log2)[k] = IF k = req.key THEN Absent ELSE Live[k]
      <3>1. \A i \in 1 .. Len(table) : Source[i].key = k => (Moved(i) <=> k # req.key)
        BY <1>3, <1>5, <2>8
      <3>2. CASE k = req.key
        BY <1>2, <3>1, <3>2 DEF Copied
      <3>3. CASE k # req.key
        BY <1>2, <2>2, <3>1, <3>3 DEF Copied, TableFor
      <3>4. QED
        BY <3>2, <3>3
    <2>11. Contents(Log2) = [Live EXCEPT ![req.key] = Absent]
      BY <1>1, <2>3, <2>10 DEF Maps
    <2>12. QED
      BY <1>1, <1>2, <1>5, <2>1, <2>2, <2>3, <2>4, <2>5, <2>6, <2>9, <2>11
  <1>6. QED
    BY <1>4, <1>5

LEMMA GcCopiedContent ==
    ASSUME HeaderInv, HeaderInv', ContentInv, GcCopied
    PROVE  ContentInv' /\ MapStep
  <1>0. /\ pc = "copy" /\ idx > Len(table) /\ flash' = flash /\ active' = active
        /\ UNCHANGED <<req, off, idx, page, sec, slot, oldsz, crashes>>
        /\ pc' = IF CarriesRecord /\ req.kind = "write" THEN "inject" ELSE "header"
    BY DEF GcCopied, callVars
  <1>1. /\ Recoverable' = Recoverable /\ MountInv'
        /\ \A a \in Areas : flash'[a].cell \in [Offsets -> Cells]
    BY <1>0, FlashSame
  <1>2. Log1' = Log1 /\ Log2' = Log2 /\ Live' = Live /\ gcArea' = gcArea
    BY <1>0, ViewsSame
  <1>3. /\ IsReset' = IsReset /\ IsWrite' = IsWrite /\ CarriesRecord' = CarriesRecord
        /\ NewPages' = NewPages /\ Base' = Base /\ Target' = Target
    BY <1>0, <1>2, SameRequest
  <1>4. /\ CopyInv /\ page \in Nat /\ sec \in Nat /\ req \in Requests \cup {NoReq}
        /\ Live \in Maps /\ Len(table) \in Nat /\ idx \in Nat
    BY <1>0, CopyingFacts
  <1>5. page = 0
    BY <1>0, <1>4 DEF CopyInv
  <1>6. NewArea'
    BY <1>0, <1>2, <1>4 DEF CopyInv, NewArea, InProgress
  <1>7. TableFor(table, Source, Base) /\ Writing(table, Source) /\ GcConsumed
    BY <1>4 DEF CopyInv
  <1>8. CASE ~CarriesRecord
    <2>1. pc' = "header" /\ table' = table /\ consumed' = consumed
      BY <1>0, <1>8 DEF GcCopied
    <2>2. Contents(Log2) = Target /\ Base = Target /\ Source = At(table, Log2)
      BY <1>0, <1>8, AllCopied
    <2>3. ~IsReset => Target = Live
      BY <1>8 DEF Target
    <2>4. ~IsReset' => consumed' = 1 + Map!Used(Target')
      BY <1>3, <1>7, <2>1, <2>3 DEF GcConsumed
    <2>5. IsWrite' => oldsz' = Map!PagesOf(Live'[req'.key]) /\ Writing(table, At(table, Log2))'
      BY <1>0, <1>2, <1>3, <1>7, <2>1, <2>2 DEF Writing
    <2>6. HeaderReady'
      BY <1>0, <1>2, <1>3, <1>5, <1>6, <1>7, <2>1, <2>2, <2>4, <2>5 DEF HeaderReady
    <2>7. QED
      BY <1>0, <1>1, <1>4, <2>1, <2>6 DEF ContentInv, Unmounted, MapStep
  <1>9. CASE CarriesRecord /\ req.kind = "write"
    <2>1. pc' = "inject" /\ table' = table /\ consumed' = consumed
      BY <1>0, <1>9 DEF GcCopied
    <2>2. idx = Len(table) + 1 /\ IsWrite
      BY <1>0, <1>9, AllCopied
    <2>3. page < NewPages
      BY <1>4, <1>5, <2>2, WriteFacts
    <2>4. Source' = Source
      BY <1>0, <1>2, <1>3, <2>1 DEF Source, Moved
    <2>5. Copied'
      BY <1>0, <1>2, <1>3, <1>4, <2>1, <2>4 DEF CopyInv, Copied, Moved
    <2>6. Writing(table, Source)' /\ GcConsumed' /\ TableFor(table, Source, Base)'
      BY <1>0, <1>2, <1>3, <1>7, <2>1, <2>4 DEF Writing, GcConsumed
    <2>7. CopyInv'
      BY <1>0, <1>3, <1>4, <1>6, <1>9, <2>1, <2>2, <2>3, <2>5, <2>6 DEF CopyInv
    <2>8. QED
      BY <1>0, <1>1, <1>4, <2>1, <2>7 DEF ContentInv, Unmounted, MapStep
  <1>10. CASE CarriesRecord /\ req.kind # "write"
    <2>1. /\ IsWrite /\ ~IsReset /\ Base = Live /\ req.key \in Keys
          /\ Live[req.key] # Absent /\ oldsz = Map!PagesOf(Live[req.key])
          /\ SlotFor(table, Source, slot, req.key, Live)
          /\ Contents(Log2) = [Live EXCEPT ![req.key] = Absent]
          /\ Target = [Live EXCEPT ![req.key] = NewVal]
          /\ \A j \in 1 .. Len(table) :
               j = slot \/ (Source[j] = Log2[table[j].off] /\ table[j].off < off)
      BY <1>0, <1>10, AllCopied
    <2>2. req.kind = "delete" /\ NewVal = Absent
      BY <1>4, <1>10, <2>1, WriteFacts
    <2>3. /\ pc' = "header"
          /\ table' = UpdateRamTable(table, slot, req.key, Absent, oldsz, 0)
          /\ consumed' = UpdateConsumedSize(consumed, Absent, oldsz)
      BY <1>0, <1>10, <2>2 DEF GcCopied
    <2>4. consumed = 1 + Map!Used(Live) /\ oldsz # 0
      BY <1>7, <1>10, <2>1 DEF GcConsumed, CarriesRecord
    <2>5. Updates(table, Source, Live, req.key, Absent, slot, 0, Log2, table', consumed)
      BY <1>4, <1>7, <2>1, <2>3, <2>4 DEF Updates
    <2>6. /\ TableFor(table', At(table', Log2), [Live EXCEPT ![req.key] = Absent])
          /\ UpdateConsumedSize(consumed, Absent, Map!PagesOf(Live[req.key]))
               = 1 + Map!Used([Live EXCEPT ![req.key] = Absent])
      BY <2>5, UpdateBoth
    <2>7. /\ TableFor(table', At(table', Log2), Target) /\ consumed' = 1 + Map!Used(Target)
          /\ Contents(Log2) = Target
      BY <2>1, <2>2, <2>3, <2>6
    <2>8. HeaderReady'
      BY <1>0, <1>2, <1>3, <1>5, <1>6, <2>1, <2>4, <2>7 DEF HeaderReady
    <2>9. QED
      BY <1>0, <1>1, <1>4, <2>3, <2>8 DEF ContentInv, Unmounted, MapStep
  <1>11. QED
    BY <1>8, <1>9, <1>10

(* The updated record that GC writes after the others fits.                *)
LEMMA InjectFacts ==
    ASSUME HeaderInv, ContentInv, pc = "inject"
    PROVE  /\ idx > Len(table) /\ CarriesRecord /\ IsWrite /\ ~IsReset /\ req.kind = "write"
           /\ req.key \in Keys /\ NewVal = req.val /\ NewVal \in Vals /\ NewVal # Absent
           /\ NewPages = RecPages(NewVal) /\ NewPages \in Nat /\ NewPages >= 1
           /\ page \in Nat /\ page < NewPages
           /\ off \in Offsets /\ off + NewPages = 1 + Map!Used(Target)
           /\ off + NewPages <= AreaPages
           /\ Target = [Contents(Log2) EXCEPT ![req.key] = NewVal]
           /\ Target = [Live EXCEPT ![req.key] = NewVal]
  <1>1. /\ CopyInv /\ page \in Nat /\ req \in Requests \cup {NoReq} /\ Live \in Maps
        /\ 1 + Map!Used(Live) <= AreaPages /\ off \in Nat /\ off >= 1
        /\ off = 1 + Map!Used(Contents(Log2)) /\ Len(table) \in Nat
    BY CopyingFacts
  <1>2. /\ idx = Len(table) + 1 /\ page < NewPages /\ CarriesRecord /\ req.kind = "write"
        /\ Writing(table, Source)
    BY <1>1 DEF CopyInv
  <1>3. idx > Len(table)
    BY <1>1, <1>2
  <1>4. /\ IsWrite /\ ~IsReset /\ req.key \in Keys /\ Live[req.key] # Absent
        /\ Contents(Log2) = [Live EXCEPT ![req.key] = Absent] /\ Contents(Log2) \in Maps
        /\ Target = [Live EXCEPT ![req.key] = NewVal]
    BY <1>2, <1>3, AllCopied
  <1>5. /\ NewVal = req.val /\ NewVal \in Vals /\ NewVal # Absent
        /\ NewPages = RecPages(NewVal) /\ NewPages \in Nat /\ NewPages >= 1
        /\ Map!Effect(Live, req) = [Live EXCEPT ![req.key] = NewVal]
    BY <1>1, <1>2, <1>4, WriteFacts
  <1>6. Target = [Contents(Log2) EXCEPT ![req.key] = NewVal] /\ Contents(Log2)[req.key] = Absent
    BY <1>1, <1>4 DEF Maps
  <1>7. 1 + Map!Used(Target) <= AreaPages
    BY <1>1, <1>2, <1>4, <1>5, EffectFits
  <1>8. /\ Map!Used(Contents(Log2)) \in Nat
        /\ Map!Used(Target) = Map!Used(Contents(Log2)) - Map!PagesOf(Absent) + Map!PagesOf(NewVal)
    <2>1. /\ Map!Used(Contents(Log2)) \in Nat
          /\ Map!Used([Contents(Log2) EXCEPT ![req.key] = NewVal])
               = Map!Used(Contents(Log2)) - Map!PagesOf(Contents(Log2)[req.key]) + Map!PagesOf(NewVal)
      <3>1. PICK g \in Maps, v \in Vals \cup {Absent} : g = Contents(Log2) /\ v = NewVal
        BY <1>4, <1>5
      <3>2. /\ Map!Used(g) \in Nat
            /\ Map!Used([g EXCEPT ![req.key] = v])
                 = Map!Used(g) - Map!PagesOf(g[req.key]) + Map!PagesOf(v)
        BY <1>4, UsedUpdate
      <3>3. QED
        BY <3>1, <3>2
    <2>2. QED
      BY <1>6, <2>1
  <1>9. Map!PagesOf(Absent) = 0 /\ Map!PagesOf(NewVal) = NewPages
    BY <1>5, SizeFacts
  <1>10. off + NewPages = 1 + Map!Used(Target)
    BY <1>1, <1>5, <1>8, <1>9
  <1>11. off + NewPages <= AreaPages
    BY <1>7, <1>10
  <1>12. off \in Offsets
    BY <1>1, <1>5, <1>11, SizeFacts
  <1>13. QED
    BY <1>1, <1>2, <1>3, <1>4, <1>5, <1>6, <1>10, <1>11, <1>12

LEMMA GcInjectPageContent ==
    ASSUME HeaderInv, HeaderInv', ContentInv, GcInjectPage
    PROVE  ContentInv' /\ MapStep
  <1>0. pc = "inject"
    BY DEF GcInjectPage
  <1>1. /\ idx > Len(table) /\ CarriesRecord /\ IsWrite /\ ~IsReset /\ req.kind = "write"
        /\ req.key \in Keys /\ NewVal = req.val /\ NewVal \in Vals /\ NewVal # Absent
        /\ NewPages = RecPages(NewVal) /\ NewPages \in Nat /\ NewPages >= 1
        /\ page \in Nat /\ page < NewPages
        /\ off \in Offsets /\ off + NewPages = 1 + Map!Used(Target)
        /\ off + NewPages <= AreaPages
        /\ Target = [Contents(Log2) EXCEPT ![req.key] = NewVal]
        /\ Target = [Live EXCEPT ![req.key] = NewVal]
    BY <1>0, InjectFacts
  <1>2. /\ ~Unmounted /\ CopyInv /\ sec \in Nat /\ gcArea \in Areas
        /\ req \in Requests \cup {NoReq} /\ Log2 \in [Offsets -> Cells] /\ Live \in Maps
        /\ Log(Log2, off) /\ off \in Nat /\ Len(table) \in Nat
        /\ \A i \in 1 .. Len(table) : table[i].off \in Offsets
    BY <1>0, CopyingFacts
  <1>3. PICK y : y = ProgramPage(flash[gcArea], off, req.key, NewVal, page)
    OBVIOUS
  <1>4. /\ flash' = [flash EXCEPT ![gcArea] = y] /\ y.hdr = flash[gcArea].hdr
        /\ UNCHANGED <<req, active, idx, sec, slot, oldsz, crashes>>
    BY <1>1, <1>3 DEF GcInjectPage, ProgramPage
  <1>5. PICK x : x = y.cell
    OBVIOUS
  <1>6. /\ x \in [Offsets -> Cells]
        /\ IF page + 1 < NewPages THEN Partial(x, Log2, off) /\ x[off].st = "bad"
                                  ELSE Final(x, Log2, off, req.key, NewVal)
    BY <1>1, <1>2, <1>3, <1>5, ProgramCells DEF Log2
  <1>7. CASE page + 1 < NewPages
    <2>1. Partial(x, Log2, off) /\ x[off].st = "bad"
      BY <1>6, <1>7
    <2>2. page' = page + 1 /\ UNCHANGED <<pc, table, consumed, off>>
      BY <1>7 DEF GcInjectPage
    <2>3. QED
      BY <1>0, <1>1, <1>4, <1>5, <1>6, <1>7, <2>1, <2>2, PartialContent
  <1>8. CASE ~(page + 1 < NewPages)
    <2>1. /\ table' = UpdateRamTable(table, slot, req.key, NewVal, oldsz, off)
          /\ consumed' = UpdateConsumedSize(consumed, NewVal, oldsz)
          /\ off' = off + NewPages /\ page' = 0 /\ pc' = "header"
          /\ Final(x, Log2, off, req.key, NewVal)
      BY <1>1, <1>6, <1>8 DEF GcInjectPage
    <2>2. ~Unmounted'
      BY <2>1 DEF Unmounted
    <2>3. /\ Log1' = Log1 /\ Live' = Live /\ Log2' = x /\ flash'[gcArea'] = y
          /\ MountInv' /\ Recoverable' = Recoverable
          /\ \A b \in Areas : flash'[b].cell \in [Offsets -> Cells]
      BY <1>2, <1>4, <1>5, <1>6, <2>2, GcAreaChanges
    <2>4. /\ IsReset' = IsReset /\ IsWrite' = IsWrite /\ Target' = Target
      BY <1>4, <2>3, SameRequest
    <2>5. Log(x, off + NewPages) /\ Contents(x) = Target
      BY <1>1, <1>2, <1>6, <2>1, FinalLog
    <2>6. /\ Base = Live /\ Live[req.key] # Absent /\ oldsz = Map!PagesOf(Live[req.key])
          /\ SlotFor(table, Source, slot, req.key, Live)
          /\ \A j \in 1 .. Len(table) :
               j = slot \/ (Source[j] = Log2[table[j].off] /\ table[j].off < off)
      BY <1>0, <1>1, AllCopied
    <2>7. \A j \in 1 .. Len(table) : j = slot \/ x[table[j].off] = Source[j]
      BY <1>2, <2>1, <2>6 DEF Final
    <2>8. /\ TableFor(table, Source, Live) /\ consumed = 1 + Map!Used(Live)
          /\ flash[gcArea].hdr = ErasedHeader
      BY <1>1, <1>2, <2>6 DEF CopyInv, GcConsumed, NewArea
    <2>9. Updates(table, Source, Live, req.key, NewVal, slot, off, x, table', consumed)
      BY <1>1, <1>2, <2>1, <2>6, <2>7, <2>8 DEF Updates, Final
    <2>10. /\ TableFor(table', At(table', x), [Live EXCEPT ![req.key] = NewVal])
           /\ UpdateConsumedSize(consumed, NewVal, Map!PagesOf(Live[req.key]))
                = 1 + Map!Used([Live EXCEPT ![req.key] = NewVal])
      BY <2>9, UpdateBoth
    <2>11. TableFor(table', At(table', x), Target) /\ consumed' = 1 + Map!Used(Target)
      BY <1>1, <2>1, <2>6, <2>10
    <2>12. NewArea'
      <3>1. off + NewPages < AreaPages => x[off + NewPages].st = "erased"
        BY <1>1, <1>2, <2>1, NextErased
      <3>2. InProgress(Log2, off)'
        BY <2>1, <2>3, <3>1 DEF InProgress
      <3>3. QED
        BY <1>1, <1>4, <2>1, <2>3, <2>5, <2>8, <3>2 DEF NewArea
    <2>13. oldsz # 0
      BY <1>1 DEF CarriesRecord
    <2>14. HeaderReady'
      BY <1>1, <1>4, <2>1, <2>3, <2>4, <2>5, <2>6, <2>11, <2>12, <2>13 DEF HeaderReady
    <2>15. ContentInv'
      BY <1>2, <1>4, <2>1, <2>2, <2>3, <2>14 DEF ContentInv
    <2>16. QED
      BY <1>4, <2>3, <2>15 DEF MapStep
  <1>9. QED
    BY <1>7, <1>8

(* The header turns the new area into the store's contents.                *)
LEMMA HeaderFacts ==
    ASSUME HeaderInv, ContentInv, pc = "header"
    PROVE  /\ ~Unmounted /\ HeaderReady /\ active \in Areas /\ gcArea \in Areas
           /\ Other(gcArea) = active /\ Log2 \in [Offsets -> Cells] /\ page = 0
           /\ Live \in Maps /\ Recoverable = Live /\ req \in Requests \cup {NoReq}
           /\ Contents(Log2) = Target /\ Log(Log2, off) /\ off = 1 + Map!Used(Target)
           /\ off <= AreaPages /\ off \in Nat /\ Map!Used(Target) \in Nat
           /\ off < AreaPages => Log2[off].st = "erased"
           /\ LogArea(Log2)
           /\ req = NoReq => Target = Live
           /\ req # NoReq => \/ Target = Live /\ (IsWrite => oldsz = 0)
                             \/ Target = Map!Effect(Live, req) /\ Map!Granted(Live, req)
           /\ req # NoReq /\ ~IsWrite => Target = Map!Effect(Live, req)
  <1>1. ~Unmounted /\ HeaderReady /\ req \in Requests \cup {NoReq}
    BY DEF ContentInv, Unmounted
  <1>2. /\ active \in Areas /\ gcArea \in Areas /\ Log2 \in [Offsets -> Cells]
        /\ Live \in Maps /\ Recoverable = Live
    BY <1>1, MountedFacts
  <1>3. Other(gcArea) = active
    BY <1>2 DEF Other, gcArea, Areas
  <1>4. /\ page = 0 /\ Contents(Log2) = Target /\ Log(Log2, off) /\ off = 1 + Map!Used(Target)
        /\ InProgress(Log2, off)
    BY <1>1 DEF HeaderReady, NewArea
  <1>5. off \in Nat /\ off <= AreaPages /\ off \in 1 .. AreaPages
    BY <1>4, SizeFacts DEF Log
  <1>6. off < AreaPages => Log2[off].st = "erased"
    BY <1>4 DEF InProgress
  <1>7. Map!Used(Target) \in Nat
    <2>1. Contents(Log2) \in Maps
      BY <1>2, ContentsMaps
    <2>2. QED
      BY <1>4, <2>1, UsedFinite
  <1>8. LogArea(Log2)
    BY <1>4, <1>5 DEF LogArea
  <1>9. req = NoReq => Target = Live
    BY DEF Target, IsReset, CarriesRecord, IsWrite
  <1>10. ASSUME IsReset PROVE Target = Map!Effect(Live, req) /\ Map!Granted(Live, req)
    BY <1>10 DEF IsReset, Target, Map!Effect, Map!Granted
  <1>11. ASSUME ~IsReset, CarriesRecord PROVE Target = Map!Effect(Live, req) /\ Map!Granted(Live, req)
    <2>1. Target = Map!Effect(Live, req)
      BY <1>11 DEF Target
    <2>2. Map!Used(Target) <= AreaPages - 1
      BY <1>4, <1>5, <1>7, SizeFacts
    <2>3. req.kind = "write" \/ req.kind = "delete"
      BY <1>11 DEF CarriesRecord, IsWrite
    <2>4. Map!Granted(Live, req)
      BY <2>1, <2>2, <2>3 DEF Map!Granted
    <2>5. QED
      BY <2>1, <2>4
  <1>12. ASSUME ~IsReset, ~CarriesRecord PROVE Target = Live /\ (IsWrite => oldsz = 0)
    BY <1>12 DEF Target, CarriesRecord
  <1>13. ASSUME req # NoReq, ~IsWrite, ~IsReset PROVE Target = Map!Effect(Live, req)
    <2>1. req.kind \in {"ensure", "compact"}
      BY <1>1, <1>13, RequestKinds DEF IsWrite, IsReset
    <2>2. Map!Effect(Live, req) = Live
      BY <2>1 DEF Map!Effect
    <2>3. QED
      BY <1>13, <2>2 DEF Target, CarriesRecord
  <1>14. QED
    BY <1>1, <1>2, <1>3, <1>4, <1>5, <1>6, <1>7, <1>8, <1>9, <1>10, <1>11, <1>12, <1>13

LEMMA GcHeaderContent ==
    ASSUME HeaderInv, HeaderInv', ContentInv, GcHeader
    PROVE  ContentInv' /\ MapStep
  <1>0. /\ pc = "header" /\ free' = off /\ active' = gcArea
        /\ consumed' = (IF IsReset THEN off ELSE consumed)
        /\ table' = table /\ crashes' = crashes
    BY DEF GcHeader, IsReset
  <1>1. /\ ~Unmounted /\ HeaderReady /\ active \in Areas /\ gcArea \in Areas
        /\ Other(gcArea) = active /\ Log2 \in [Offsets -> Cells] /\ page = 0
        /\ Live \in Maps /\ Recoverable = Live /\ req \in Requests \cup {NoReq}
        /\ Contents(Log2) = Target /\ Log(Log2, off) /\ off = 1 + Map!Used(Target)
        /\ off <= AreaPages /\ off \in Nat /\ Map!Used(Target) \in Nat
        /\ off < AreaPages => Log2[off].st = "erased"
        /\ LogArea(Log2)
    BY <1>0, HeaderFacts
  <1>2. /\ req = NoReq => Target = Live
        /\ req # NoReq => \/ Target = Live /\ (IsWrite => oldsz = 0)
                          \/ Target = Map!Effect(Live, req) /\ Map!Granted(Live, req)
        /\ req # NoReq /\ ~IsWrite => Target = Map!Effect(Live, req)
    BY <1>0, HeaderFacts
  <1>3. PICK y : y = ProgramHeader(flash[gcArea], NextVersion)
    OBVIOUS
  <1>4. flash' = [flash EXCEPT ![gcArea] = y] /\ y.cell = Log2
    BY <1>3 DEF GcHeader, ProgramHeader, Log2
  <1>5. flash'[gcArea] = y /\ \A b \in Areas : flash'[b].cell \in [Offsets -> Cells]
    BY <1>1, <1>4, AreaCells
  <1>6. Log1' = Log2
    BY <1>0, <1>4, <1>5 DEF Log1
  <1>7. Live' = Target
    BY <1>1, <1>6 DEF Live
  <1>8. pc' \in {"append", "idle"} /\ ~Unmounted'
    BY DEF GcHeader, Return, Unmounted
  <1>9. MountInv' /\ Recoverable' = Target
    BY <1>1, <1>6, <1>7, <1>8, MountedNext
  <1>10. consumed' = 1 + Map!Used(Target)
    BY <1>0, <1>1 DEF HeaderReady
  <1>11. Indexed' /\ Log(Log1, free)' /\ (free' < AreaPages => Log1'[free'].st = "erased")
    BY <1>0, <1>1, <1>6, <1>7, <1>10 DEF Indexed, HeaderReady
  <1>12. CASE IsWrite /\ oldsz = 0
    <2>1. /\ pc' = "append" /\ page' = 0 /\ sec' = 0 /\ UNCHANGED <<req, slot, oldsz>>
      BY <1>12 DEF GcHeader
    <2>2. Target = Live
      BY <1>12 DEF Target, CarriesRecord, IsReset, IsWrite
    <2>3. Live' = Live
      BY <1>7, <2>2
    <2>4. /\ IsWrite' = IsWrite /\ NewPages' = NewPages
      BY <2>1, <2>3, SameRequest
    <2>5. Writing(table, At(table, Log2))
      BY <1>1, <1>12 DEF HeaderReady
    <2>6. Writing(table, At(table, Log1))'
      BY <1>0, <1>6, <2>1, <2>3, <2>4, <2>5 DEF Writing
    <2>7. NewPages \in Nat /\ NewPages >= 1 /\ req.kind \in {"write", "delete"} /\ req # NoReq
      BY <1>1, <1>12, WriteFacts
    <2>8. req.kind = "write"
      BY <1>12, <2>5, <2>7 DEF Writing
    <2>9. 1 + Map!Used(Live) - oldsz + NewPages <= AreaPages
      BY <1>12, <2>5, <2>8 DEF Writing
    <2>10. free' + NewPages' <= AreaPages
      <3>1. off = 1 + Map!Used(Live) /\ Map!Used(Live) \in Nat
        BY <1>1, <2>2
      <3>2. off + NewPages <= AreaPages
        BY <1>12, <2>7, <2>9, <3>1, SizeFacts
      <3>3. QED
        BY <1>0, <2>4, <3>2
    <2>11. page' < NewPages'
      BY <2>1, <2>4, <2>7
    <2>12. AppendInv'
      BY <1>11, <1>12, <2>4, <2>6, <2>10, <2>11 DEF AppendInv, InProgress
    <2>13. ContentInv'
      BY <1>1, <1>5, <1>8, <1>9, <2>1, <2>12 DEF ContentInv
    <2>14. QED
      BY <1>0, <1>1, <1>9, <2>1, <2>2, <2>13 DEF MapStep
  <1>13. CASE ~(IsWrite /\ oldsz = 0)
    <2>1. pc' = "idle" /\ req' = NoReq /\ page' = 0 /\ sec' = 0
      BY <1>13 DEF GcHeader, Return, ForgetLocals
    <2>2. Ready'
      BY <1>11 DEF Ready
    <2>3. ContentInv'
      BY <1>5, <1>9, <2>1, <2>2 DEF ContentInv, Unmounted
    <2>4. CASE req = NoReq
      BY <1>0, <1>1, <1>2, <1>9, <2>1, <2>3, <2>4 DEF MapStep
    <2>5. CASE req # NoReq
      <3>1. Target = Map!Effect(Live, req) /\ (Map!Granted(Live, req) \/ Target = Live)
        BY <1>2, <1>13, <2>5
      <3>2. Map!Complete \/ Map!Refuse
        BY <1>0, <1>1, <1>9, <2>1, <2>5, <3>1 DEF Map!Complete, Map!Refuse
      <3>3. QED
        BY <2>3, <3>2 DEF MapStep, Map!Next
    <2>6. QED
      BY <2>4, <2>5
  <1>14. QED
    BY <1>12, <1>13

-----------------------------------------------------------------------------
(* Power failure.                                                          *)

LEMMA FailureEnds ==
    ASSUME PowerFail, \A b \in Areas : flash'[b].cell \in [Offsets -> Cells], MountInv',
           \/ Recoverable' = Recoverable
           \/ /\ req # NoReq /\ Map!Granted(Recoverable, req)
              /\ Recoverable' = Map!Effect(Recoverable, req)
    PROVE  ContentInv' /\ MapStep
  <1>1. pc' = "off" /\ req' = NoReq /\ page' = 0 /\ sec' = 0 /\ crashes' = crashes + 1
    BY DEF PowerFail, ForgetLocals
  <1>2. ContentInv'
    BY <1>1 DEF ContentInv
  <1>3. Map!PowerFail
    BY <1>1 DEF Map!PowerFail
  <1>4. QED
    BY <1>2, <1>3 DEF MapStep, Map!Next

(* The old area is still mounted, and unchanged.                           *)
LEMMA FailureInNewArea ==
    ASSUME HeaderInv, ContentInv, ~Unmounted, NEW x, flash' = [flash EXCEPT ![gcArea] = x],
           x.cell \in [Offsets -> Cells], x.hdr.st # "ok" \/ x.hdr = flash[gcArea].hdr
    PROVE  /\ \A b \in Areas : flash'[b].cell \in [Offsets -> Cells]
           /\ MountInv' /\ Recoverable' = Recoverable
  <1>1. /\ active \in Areas /\ gcArea \in Areas /\ Areas = {active, gcArea}
        /\ LogArea(Log1) /\ Recoverable = Live
    BY MountedFacts
  <1>2. Other(gcArea) = active
    BY <1>1 DEF gcArea, Other, Areas
  <1>3. /\ flash'[gcArea] = x /\ flash'[active] = flash[active]
        /\ \A b \in Areas : flash'[b].cell \in [Offsets -> Cells]
    BY <1>1, <1>2, AreaCells
  <1>4. Valid(flash, active) /\ MountArea(flash) = active
    BY HeaderInvMounts DEF MountsActiveArea, Unmounted
  <1>5. Valid(flash', active) /\ MountArea(flash') = active
    BY <1>1, <1>3, <1>4 DEF MountArea, Valid, Areas, gcArea, Other
  <1>6. QED
    BY <1>1, <1>3, <1>5 DEF MountInv, Recoverable, Live, Log1

LEMMA FailureAppending ==
    ASSUME HeaderInv, ContentInv, PowerFail, pc = "append"
    PROVE  ContentInv' /\ MapStep
  <1>1. /\ ~Unmounted /\ active \in Areas /\ Log1 \in [Offsets -> Cells]
        /\ Live \in Maps /\ Recoverable = Live /\ 1 + Map!Used(Live) <= AreaPages
        /\ req # NoReq /\ req.key \in Keys
        /\ NewVal \in Vals \cup {Absent} /\ NewPages = RecPages(NewVal)
        /\ page \in Nat /\ page < NewPages
        /\ free \in Offsets /\ free + NewPages <= AreaPages /\ Log(Log1, free)
    BY AppendFacts
  <1>2. /\ Map!Granted(Live, req) /\ Map!Effect(Live, req) = [Live EXCEPT ![req.key] = NewVal]
        /\ 1 + Map!Used([Live EXCEPT ![req.key] = NewVal]) <= AreaPages
    BY AppendFacts
  <1>3. PICK y \in TornPage(flash[active], free, req.key, NewVal, page) :
          flash' = [flash EXCEPT ![active] = y]
    BY DEF PowerFail, FlashAfterFailure
  <1>4. IsArea(flash[active]) /\ FlashShape
    BY <1>1 DEF HeaderInv, FlashShape
  <1>5. y.hdr = flash[active].hdr
    BY <1>4, TornPageHeader
  <1>6. PICK x : x = y.cell
    OBVIOUS
  <1>7. /\ x \in [Offsets -> Cells]
        /\ x = Log1 \/ Partial(x, Log1, free) \/ Final(x, Log1, free, req.key, NewVal)
    BY <1>1, <1>6, TornCells DEF Log1
  <1>8. /\ flash'[active] = y /\ flash'[Other(active)] = flash[Other(active)]
        /\ \A b \in Areas : flash'[b].cell \in [Offsets -> Cells]
    BY <1>1, <1>3, <1>6, <1>7, AreaCells
  <1>9. Valid(flash, active) /\ MountArea(flash) = active
    BY <1>1, HeaderInvMounts DEF MountsActiveArea, Unmounted
  <1>10. Valid(flash', active) /\ MountArea(flash') = active
    BY <1>1, <1>5, <1>8, <1>9 DEF MountArea, Valid, Areas, Other
  <1>11. Recoverable' = Contents(x) /\ (LogArea(x) => MountInv')
    BY <1>1, <1>6, <1>8, <1>10 DEF Recoverable, MountInv
  <1>12. CASE x = Log1
    <2>1. LogArea(x) /\ Contents(x) = Live
      BY <1>1, <1>12, MountedFacts DEF Live
    <2>2. QED
      BY <1>1, <1>8, <1>11, <2>1, FailureEnds
  <1>13. CASE Partial(x, Log1, free)
    <2>1. Log(x, free) /\ Contents(x) = Live
      BY <1>1, <1>7, <1>13, LogPartial DEF Partial, Live
    <2>2. LogArea(x)
      BY <1>1, <2>1 DEF LogArea, Log
    <2>3. QED
      BY <1>1, <1>8, <1>11, <2>1, <2>2, FailureEnds
  <1>14. CASE Final(x, Log1, free, req.key, NewVal)
    <2>1. Log(x, free + NewPages) /\ Contents(x) = [Live EXCEPT ![req.key] = NewVal]
      BY <1>1, <1>7, <1>14, FinalLog DEF Live
    <2>2. LogArea(x)
      BY <1>2, <2>1 DEF LogArea, Log
    <2>3. QED
      BY <1>1, <1>2, <1>8, <1>11, <2>1, <2>2, FailureEnds
  <1>15. QED
    BY <1>7, <1>12, <1>13, <1>14

LEMMA FailureCopying ==
    ASSUME HeaderInv, ContentInv, PowerFail,
           \/ pc = "inject"
           \/ pc = "copy" /\ idx <= Len(table) /\ ~(CarriesRecord /\ idx = slot)
    PROVE  ContentInv' /\ MapStep
  <1>1. /\ ~Unmounted /\ gcArea \in Areas /\ Log2 \in [Offsets -> Cells] /\ page \in Nat
    BY CopyingFacts
  <1>2. IsArea(flash[gcArea])
    BY <1>1 DEF HeaderInv, FlashShape
  <1>3. \E k \in Keys, v \in Vals \cup {Absent} :
          /\ off \in Offsets /\ page < RecPages(v)
          /\ \E y \in TornPage(flash[gcArea], off, k, v, page) : flash' = [flash EXCEPT ![gcArea] = y]
    <2>1. CASE pc = "inject"
      <3>1. /\ req.key \in Keys /\ NewVal \in Vals /\ off \in Offsets
            /\ page < NewPages /\ NewPages = RecPages(NewVal)
        BY <2>1, InjectFacts
      <3>2. \E y \in TornPage(flash[gcArea], off, req.key, NewVal, page) :
              flash' = [flash EXCEPT ![gcArea] = y]
        BY <2>1 DEF PowerFail, FlashAfterFailure
      <3>3. QED
        BY <3>1, <3>2
    <2>2. CASE pc = "copy" /\ idx <= Len(table) /\ ~(CarriesRecord /\ idx = slot)
      <3>1. PICK c : c = Log1[table[idx].off]
        OBVIOUS
      <3>2. c.key \in Keys /\ c.val \in Vals /\ off \in Offsets /\ page < RecPages(c.val)
        BY <2>2, <3>1, NextRecord
      <3>3. \E y \in TornPage(flash[gcArea], off, c.key, c.val, page) :
              flash' = [flash EXCEPT ![gcArea] = y]
        BY <2>2, <3>1 DEF PowerFail, FlashAfterFailure, Log1
      <3>4. QED
        BY <3>2, <3>3
    <2>3. QED
      BY <2>1, <2>2
  <1>a. PICK k \in Keys, v \in Vals \cup {Absent} :
          /\ off \in Offsets /\ page < RecPages(v)
          /\ \E y \in TornPage(flash[gcArea], off, k, v, page) : flash' = [flash EXCEPT ![gcArea] = y]
    BY <1>3
  <1>4. PICK y \in TornPage(flash[gcArea], off, k, v, page) : flash' = [flash EXCEPT ![gcArea] = y]
    BY <1>a
  <1>5. y.hdr = flash[gcArea].hdr
    BY <1>2, TornPageHeader
  <1>6. y.cell \in [Offsets -> Cells]
    BY <1>1, <1>a, <1>4, TornCells DEF Log2
  <1>7. /\ \A b \in Areas : flash'[b].cell \in [Offsets -> Cells]
        /\ MountInv' /\ Recoverable' = Recoverable
    BY <1>1, <1>4, <1>5, <1>6, FailureInNewArea
  <1>8. QED
    BY <1>7, FailureEnds

(* Whatever the torn page is, a header is as before, written or invalid.   *)
LEMMA TornHeaderCases ==
    ASSUME NEW area, NEW v, NEW y \in TornHeader(area, v)
    PROVE  /\ y.cell = area.cell
           /\ y.hdr = area.hdr \/ y.hdr = [st |-> "ok", ver |-> v] \/ y.hdr.st # "ok"
  <1>1. CASE y = area
    BY <1>1
  <1>2. CASE y = ProgramHeader(area, v)
    BY <1>2 DEF ProgramHeader
  <1>3. CASE \E st \in TornOutcomes : y = [hdr |-> [st |-> st, ver |-> 0], cell |-> area.cell]
    BY <1>3, TornAssumption
  <1>4. QED
    BY <1>1, <1>2, <1>3 DEF TornHeader

LEMMA FailureAtHeader ==
    ASSUME NoWrap, HeaderInv, ContentInv, PowerFail, pc = "header"
    PROVE  ContentInv' /\ MapStep
  <1>1. /\ ~Unmounted /\ active \in Areas /\ gcArea \in Areas
        /\ Other(gcArea) = active /\ Log2 \in [Offsets -> Cells]
        /\ Recoverable = Live /\ Contents(Log2) = Target /\ LogArea(Log2)
        /\ req = NoReq => Target = Live
        /\ req # NoReq => \/ Target = Live
                          \/ Target = Map!Effect(Live, req) /\ Map!Granted(Live, req)
    BY HeaderFacts
  <1>2. PICK y \in TornHeader(flash[gcArea], NextVersion) : flash' = [flash EXCEPT ![gcArea] = y]
    BY DEF PowerFail, FlashAfterFailure
  <1>3. /\ y.cell = Log2
        /\ y.hdr = flash[gcArea].hdr \/ y.hdr = [st |-> "ok", ver |-> NextVersion] \/ y.hdr.st # "ok"
    BY TornHeaderCases DEF Log2
  <1>4. CASE y.hdr.st # "ok" \/ y.hdr = flash[gcArea].hdr
    <2>1. /\ \A b \in Areas : flash'[b].cell \in [Offsets -> Cells]
          /\ MountInv' /\ Recoverable' = Recoverable
      BY <1>1, <1>2, <1>3, <1>4, FailureInNewArea
    <2>2. QED
      BY <2>1, FailureEnds
  <1>5. CASE y.hdr = [st |-> "ok", ver |-> NextVersion]
    <2>1. NextVersion = ver + 1 /\ ver >= 1
      BY NextVersionNoWrap
    <2>2. Valid(flash, active) /\ flash[active].hdr.ver = ver /\ ver \in Nat
      BY <1>1, VersionAssumption DEF HeaderInv, ActiveInv, FlashShape, IsArea, Headers
    <2>3. /\ flash'[gcArea] = y /\ flash'[active] = flash[active]
          /\ \A b \in Areas : flash'[b].cell \in [Offsets -> Cells]
      BY <1>1, <1>2, <1>3, AreaCells
    <2>4. flash'[gcArea].hdr.st = "ok" /\ flash'[gcArea].hdr.ver = ver + 1
      BY <1>5, <2>1, <2>3
    <2>5. ver + 1 > ver /\ ver + 1 # 0 /\ ~(ver > ver + 1) /\ ver # 0
      BY <2>1, <2>2
    <2>6. Valid(flash', gcArea) /\ MountArea(flash') = gcArea
      BY <1>1, <2>2, <2>3, <2>4, <2>5 DEF MountArea, Valid, Areas, gcArea, Other
    <2>7. MountInv' /\ Recoverable' = Target
      BY <1>1, <1>3, <2>3, <2>6 DEF MountInv, Recoverable
    <2>8. QED
      BY <1>1, <2>3, <2>7, FailureEnds
  <1>6. QED
    BY <1>3, <1>4, <1>5

LEMMA FailureFormatting ==
    ASSUME HeaderInv, ContentInv, PowerFail, pc = "fmt_header"
    PROVE  ContentInv' /\ MapStep
  <1>1. /\ 1 \in Areas /\ Other(1) = 2 /\ AllErased(flash[1].cell)
        /\ flash[1].cell \in [Offsets -> Cells] /\ \A a \in Areas : ~Valid(flash, a)
    BY DEF ContentInv, Areas, Other, HeaderInv, ActiveInv
  <1>2. Recoverable = Map!Empty
    BY <1>1 DEF Recoverable, Map!Empty
  <1>3. PICK y \in TornHeader(flash[1], 1) : flash' = [flash EXCEPT ![1] = y]
    BY DEF PowerFail, FlashAfterFailure
  <1>4. y.cell = flash[1].cell
    BY TornHeaderCases
  <1>5. /\ flash'[1] = y /\ flash'[2] = flash[2]
        /\ \A b \in Areas : flash'[b].cell \in [Offsets -> Cells]
    BY <1>1, <1>3, <1>4, AreaCells
  <1>6. Contents(y.cell) = Map!Empty /\ LogArea(y.cell)
    BY <1>1, <1>4, ErasedLog
  <1>7. ~Valid(flash', 2)
    BY <1>1, <1>5 DEF Valid, Areas
  <1>8. (\E a \in Areas : Valid(flash', a)) => MountArea(flash') = 1
    BY <1>7 DEF MountArea, Areas
  <1>9. MountInv' /\ Recoverable' = Map!Empty
    BY <1>5, <1>6, <1>8 DEF MountInv, Recoverable, Map!Empty
  <1>10. QED
    BY <1>2, <1>5, <1>9, FailureEnds

LEMMA FailureContent ==
    ASSUME NoWrap, HeaderInv, ContentInv, PowerFail
    PROVE  ContentInv' /\ MapStep
  <1>1. CASE pc \in {"append", "inject", "header", "fmt_header"}
    BY <1>1, FailureAppending, FailureCopying, FailureAtHeader, FailureFormatting
  <1>2. CASE pc = "copy" /\ idx <= Len(table) /\ ~(CarriesRecord /\ idx = slot)
    BY <1>2, FailureCopying
  <1>3. CASE /\ pc \notin {"append", "inject", "header", "fmt_header"}
             /\ ~(pc = "copy" /\ idx <= Len(table) /\ ~(CarriesRecord /\ idx = slot))
    <2>1. flash' = flash
      BY <1>3 DEF PowerFail, FlashAfterFailure
    <2>2. /\ Recoverable' = Recoverable /\ MountInv'
          /\ \A a \in Areas : flash'[a].cell \in [Offsets -> Cells]
      BY <2>1, FlashSame
    <2>3. QED
      BY <2>2, FailureEnds
  <1>4. QED
    BY <1>1, <1>2, <1>3

-----------------------------------------------------------------------------
(* The invariant holds in every reachable state.                           *)

LEMMA ContentInit == Init => ContentInv /\ Map!Init
  <1> SUFFICES ASSUME Init PROVE ContentInv /\ Map!Init
    OBVIOUS
  <1>1. /\ flash = [a \in Areas |-> ErasedArea] /\ pc = "off" /\ req = NoReq
        /\ page = 0 /\ sec = 0 /\ crashes = 0
    BY DEF Init
  <1>2. ErasedArea.cell \in [Offsets -> Cells] /\ ErasedArea.hdr.st = "erased"
    BY CellTypes DEF ErasedArea, ErasedHeader
  <1>3. \A a \in Areas : flash[a].cell \in [Offsets -> Cells] /\ ~Valid(flash, a)
    BY <1>1, <1>2 DEF Valid
  <1>4. ContentInv
    BY <1>1, <1>3 DEF ContentInv, MountInv
  <1>5. Map!Init
    BY <1>1, <1>3 DEF Map!Init, Map!Empty, Recoverable
  <1>6. QED
    BY <1>4, <1>5

LEMMA ContentStutter ==
    ASSUME ContentInv, UNCHANGED vars
    PROVE  ContentInv' /\ MapStep
  <1>1. /\ flash' = flash /\ pc' = pc /\ req' = req /\ active' = active /\ ver' = ver
        /\ table' = table /\ consumed' = consumed /\ free' = free /\ off' = off /\ idx' = idx
        /\ page' = page /\ sec' = sec /\ slot' = slot /\ oldsz' = oldsz /\ crashes' = crashes
    BY DEF vars, ramVars, callVars
  <1>2. Log1' = Log1 /\ Log2' = Log2 /\ Live' = Live /\ gcArea' = gcArea
    BY <1>1, ViewsSame
  <1>3. /\ IsReset' = IsReset /\ IsWrite' = IsWrite /\ CarriesRecord' = CarriesRecord
        /\ NewVal' = NewVal /\ NewPages' = NewPages /\ Base' = Base /\ Target' = Target
    BY <1>1, <1>2, SameRequest
  <1>4. Recoverable' = Recoverable /\ MountInv'
    BY <1>1, FlashSame
  <1>5. Source' = Source
    BY <1>1, <1>2, <1>3 DEF Source, Moved
  <1>6. /\ ScanInv => ScanInv'
        /\ Ready => Ready'
        /\ GcConsumed => GcConsumed'
        /\ NewArea => NewArea'
    BY <1>1, <1>2, <1>3 DEF ScanInv, Ready, Indexed, GcConsumed, NewArea, InProgress
  <1>7. Copied => Copied'
    BY <1>1, <1>2, <1>3, <1>5 DEF Copied, Moved
  <1>8. /\ Writing(table, At(table, Log1)) => Writing(table, At(table, Log1))'
        /\ Writing(table, At(table, Log2)) => Writing(table, At(table, Log2))'
        /\ Writing(table, Source) => Writing(table, Source)'
    BY <1>1, <1>2, <1>3, <1>5 DEF Writing
  <1>9. AppendInv => AppendInv'
    BY <1>1, <1>2, <1>3, <1>8 DEF AppendInv, Indexed, InProgress
  <1>10. EraseInv => EraseInv'
    BY <1>1, <1>2, <1>3, <1>6, <1>8 DEF EraseInv
  <1>11. CopyInv => CopyInv'
    BY <1>1, <1>2, <1>3, <1>5, <1>6, <1>7, <1>8 DEF CopyInv
  <1>12. HeaderReady => HeaderReady'
    BY <1>1, <1>2, <1>3, <1>6, <1>8 DEF HeaderReady
  <1>13. ContentInv'
    BY <1>1, <1>4, <1>6, <1>9, <1>10, <1>11, <1>12 DEF ContentInv, Unmounted
  <1>14. QED
    BY <1>1, <1>4, <1>13 DEF MapStep

LEMMA ContentNext ==
    ASSUME NoWrap, HeaderInv, ContentInv, [Next]_vars
    PROVE  ContentInv' /\ MapStep
  <1>0. HeaderInv'
    BY HeaderInvNext
  <1>1. CASE BootStep
    BY <1>0, <1>1, SetupContent, FormatContent, ScanContent DEF BootStep
  <1>2. CASE CallStep
    BY <1>0, <1>2, DeleteMissingContent, WriteFullContent, WriteStartContent, AppendPageContent,
       ResetStartContent, EnsureStartContent DEF CallStep
  <1>3. CASE GcStep
    BY <1>0, <1>3, GcEraseContent, GcSkipContent, GcCopyPageContent, GcCopiedContent,
       GcInjectPageContent, GcHeaderContent DEF GcStep
  <1>4. CASE InvokeWrite \/ InvokeDelete \/ InvokeReset \/ InvokeEnsure
    <2>1. \E r \in Requests : Invoke(r)
      BY <1>4 DEF InvokeWrite, InvokeDelete, InvokeReset, InvokeEnsure, Requests
    <2>2. QED
      BY <2>1, InvokeContent
  <1>5. CASE PowerFail
    BY <1>5, FailureContent
  <1>6. CASE UNCHANGED vars
    BY <1>6, ContentStutter
  <1>7. QED
    BY <1>1, <1>2, <1>3, <1>4, <1>5, <1>6 DEF Next, Step

-----------------------------------------------------------------------------
(* What the invariant says of the properties.                              *)

LEMMA ContentWritable ==
    ASSUME NEW cell, NEW o, NEW n \in Nat, Log(cell, o), o + n <= AreaPages, InProgress(cell, o)
    PROVE  WritableAt(cell, o, n)
  <1>1. o \in Nat /\ o >= 1
    BY SizeFacts DEF Log
  <1>2. ASSUME NEW q \in o .. o + n - 1
        PROVE  cell[q].st = "erased" \/ (q = o /\ page > 0 /\ cell[q].st = "bad")
    <2>1. q \in Nat /\ q >= o /\ q <= o + n - 1
      BY <1>1
    <2>2. q \in Offsets /\ q < AreaPages
      BY <1>1, <2>1, SizeFacts
    <2>3. CASE q = o
      BY <2>2, <2>3 DEF InProgress
    <2>4. CASE q # o
      <3>1. q > o
        BY <1>1, <2>1, <2>4
      <3>2. QED
        BY <2>2, <3>1 DEF Log
    <2>5. QED
      BY <2>3, <2>4
  <1>3. QED
    BY <1>2 DEF WritableAt

LEMMA ContentPrograms ==
    ASSUME HeaderInv, ContentInv
    PROVE  ProgramsErasedPages
  <1>1. ASSUME pc = "append" PROVE WritableAt(flash[active].cell, free, NewPages)
    <2>1. NewPages \in Nat /\ free + NewPages <= AreaPages /\ Log(Log1, free)
      BY <1>1, AppendFacts
    <2>2. InProgress(Log1, free)
      BY <1>1 DEF ContentInv, AppendInv
    <2>3. QED
      BY <2>1, <2>2, ContentWritable DEF Log1
  <1>2. ASSUME pc = "inject" PROVE WritableAt(flash[gcArea].cell, off, NewPages)
    <2>1. NewPages \in Nat /\ off + NewPages <= AreaPages
      BY <1>2, InjectFacts
    <2>2. Log(Log2, off) /\ InProgress(Log2, off)
      BY <1>2, CopyingFacts DEF CopyInv, NewArea
    <2>3. QED
      BY <2>1, <2>2, ContentWritable DEF Log2
  <1>3. ASSUME pc = "copy" /\ idx <= Len(table) /\ ~(CarriesRecord /\ idx = slot)
        PROVE  WritableAt(flash[gcArea].cell, off, RecPages(flash[active].cell[table[idx].off].val))
    <2>1. PICK c : c = Log1[table[idx].off]
      OBVIOUS
    <2>2. RecPages(c.val) \in Nat /\ off + RecPages(c.val) <= AreaPages
      BY <1>3, <2>1, NextRecord
    <2>3. Log(Log2, off) /\ InProgress(Log2, off)
      BY <1>3, CopyingFacts DEF CopyInv, NewArea
    <2>4. WritableAt(Log2, off, RecPages(c.val))
      BY <2>2, <2>3, ContentWritable
    <2>5. QED
      BY <2>1, <2>4 DEF Log1, Log2
  <1>4. pc = "header" => flash[gcArea].hdr = ErasedHeader
    BY DEF ContentInv, HeaderReady, NewArea
  <1>5. pc = "fmt_header" => flash[1].hdr = ErasedHeader
    BY DEF ContentInv
  <1>6. QED
    BY <1>1, <1>2, <1>3, <1>4, <1>5 DEF ProgramsErasedPages

LEMMA ContentReads ==
    ASSUME HeaderInv, ContentInv
    PROVE  ReadsAreDurable
  <1> SUFFICES ASSUME pc = "idle", NEW k \in Keys PROVE Read(k) = Recoverable[k]
    BY DEF ReadsAreDurable
  <1>1. Ready /\ ~Unmounted
    BY DEF ContentInv, Unmounted
  <1>2. Recoverable = Live
    BY <1>1, MountedFacts
  <1>3. TableFor(table, At(table, Log1), Live)
    BY <1>1 DEF Ready, Indexed
  <1>4. (Found(k) <=> Live[k] # Absent) /\ (Found(k) => StoredVal(k) = Live[k])
    BY <1>3, FindFacts
  <1>5. QED
    BY <1>2, <1>4 DEF Read

LEMMA ContentAccounting ==
    ASSUME HeaderInv, ContentInv
    PROVE  AccountingExact
  <1> SUFFICES ASSUME pc = "idle"
               PROVE  /\ consumed = 1 + Map!Used(Recoverable)
                      /\ \A o \in Offsets : o >= free <=> flash[active].cell[o].st = "erased"
    BY DEF AccountingExact
  <1>1. Ready /\ ~Unmounted
    BY DEF ContentInv, Unmounted
  <1>2. Recoverable = Live
    BY <1>1, MountedFacts
  <1>3. consumed = 1 + Map!Used(Recoverable)
    BY <1>1, <1>2 DEF Ready, Indexed
  <1>4. /\ Log(Log1, free) /\ (free < AreaPages => Log1[free].st = "erased") /\ free \in Nat
    BY <1>1, SizeFacts DEF Ready, Log
  <1>5. ASSUME NEW o \in Offsets PROVE o >= free <=> Log1[o].st = "erased"
    <2>1. o \in Nat /\ o < AreaPages
      BY SizeFacts
    <2>2. CASE o < free
      <3>1. Log1[o].st \in {"rec", "cont"}
        BY <1>4, <2>2 DEF Log
      <3>2. QED
        BY <1>4, <2>1, <2>2, <3>1
    <2>3. CASE o = free
      BY <1>4, <2>1, <2>3
    <2>4. CASE o > free
      BY <1>4, <2>1, <2>4 DEF Log
    <2>5. QED
      BY <1>4, <2>1, <2>2, <2>3, <2>4
  <1>6. QED
    BY <1>3, <1>5 DEF Log1

-----------------------------------------------------------------------------
(* Every boot and every call ends: the work left, in flash operations.     *)

SectorsLeft == IF sec = 0 THEN 1 ELSE NumSectors - sec + 1

(* Steps, at most, that are left of the operation in progress, any garbage *)
(* collection included.                                                    *)
Work ==
    CASE pc = "off"        -> 5 * AreaPages + 2 * NumSectors + 2
      [] pc = "fmt_erase"  -> 5 * AreaPages + NumSectors + 1 + SectorsLeft
      [] pc = "fmt_header" -> 5 * AreaPages + NumSectors + 1
      [] pc = "scan"       -> 5 * AreaPages + NumSectors + 1 - off
      [] pc = "start"      -> 4 * AreaPages + NumSectors + 1
      [] pc = "erase"      -> 4 * AreaPages + SectorsLeft
      [] pc = "copy"       -> 3 * AreaPages + Len(table) + 3 - off - page - idx
      [] pc = "inject"     -> AreaPages + 1 + NewPages - page
      [] pc = "header"     -> AreaPages + 1
      [] pc = "append"     -> NewPages - page
      [] OTHER             -> 0

(* The work of each phase lies above that of the phases that can follow.   *)
WorkBounds ==
    LET Between(a, b) == a <= Work /\ Work <= b IN
    /\ Work \in Nat
    /\ pc = "off"        => Work = 5 * AreaPages + 2 * NumSectors + 2
    /\ pc = "fmt_erase"  => Between(5 * AreaPages + NumSectors + 2,
                                    5 * AreaPages + 2 * NumSectors + 1)
    /\ pc = "fmt_header" => Work = 5 * AreaPages + NumSectors + 1
    /\ pc = "scan"   => Between(4 * AreaPages + NumSectors + 1, 5 * AreaPages + NumSectors)
    /\ pc = "erase"  => Between(4 * AreaPages + 1, 4 * AreaPages + NumSectors)
    /\ pc = "copy"   => Between(2 * AreaPages + 2, 4 * AreaPages)
    /\ pc = "inject" => Between(AreaPages + 2, 2 * AreaPages + 1)
    /\ pc = "append" => Between(1, AreaPages)
    /\ pc = "start"  => Work = 4 * AreaPages + NumSectors + 1
    /\ pc = "header" => Work = AreaPages + 1
    /\ pc \in {"idle", "failed"} => Work = 0

(* Operations end within the time their flash operations take: every step  *)
(* of a boot or of a call, but for a power failure, reduces the work left. *)
WorkDecreases == [][pc \notin {"idle", "failed"} => crashes' # crashes \/ Work' < Work]_vars

(* The table has at most one entry per used page.                          *)
LEMMA TableFits ==
    ASSUME NEW t, NEW cs, NEW m \in Maps, TableFor(t, cs, m)
    PROVE  Len(t) \in Nat /\ Len(t) <= Map!Used(m)
  <1> DEFINE f == [i \in 1 .. Len(t) |-> <<cs[i].key, 1>>]
  <1>1. Len(t) \in Nat /\ t \in Seq(Entries)
    BY DEF TableFor
  <1>2. IsFiniteSet(Map!UsedPages(m)) /\ Map!Used(m) = Cardinality(Map!UsedPages(m))
    BY UsedFinite, UsedIs
  <1>3. ASSUME NEW i \in 1 .. Len(t) PROVE <<cs[i].key, 1>> \in Map!UsedPages(m)
    <2>1. cs[i].key \in Keys /\ m[cs[i].key] = cs[i].val /\ cs[i].val \in Vals
      BY DEF TableFor, IsLive
    <2>2. Map!PagesOf(m[cs[i].key]) \in Nat /\ Map!PagesOf(m[cs[i].key]) # 0
      BY <2>1, SizeFacts
    <2>3. 1 \in 1 .. Map!PagesOf(m[cs[i].key])
      BY <2>2
    <2>4. QED
      BY <2>1, <2>3 DEF Map!UsedPages
  <1>4. f \in Injection(1 .. Len(t), Map!UsedPages(m))
    <2>1. f \in [1 .. Len(t) -> Map!UsedPages(m)]
      BY <1>3
    <2>2. \A i, j \in 1 .. Len(t) : f[i] = f[j] => i = j
      BY DEF TableFor
    <2> HIDE DEF f
    <2>3. QED
      BY <2>1, <2>2 DEF Injection, IsInjective
  <1>5. IsFiniteSet(1 .. Len(t)) /\ Cardinality(1 .. Len(t)) = Len(t)
    <2>1. /\ IsFiniteSet(1 .. Len(t))
          /\ Cardinality(1 .. Len(t)) = IF 1 > Len(t) THEN 0 ELSE Len(t) - 1 + 1
      BY <1>1, FS_Interval
    <2>2. QED
      BY <1>1, <2>1
  <1> HIDE DEF f
  <1>6. QED
    BY <1>1, <1>2, <1>4, <1>5, FS_Injection

LEMMA SectorsLeftBounds ==
    ASSUME sec \in Nat, sec < NumSectors
    PROVE  SectorsLeft \in Nat /\ SectorsLeft >= 1 /\ SectorsLeft <= NumSectors
  BY SizesAssumption DEF SectorsLeft

LEMMA NumSectorsPositive == NumSectors \in Nat /\ NumSectors >= 1
  BY SizesAssumption

LEMMA ContentWork ==
    ASSUME HeaderInv, ContentInv
    PROVE  WorkBounds
  <1>0. AreaPages \in Nat /\ AreaPages > 1 /\ NumSectors \in Nat /\ NumSectors >= 1
    BY SizeFacts, NumSectorsPositive
  <1>1. ASSUME pc = "fmt_erase"
        PROVE  Work \in 5 * AreaPages + NumSectors + 2 .. 5 * AreaPages + 2 * NumSectors + 1
    <2>1. SectorsLeft \in Nat /\ SectorsLeft >= 1 /\ SectorsLeft <= NumSectors
      BY <1>1, SectorsLeftBounds DEF ContentInv
    <2>2. QED
      BY <1>0, <1>1, <2>1 DEF Work
  <1>2. ASSUME pc = "scan"
        PROVE  Work \in 4 * AreaPages + NumSectors + 1 .. 5 * AreaPages + NumSectors
    <2>1. off \in 1 .. AreaPages
      BY <1>2 DEF ContentInv, ScanInv
    <2>2. QED
      BY <1>0, <1>2, <2>1 DEF Work
  <1>3. ASSUME pc = "erase"
        PROVE  Work \in 4 * AreaPages + 1 .. 4 * AreaPages + NumSectors
    <2>1. SectorsLeft \in Nat /\ SectorsLeft >= 1 /\ SectorsLeft <= NumSectors
      BY <1>3, SectorsLeftBounds DEF ContentInv, EraseInv
    <2>2. QED
      BY <1>0, <1>3, <2>1 DEF Work
  <1>4. ASSUME pc = "copy"
        PROVE  Work \in 2 * AreaPages + 2 .. 4 * AreaPages
    <2>1. /\ CopyInv /\ Base \in Maps /\ 1 + Map!Used(Base) <= AreaPages /\ Map!Used(Base) \in Nat
          /\ page \in Nat /\ off \in Nat /\ off >= 1 /\ Log(Log2, off) /\ idx \in Nat
      BY <1>4, CopyingFacts
    <2>2. Len(table) \in Nat /\ Len(table) <= Map!Used(Base)
      BY <2>1, TableFits DEF CopyInv
    <2>3. idx >= 1 /\ idx <= Len(table) + 1
      BY <2>1, <2>2 DEF CopyInv
    <2>4. off + page <= AreaPages
      <3>1. CASE page = 0
        BY <1>0, <2>1, <3>1 DEF Log
      <3>2. CASE page # 0
        <4>1. idx <= Len(table) /\ ~(CarriesRecord /\ idx = slot)
          BY <1>4, <2>1, <3>2 DEF CopyInv
        <4>2. PICK c : c = Log1[table[idx].off]
          OBVIOUS
        <4>3. /\ RecPages(c.val) \in Nat /\ page < RecPages(c.val)
              /\ off + RecPages(c.val) <= AreaPages
          BY <1>4, <4>1, <4>2, NextRecord
        <4>4. QED
          BY <1>0, <2>1, <4>3
      <3>3. QED
        BY <3>1, <3>2
    <2>5. Work = 3 * AreaPages + Len(table) + 3 - off - page - idx
      BY <1>4 DEF Work
    <2>6. QED
      BY <1>0, <2>1, <2>2, <2>3, <2>4, <2>5
  <1>5. ASSUME pc = "inject"
        PROVE  Work \in AreaPages + 2 .. 2 * AreaPages + 1
    <2>1. /\ NewPages \in Nat /\ page \in Nat /\ page < NewPages
          /\ off \in Offsets /\ off + NewPages <= AreaPages
      BY <1>5, InjectFacts
    <2>2. Work = AreaPages + 1 + NewPages - page /\ off \in Nat
      BY <1>5, <2>1, SizeFacts DEF Work
    <2>3. QED
      BY <1>0, <2>1, <2>2
  <1>6. ASSUME pc = "append"
        PROVE  Work \in 1 .. AreaPages
    <2>1. /\ NewPages \in Nat /\ page \in Nat /\ page < NewPages
          /\ free \in Offsets /\ free + NewPages <= AreaPages
      BY <1>6, AppendFacts
    <2>2. Work = NewPages - page /\ free \in Nat
      BY <1>6, <2>1, SizeFacts DEF Work
    <2>3. QED
      BY <1>0, <2>1, <2>2
  <1>7. \A a, b \in Nat : Work \in a .. b => Work \in Nat /\ a <= Work /\ Work <= b
    OBVIOUS
  <1>8. /\ pc = "off" => Work = 5 * AreaPages + 2 * NumSectors + 2
        /\ pc = "fmt_header" => Work = 5 * AreaPages + NumSectors + 1
        /\ pc = "start" => Work = 4 * AreaPages + NumSectors + 1
        /\ pc = "header" => Work = AreaPages + 1
        /\ pc = "idle" => Work = 0
        /\ pc = "failed" => Work = 0
    BY DEF Work
  <1>9. pc \in Pcs
    BY DEF HeaderInv
  <1>10. Work \in Nat
    BY <1>0, <1>1, <1>2, <1>3, <1>4, <1>5, <1>6, <1>7, <1>8, <1>9 DEF Pcs
  <1>11. QED
    BY <1>0, <1>1, <1>2, <1>3, <1>4, <1>5, <1>6, <1>7, <1>8, <1>10 DEF WorkBounds

LEMMA WorkStep ==
    ASSUME NoWrap, HeaderInv, ContentInv, HeaderInv', ContentInv', WorkBounds, WorkBounds',
           Step
    PROVE  Work' < Work
  <1>0. AreaPages \in Nat /\ AreaPages > 1 /\ NumSectors \in Nat /\ NumSectors >= 1
    BY SizeFacts, NumSectorsPositive
  <1>1. CASE SetupFails \/ SetupMount \/ SetupFormat
    <2>1. pc = "off" /\ pc' \in {"failed", "scan", "fmt_erase"}
      BY <1>1 DEF SetupFails, SetupMount, SetupFormat, StartScan
    <2>2. QED
      BY <1>0, <2>1 DEF WorkBounds
  <1>2. CASE FormatErase
    <2>1. CASE sec = 0
      <3>1. pc = "fmt_erase" /\ pc' = "fmt_header"
        BY <1>2, <2>1 DEF FormatErase
      <3>2. QED
        BY <1>0, <3>1 DEF WorkBounds
    <2>2. CASE sec # 0
      <3>1. pc = "fmt_erase" /\ pc' = "fmt_erase" /\ sec' = NextToErase(sec)
        BY <1>2, <2>2 DEF FormatErase
      <3>2. sec \in Nat /\ sec < NumSectors
        BY <3>1 DEF ContentInv
      <3>3. SectorsLeft' < SectorsLeft /\ SectorsLeft \in Nat /\ SectorsLeft' \in Nat
        BY <1>0, <2>2, <3>1, <3>2 DEF SectorsLeft, NextToErase
      <3>4. QED
        BY <1>0, <3>1, <3>3 DEF Work
    <2>3. QED
      BY <2>1, <2>2
  <1>3. CASE FormatHeader
    <2>1. pc = "fmt_header" /\ pc' = "scan"
      BY <1>3 DEF FormatHeader, StartScan
    <2>2. QED
      BY <1>0, <2>1 DEF WorkBounds
  <1>4. CASE ScanRecord
    <2>1. pc = "scan" /\ pc' = "scan" /\ ScanInv /\ off < AreaPages
          /\ off' = off + RecPages(Log1[off].val) /\ Log1[off].st = "rec"
      BY <1>4 DEF ScanRecord, ContentInv, Log1
    <2>2. off \in 1 .. AreaPages /\ off \in Offsets /\ Log1 \in [Offsets -> Cells]
      BY <2>1, SizeFacts DEF ScanInv, Log
    <2>3. RecPages(Log1[off].val) \in Nat /\ RecPages(Log1[off].val) >= 1
      BY <2>2, CellTypes, SizeFacts
    <2>4. QED
      BY <1>0, <2>1, <2>2, <2>3 DEF Work
  <1>5. CASE ScanEnd \/ ScanFails \/ ScanCorrupt
    <2>1. pc = "scan" /\ pc' \in {"idle", "failed", "erase"}
      BY <1>5 DEF ScanEnd, ScanFails, ScanCorrupt, StartGC
    <2>2. QED
      BY <1>0, <2>1 DEF WorkBounds
  <1>6. CASE DeleteMissing \/ WriteFull \/ WriteStart \/ ResetStart \/ EnsureStart
    <2>1. pc = "start" /\ pc' \in {"idle", "erase", "append"}
      BY <1>6 DEF DeleteMissing, WriteFull, WriteStart, ResetStart, EnsureStart, Return, StartGC
    <2>2. QED
      BY <1>0, <2>1 DEF WorkBounds
  <1>7. CASE AppendPage
    <2>1. CASE page + 1 < NewPages
      <3>1. pc = "append" /\ pc' = "append" /\ page' = page + 1 /\ req' = req
        BY <1>7, <2>1 DEF AppendPage
      <3>2. NewPages' = NewPages /\ NewPages \in Nat /\ page \in Nat
        BY <3>1, AppendFacts DEF NewPages, NewVal
      <3>3. QED
        BY <3>1, <3>2 DEF Work
    <2>2. CASE ~(page + 1 < NewPages)
      <3>1. pc = "append" /\ pc' = "idle"
        BY <1>7, <2>2 DEF AppendPage, Return
      <3>2. QED
        BY <3>1 DEF WorkBounds
    <2>3. QED
      BY <2>1, <2>2
  <1>8. CASE GcErase
    <2>1. CASE sec = 0
      <3>1. pc = "erase" /\ pc' = "copy"
        BY <1>8, <2>1 DEF GcErase
      <3>2. QED
        BY <1>0, <3>1 DEF WorkBounds
    <2>2. CASE sec # 0
      <3>1. pc = "erase" /\ pc' = "erase" /\ sec' = NextToErase(sec)
        BY <1>8, <2>2 DEF GcErase
      <3>2. sec \in Nat /\ sec < NumSectors
        BY <3>1 DEF ContentInv, EraseInv
      <3>3. SectorsLeft' < SectorsLeft /\ SectorsLeft \in Nat /\ SectorsLeft' \in Nat
        BY <1>0, <2>2, <3>1, <3>2 DEF SectorsLeft, NextToErase
      <3>4. QED
        BY <1>0, <3>1, <3>3 DEF Work
    <2>3. QED
      BY <2>1, <2>2
  <1>9. CASE GcSkip
    <2>1. /\ pc = "copy" /\ pc' = "copy" /\ idx' = idx + 1
          /\ table' = table /\ off' = off /\ page' = page
      BY <1>9 DEF GcSkip, ramVars
    <2>2. Len(table) \in Nat /\ off \in Nat /\ page \in Nat /\ idx \in Nat
      BY <2>1, CopyingFacts
    <2>3. QED
      BY <1>0, <2>1, <2>2 DEF Work
  <1>10. CASE GcCopyPage
    <2>1. PICK c : c = Log1[table[idx].off]
      OBVIOUS
    <2>2. pc = "copy" /\ pc' = "copy" /\ idx <= Len(table) /\ ~(CarriesRecord /\ idx = slot)
      BY <1>10 DEF GcCopyPage
    <2>3. /\ RecPages(c.val) \in Nat /\ page < RecPages(c.val)
          /\ Len(table) \in Nat /\ off \in Nat /\ page \in Nat /\ idx \in Nat /\ table \in Seq(Entries)
      BY <2>1, <2>2, NextRecord, CopyingFacts
    <2>4. CASE page + 1 < RecPages(c.val)
      <3>1. page' = page + 1 /\ table' = table /\ off' = off /\ idx' = idx
        BY <1>10, <2>1, <2>4 DEF GcCopyPage, Log1
      <3>2. QED
        BY <1>0, <2>2, <2>3, <3>1 DEF Work
    <2>5. CASE ~(page + 1 < RecPages(c.val))
      <3>1. /\ table' = [table EXCEPT ![idx].off = off] /\ off' = off + RecPages(c.val)
            /\ idx' = idx + 1 /\ page' = 0
        BY <1>10, <2>1, <2>5 DEF GcCopyPage, Log1
      <3>2. Len(table') = Len(table)
        BY <2>3, <3>1
      <3>3. /\ Work = 3 * AreaPages + Len(table) + 3 - off - page - idx
            /\ Work' = 3 * AreaPages + Len(table) + 3 - (off + RecPages(c.val)) - 0 - (idx + 1)
        BY <2>2, <3>1, <3>2 DEF Work
      <3>4. RecPages(c.val) >= page + 1
        BY <2>3, <2>5
      <3>5. \A A, l, o, p, i, n \in Nat :
              n >= p + 1 => 3 * A + l + 3 - (o + n) - 0 - (i + 1) < 3 * A + l + 3 - o - p - i
        OBVIOUS
      <3>6. QED
        BY <1>0, <2>3, <3>3, <3>4, <3>5
    <2>6. QED
      BY <2>4, <2>5
  <1>11. CASE GcCopied
    <2>1. pc = "copy" /\ pc' \in {"inject", "header"}
      BY <1>11 DEF GcCopied
    <2>2. QED
      BY <1>0, <2>1 DEF WorkBounds
  <1>12. CASE GcInjectPage
    <2>1. CASE page + 1 < NewPages
      <3>1. pc = "inject" /\ pc' = "inject" /\ page' = page + 1 /\ req' = req
        BY <1>12, <2>1 DEF GcInjectPage
      <3>2. NewPages' = NewPages /\ NewPages \in Nat /\ page \in Nat
        BY <3>1, InjectFacts DEF NewPages, NewVal
      <3>3. QED
        BY <1>0, <3>1, <3>2 DEF Work
    <2>2. CASE ~(page + 1 < NewPages)
      <3>1. pc = "inject" /\ pc' = "header"
        BY <1>12, <2>2 DEF GcInjectPage
      <3>2. QED
        BY <1>0, <3>1 DEF WorkBounds
    <2>3. QED
      BY <2>1, <2>2
  <1>13. CASE GcHeader
    <2>1. pc = "header" /\ pc' \in {"append", "idle"}
      BY <1>13 DEF GcHeader, Return
    <2>2. QED
      BY <1>0, <2>1 DEF WorkBounds
  <1>14. QED
    BY <1>1, <1>2, <1>3, <1>4, <1>5, <1>6, <1>7, <1>8, <1>9, <1>10, <1>11, <1>12, <1>13
       DEF Step, BootStep, CallStep, GcStep

(* No loop of the store is endless, after any history of requests and      *)
(* power failures: each step of mtb_kvstore_init and of each call          *)
(* reduces a bounded number, the work left.  A call, garbage collection    *)
(* included, takes at most 4 * AreaPages + NumSectors + 1 steps, a boot    *)
(* 5 * AreaPages + 2 * NumSectors + 2.  With weak fairness of the store's  *)
(* steps this is why RequestsReturn holds.                                 *)
THEOREM OperationsEnd ==
    ASSUME NoWrap
    PROVE  Spec => WorkDecreases /\ [](Work \in 0 .. 5 * AreaPages + 2 * NumSectors + 2)
  <1>1. Init => HeaderInv /\ ContentInv
    BY HeaderInvInit, ContentInit
  <1>2. HeaderInv /\ ContentInv /\ [Next]_vars => HeaderInv' /\ ContentInv'
    BY HeaderInvNext, ContentNext
  <1>3. HeaderInv /\ ContentInv => WorkBounds
    BY ContentWork
  <1>4. ASSUME HeaderInv, ContentInv, HeaderInv', ContentInv', WorkBounds, WorkBounds', [Next]_vars
        PROVE  [pc \notin {"idle", "failed"} => crashes' # crashes \/ Work' < Work]_vars
    <2> SUFFICES ASSUME Next, pc \notin {"idle", "failed"}
                 PROVE  crashes' # crashes \/ Work' < Work
      BY <1>4
    <2>1. CASE Step
      BY <1>4, <2>1, WorkStep
    <2>2. CASE InvokeWrite \/ InvokeDelete \/ InvokeReset \/ InvokeEnsure
      BY <2>2 DEF InvokeWrite, InvokeDelete, InvokeReset, InvokeEnsure, Invoke
    <2>3. CASE PowerFail
      BY <1>4, <2>3, BoundAssumption DEF PowerFail, HeaderInv
    <2>4. QED
      BY <2>1, <2>2, <2>3 DEF Next
  <1>5. HeaderInv /\ WorkBounds => Work \in 0 .. 5 * AreaPages + 2 * NumSectors + 2
    BY SizeFacts, NumSectorsPositive DEF WorkBounds, HeaderInv, Pcs
  <1>6. QED
    BY <1>1, <1>2, <1>3, <1>4, <1>5, PTL DEF Spec, WorkDecreases

-----------------------------------------------------------------------------
(* The types.                                                              *)

Sorted == /\ table \in Seq(Entries)
          /\ \A i, j \in DOMAIN table : i < j => table[i].hash >= table[j].hash

(* What the invariants say at each point.                                  *)
PointTypes ==
    /\ \A a \in Areas : flash[a].hdr \in Headers /\ flash[a].cell \in [Offsets -> Cells]
    /\ pc \in Pcs /\ req \in Requests \cup {NoReq} /\ active \in Areas
    /\ page \in Nat /\ sec \in Nat /\ crashes \in 0 .. MaxCrashes
    /\ ~Unmounted => Sorted /\ ver \in 0 .. VersionMod - 1
    /\ pc = "scan" => off \in 1 .. AreaPages /\ consumed \in Nat
    /\ pc \in {"copy", "inject", "header"} => off \in 0 .. AreaPages
    /\ pc \in {"idle", "start", "append"} => consumed \in 0 .. AreaPages /\ free \in 0 .. AreaPages
    /\ pc \in {"erase", "copy", "inject", "header"} /\ ~IsReset => consumed \in 0 .. AreaPages

(* What lasts from one point to the next: consumed_size never runs ahead   *)
(* of the scan that computes it.                                           *)
LastingTypes ==
    /\ Sorted
    /\ ver \in 0 .. VersionMod - 1
    /\ consumed \in 0 .. AreaPages /\ free \in 0 .. AreaPages /\ off \in 0 .. AreaPages
    /\ idx \in Nat /\ slot \in Nat /\ oldsz \in Nat
    /\ pc = "scan" => consumed <= off

LEMMA TableSorted ==
    ASSUME NEW cs, NEW m, TableFor(table, cs, m)
    PROVE  Sorted
  <1>1. table \in Seq(Entries) /\ DOMAIN table = 1 .. Len(table)
    BY DEF TableFor
  <1>2. QED
    BY <1>1 DEF TableFor, Sorted

LEMMA ContentTypes ==
    ASSUME HeaderInv, ContentInv
    PROVE  PointTypes
  <1>0. AreaPages \in Nat /\ AreaPages > 1
    BY SizeFacts
  <1>1. /\ \A a \in Areas : flash[a].hdr \in Headers /\ flash[a].cell \in [Offsets -> Cells]
        /\ pc \in Pcs /\ req \in Requests \cup {NoReq} /\ active \in Areas
        /\ page \in Nat /\ sec \in Nat /\ crashes \in 0 .. MaxCrashes
    BY DEF HeaderInv, FlashShape, IsArea, ContentInv
  <1>2. ASSUME ~Unmounted PROVE Sorted /\ ver \in 0 .. VersionMod - 1
    <2>1. flash[active].hdr.ver = ver
      BY <1>2 DEF HeaderInv, ActiveInv
    <2>2. ver \in 0 .. VersionMod - 1
      BY <1>1, <2>1 DEF Headers
    <2>3. pc \in {"scan", "idle", "start", "append", "erase", "copy", "inject", "header"}
      BY <1>1, <1>2 DEF Unmounted, Pcs
    <2>4. Sorted
      BY <2>3, TableSorted DEF ContentInv, ScanInv, Ready, Indexed, AppendInv, EraseInv, CopyInv,
                               HeaderReady
    <2>5. QED
      BY <2>2, <2>4
  <1>3. ASSUME pc = "scan" PROVE off \in 1 .. AreaPages /\ consumed \in Nat
    <2>1. PICK e \in 1 .. AreaPages : Log(Log1, e)
      BY <1>3 DEF ContentInv, ScanInv
    <2>2. off \in 1 .. AreaPages /\ off \in Nat /\ consumed = 1 + Map!Used(ValAt(Log1, off))
      BY <1>3 DEF ContentInv, ScanInv
    <2>3. ValAt(Log1, off) \in Maps
      BY <2>1, <2>2, ValAtMaps DEF Log
    <2>4. Map!Used(ValAt(Log1, off)) \in Nat
      BY <2>3, UsedFinite
    <2>5. QED
      BY <2>2, <2>4
  <1>4. ASSUME pc \in {"copy", "inject", "header"} PROVE off \in 0 .. AreaPages
    <2>1. Log(Log2, off)
      BY <1>4 DEF ContentInv, CopyInv, HeaderReady, NewArea
    <2>2. QED
      BY <1>0, <2>1 DEF Log
  <1>5. ASSUME pc \in {"idle", "start", "append"}
        PROVE  consumed \in 0 .. AreaPages /\ free \in 0 .. AreaPages
    <2>1. Log(Log1, free) /\ consumed = 1 + Map!Used(Live) /\ ~Unmounted
      BY <1>5 DEF ContentInv, Ready, Indexed, AppendInv, Unmounted
    <2>2. Map!Used(Live) \in Nat /\ 1 + Map!Used(Live) <= AreaPages
      BY <2>1, MountedFacts
    <2>3. QED
      BY <1>0, <2>1, <2>2 DEF Log
  <1>6. ASSUME pc \in {"erase", "copy", "inject"}, ~IsReset PROVE consumed \in 0 .. AreaPages
    <2>1. consumed = 1 + Map!Used(Live) /\ ~Unmounted
      BY <1>6 DEF ContentInv, EraseInv, CopyInv, GcConsumed, Unmounted
    <2>2. Map!Used(Live) \in Nat /\ 1 + Map!Used(Live) <= AreaPages
      BY <2>1, MountedFacts
    <2>3. QED
      BY <1>0, <2>1, <2>2
  <1>7. ASSUME pc = "header", ~IsReset PROVE consumed \in 0 .. AreaPages
    <2>1. /\ HeaderReady /\ off = 1 + Map!Used(Target) /\ off <= AreaPages
          /\ Map!Used(Target) \in Nat
      BY <1>7, HeaderFacts
    <2>2. consumed = 1 + Map!Used(Target)
      BY <1>7, <2>1 DEF HeaderReady
    <2>3. QED
      BY <1>0, <2>1, <2>2
  <1>8. QED
    BY <1>1, <1>2, <1>3, <1>4, <1>5, <1>6, <1>7 DEF PointTypes

LEMMA LastingNext ==
    ASSUME NoWrap, HeaderInv, ContentInv, PointTypes, PointTypes', LastingTypes, [Next]_vars
    PROVE  LastingTypes'
  <1>0. AreaPages \in Nat /\ AreaPages > 1 /\ VersionMod \in Nat /\ VersionMod > 1
    BY SizeFacts, VersionAssumption
  <1>1. ASSUME table' = <<>> PROVE Sorted'
    BY <1>1 DEF Sorted
  <1>2. table' = table => Sorted'
    BY DEF Sorted, LastingTypes
  <1>3. ~Unmounted' => Sorted' /\ ver' \in 0 .. VersionMod - 1
    BY DEF PointTypes
  <1>4. CASE SetupFails \/ SetupMount \/ SetupFormat
    BY <1>0, <1>1, <1>2, <1>3, <1>4 DEF SetupFails, SetupMount, SetupFormat, StartScan,
       ForgetLocals, LastingTypes, ramVars, Unmounted
  <1>5. CASE FormatErase \/ FormatHeader
    BY <1>0, <1>1, <1>2, <1>3, <1>5 DEF FormatErase, FormatHeader, StartScan, LastingTypes,
       ramVars, Unmounted
  <1>6. CASE ScanRecord
    <2>1. /\ pc = "scan" /\ pc' = "scan" /\ off < AreaPages /\ Log1[off].st = "rec"
          /\ off' = off + RecPages(Log1[off].val)
          /\ ver' = ver /\ free' = free /\ idx' = idx /\ slot' = slot /\ oldsz' = oldsz
      BY <1>6 DEF ScanRecord, Log1
    <2>2. off \in Offsets /\ Log1 \in [Offsets -> Cells]
      BY <2>1, SizeFacts DEF PointTypes, Log1
    <2>3. Log1[off].val \in Vals \cup {Absent} /\ Log1[off].key \in Keys \cup {NoKey}
      BY <2>2 DEF Cells
    <2>4. PICK n : n = RecPages(Log1[off].val)
      OBVIOUS
    <2>5. n \in Nat /\ n >= 1
      BY <2>3, <2>4, SizeFacts
    <2>6. off' \in 1 .. AreaPages /\ consumed' \in Nat /\ off \in Nat /\ consumed \in Nat
          /\ consumed <= off
      BY <2>1 DEF PointTypes, LastingTypes
    <2>7. PICK old \in Nat : consumed' = consumed \/ consumed' = consumed - old
                             \/ consumed' = consumed - old + n
      <3> DEFINE c == Log1[off]
                 old == IF Found(c.key) THEN RecPages(StoredVal(c.key)) ELSE 0
      <3>1. consumed' = consumed \/ consumed' = UpdateConsumedSize(consumed, c.val, old)
        BY <1>6 DEF ScanRecord, Log1
      <3>2. old \in Nat
        <4>1. TableFor(table, At(table, Log1), ValAt(Log1, off)) /\ c.key \in Keys
              /\ ValAt(Log1, off) \in Maps
          <5>1. PICK e \in 1 .. AreaPages : Log(Log1, e) /\ off <= e
            BY <2>1 DEF ContentInv, ScanInv
          <5>2. c.key \in Keys
            BY <2>1, <2>2, <5>1 DEF Log, RecordAt
          <5>3. ValAt(Log1, off) \in Maps
            BY <2>2, <2>6, <5>1, ValAtMaps DEF Log
          <5>4. QED
            BY <2>1, <5>2, <5>3 DEF ContentInv, ScanInv
        <4>2. Found(c.key) => StoredVal(c.key) = ValAt(Log1, off)[c.key]
          BY <4>1, FindFacts
        <4>3. ValAt(Log1, off)[c.key] \in Vals \cup {Absent}
          BY <4>1 DEF Maps
        <4>4. QED
          BY <4>2, <4>3, SizeFacts
      <3>3. QED
        BY <2>4, <3>1, <3>2 DEF UpdateConsumedSize
    <2>8. consumed' <= off' /\ consumed' <= AreaPages
      BY <1>0, <2>1, <2>4, <2>5, <2>6, <2>7
    <2>9. Sorted'
      BY <1>3, <2>1 DEF Unmounted
    <2>10. QED
      BY <1>0, <2>1, <2>6, <2>8, <2>9 DEF LastingTypes
  <1>7. CASE ScanEnd \/ ScanFails \/ ScanCorrupt
    BY <1>0, <1>2, <1>7 DEF ScanEnd, ScanFails, ScanCorrupt, StartGC, ForgetLocals, LastingTypes,
       ramVars
  <1>8. CASE DeleteMissing \/ WriteFull
    BY <1>0, <1>2, <1>8 DEF DeleteMissing, WriteFull, Return, ForgetLocals, LastingTypes, ramVars
  <1>9. CASE WriteStart
    <2>1. FindIdx(req.key) \in Nat /\ OldPages \in Nat
      <3>1. /\ pc = "start" /\ IsWrite /\ req \in Requests
            /\ TableFor(table, At(table, Log1), Live) /\ Live \in Maps
        BY <1>9, StartFacts DEF WriteStart
      <3>2. /\ req.key \in Keys /\ OldPages = Map!PagesOf(Live[req.key])
            /\ SlotFor(table, At(table, Log1), FindIdx(req.key), req.key, Live)
        BY <3>1, StartFacts DEF IsWrite
      <3>3. Live[req.key] \in Vals \cup {Absent} /\ Len(table) \in Nat
        BY <3>1, <3>2 DEF Maps, TableFor
      <3>4. OldPages \in Nat
        BY <3>2, <3>3, SizeFacts
      <3>5. FindIdx(req.key) \in Nat
        BY <3>2, <3>3 DEF SlotFor
      <3>6. QED
        BY <3>4, <3>5
    <2>2. QED
      BY <1>0, <1>2, <1>9, <2>1 DEF WriteStart, StartGC, LastingTypes, ramVars
  <1>10. CASE AppendPage
    <2>1. pc' \in {"idle", "append"}
      BY <1>10 DEF AppendPage, Return
    <2>2. consumed' \in 0 .. AreaPages /\ free' \in 0 .. AreaPages /\ Sorted'
          /\ ver' \in 0 .. VersionMod - 1
      BY <1>3, <2>1 DEF PointTypes, Unmounted
    <2>3. QED
      BY <1>0, <1>10, <2>1, <2>2 DEF AppendPage, Return, ForgetLocals, LastingTypes
  <1>11. CASE ResetStart \/ EnsureStart
    <2>1. CASE ResetStart
      BY <1>0, <1>1, <2>1 DEF ResetStart, StartGC, LastingTypes
    <2>2. CASE EnsureStart
      <3>1. /\ table' = table /\ ver' = ver /\ consumed' = consumed /\ free' = free
            /\ pc' \in {"erase", "idle"}
            /\ \/ off' = off /\ idx' = idx /\ slot' = slot /\ oldsz' = oldsz
               \/ off' = 0 /\ idx' = 0 /\ slot' = 0 /\ oldsz' = 0
        BY <2>2 DEF EnsureStart, StartGC, Return, ForgetLocals, ramVars
      <3>2. QED
        BY <1>0, <1>2, <3>1 DEF LastingTypes
    <2>3. QED
      BY <1>11, <2>1, <2>2
  <1>12. CASE InvokeWrite \/ InvokeDelete \/ InvokeReset \/ InvokeEnsure
    BY <1>0, <1>2, <1>12 DEF InvokeWrite, InvokeDelete, InvokeReset, InvokeEnsure, Invoke,
       LastingTypes, ramVars, callVars
  <1>13. CASE GcErase \/ GcSkip
    <2>1. /\ table' = table /\ ver' = ver /\ consumed' = consumed /\ free' = free
          /\ slot' = slot /\ oldsz' = oldsz /\ pc' \in {"erase", "copy"}
          /\ off' = off \/ off' = 1
          /\ idx' = idx \/ idx' = 1 \/ idx' = idx + 1
      BY <1>13 DEF GcErase, GcSkip, ramVars
    <2>2. QED
      BY <1>0, <1>2, <2>1 DEF LastingTypes
  <1>14. CASE GcCopyPage
    <2>1. /\ pc' = "copy" /\ ver' = ver /\ consumed' = consumed /\ free' = free
          /\ slot' = slot /\ oldsz' = oldsz /\ (idx' = idx \/ idx' = idx + 1)
      BY <1>14 DEF GcCopyPage
    <2>2. Sorted' /\ off' \in 0 .. AreaPages
      BY <1>3, <2>1 DEF PointTypes, Unmounted
    <2>3. QED
      BY <2>1, <2>2 DEF LastingTypes
  <1>15. CASE GcCopied \/ GcInjectPage
    <2>1. /\ pc' \in {"header", "inject"} /\ ver' = ver /\ free' = free /\ idx' = idx
          /\ slot' = slot /\ oldsz' = oldsz /\ req' = req
      BY <1>15 DEF GcCopied, GcInjectPage, callVars
    <2>2. Sorted' /\ off' \in 0 .. AreaPages
      BY <1>3, <2>1 DEF PointTypes, Unmounted
    <2>3. consumed' \in 0 .. AreaPages
      <3>1. CASE IsReset
        <4>1. ~CarriesRecord /\ pc = "copy"
          BY <1>15, <3>1, InjectFacts DEF IsReset, CarriesRecord, IsWrite, GcCopied, GcInjectPage
        <4>2. consumed' = consumed
          BY <1>15, <4>1 DEF GcCopied, GcInjectPage
        <4>3. QED
          BY <4>2 DEF LastingTypes
      <3>2. CASE ~IsReset
        <4>1. ~IsReset'
          BY <2>1, <3>2 DEF IsReset
        <4>2. QED
          BY <2>1, <4>1 DEF PointTypes
      <3>3. QED
        BY <3>1, <3>2
    <2>4. QED
      BY <2>1, <2>2, <2>3 DEF LastingTypes
  <1>16. CASE GcHeader
    <2>1. pc' \in {"idle", "append"} /\ table' = table
      BY <1>16 DEF GcHeader, Return
    <2>2. consumed' \in 0 .. AreaPages /\ free' \in 0 .. AreaPages /\ Sorted'
          /\ ver' \in 0 .. VersionMod - 1
      BY <1>3, <2>1 DEF PointTypes, Unmounted
    <2>3. QED
      BY <1>0, <1>16, <2>1, <2>2 DEF GcHeader, Return, ForgetLocals, LastingTypes
  <1>17. CASE PowerFail
    BY <1>0, <1>1, <1>17 DEF PowerFail, ForgetLocals, LastingTypes
  <1>18. CASE UNCHANGED vars
    BY <1>0, <1>2, <1>18 DEF vars, ramVars, callVars, LastingTypes
  <1>19. QED
    BY <1>4, <1>5, <1>6, <1>7, <1>8, <1>9, <1>10, <1>11, <1>12, <1>13, <1>14, <1>15, <1>16,
       <1>17, <1>18 DEF Next, Step, BootStep, CallStep, GcStep

(* Both areas are records of a header and cells.                           *)
Record(x) == x = [hdr |-> x.hdr, cell |-> x.cell]

AreaRecords == \A a \in Areas : Record(flash[a])

LEMMA FlashRecords ==
    ASSUME NEW x, Record(x)
    PROVE  /\ \A o, k, v, p : Record(ProgramPage(x, o, k, v, p))
           /\ \A v : Record(ProgramHeader(x, v))
           /\ \A s : Record(EraseSector(x, s))
           /\ \A o, k, v, p : \A y \in TornPage(x, o, k, v, p) : Record(y)
           /\ \A v : \A y \in TornHeader(x, v) : Record(y)
  <1>1. \A h, c : Record([hdr |-> h, cell |-> c])
    BY DEF Record
  <1>2. QED
    BY <1>1 DEF ProgramPage, ProgramHeader, EraseSector, TornPage, TornHeader

LEMMA OneAreaRecord ==
    ASSUME FlashShape, AreaRecords, NEW a \in Areas, NEW x, Record(x), flash' = [flash EXCEPT ![a] = x]
    PROVE  AreaRecords'
  <1>1. DOMAIN flash = Areas
    BY DEF FlashShape
  <1>2. ASSUME NEW b \in Areas PROVE flash'[b] = x \/ flash'[b] = flash[b]
    BY <1>1
  <1>3. QED
    BY <1>2 DEF AreaRecords

LEMMA AreaRecordsNext ==
    ASSUME HeaderInv, AreaRecords, [Next]_vars
    PROVE  AreaRecords'
  <1>0. /\ FlashShape /\ active \in Areas /\ gcArea \in Areas /\ 1 \in Areas
        /\ \A a \in Areas : Record(flash[a])
    BY DEF HeaderInv, gcArea, Other, Areas, AreaRecords
  <1>1. ASSUME UNCHANGED flash PROVE AreaRecords'
    BY <1>1 DEF AreaRecords
  <1>2. CASE FormatErase \/ FormatHeader
    BY <1>0, <1>2, FlashRecords, OneAreaRecord DEF FormatErase, FormatHeader
  <1>3. CASE AppendPage
    BY <1>0, <1>3, FlashRecords, OneAreaRecord DEF AppendPage
  <1>4. CASE GcErase
    BY <1>0, <1>4, FlashRecords, OneAreaRecord DEF GcErase
  <1>5. CASE GcCopyPage
    <2>1. PICK c : c = flash[active].cell[table[idx].off]
      OBVIOUS
    <2>2. flash' = [flash EXCEPT ![gcArea] = ProgramPage(flash[gcArea], off, c.key, c.val, page)]
      BY <1>5, <2>1 DEF GcCopyPage
    <2>3. Record(ProgramPage(flash[gcArea], off, c.key, c.val, page))
      BY <1>0, FlashRecords
    <2>4. QED
      BY <1>0, <2>2, <2>3, OneAreaRecord
  <1>6. CASE GcInjectPage \/ GcHeader
    BY <1>0, <1>6, FlashRecords, OneAreaRecord DEF GcInjectPage, GcHeader
  <1>7. CASE PowerFail
    <2>1. \/ flash' = flash
          \/ \E a \in Areas : \E x : Record(x) /\ flash' = [flash EXCEPT ![a] = x]
      <3>1. flash' \in FlashAfterFailure
        BY <1>7 DEF PowerFail
      <3>2. CASE pc = "append"
        <4>1. PICK x \in TornPage(flash[active], free, req.key, NewVal, page) :
                flash' = [flash EXCEPT ![active] = x]
          BY <3>1, <3>2 DEF FlashAfterFailure
        <4>2. QED
          BY <1>0, <4>1, FlashRecords
      <3>3. CASE pc = "inject"
        <4>1. PICK x \in TornPage(flash[gcArea], off, req.key, NewVal, page) :
                flash' = [flash EXCEPT ![gcArea] = x]
          BY <3>1, <3>3 DEF FlashAfterFailure
        <4>2. QED
          BY <1>0, <4>1, FlashRecords
      <3>4. CASE pc = "copy" /\ idx <= Len(table) /\ ~(CarriesRecord /\ idx = slot)
        <4>1. PICK c : c = flash[active].cell[table[idx].off]
          OBVIOUS
        <4>2. PICK x \in TornPage(flash[gcArea], off, c.key, c.val, page) :
                flash' = [flash EXCEPT ![gcArea] = x]
          BY <3>1, <3>4, <4>1 DEF FlashAfterFailure
        <4>3. QED
          BY <1>0, <4>2, FlashRecords
      <3>5. CASE pc = "header"
        <4>1. PICK x \in TornHeader(flash[gcArea], NextVersion) :
                flash' = [flash EXCEPT ![gcArea] = x]
          BY <3>1, <3>5 DEF FlashAfterFailure
        <4>2. QED
          BY <1>0, <4>1, FlashRecords
      <3>6. CASE pc = "fmt_header"
        <4>1. PICK x \in TornHeader(flash[1], 1) : flash' = [flash EXCEPT ![1] = x]
          BY <3>1, <3>6 DEF FlashAfterFailure
        <4>2. QED
          BY <1>0, <4>1, FlashRecords
      <3>7. CASE /\ pc \notin {"append", "inject", "header", "fmt_header"}
                 /\ ~(pc = "copy" /\ idx <= Len(table) /\ ~(CarriesRecord /\ idx = slot))
        BY <3>1, <3>7 DEF FlashAfterFailure
      <3>8. QED
        BY <3>2, <3>3, <3>4, <3>5, <3>6, <3>7
    <2>2. QED
      BY <1>0, <1>1, <2>1, OneAreaRecord DEF AreaRecords
  <1>8. CASE \/ SetupFails \/ SetupMount \/ SetupFormat \/ ScanRecord \/ ScanEnd \/ ScanFails
             \/ ScanCorrupt \/ DeleteMissing \/ WriteFull \/ WriteStart \/ ResetStart \/ EnsureStart
             \/ GcSkip \/ GcCopied \/ UNCHANGED vars
    BY <1>1, <1>8 DEF SetupFails, SetupMount, SetupFormat, ScanRecord, ScanEnd, ScanFails,
       ScanCorrupt, DeleteMissing, WriteFull, WriteStart, ResetStart, EnsureStart, GcSkip,
       GcCopied, vars
  <1>9. CASE InvokeWrite \/ InvokeDelete \/ InvokeReset \/ InvokeEnsure
    BY <1>1, <1>9 DEF InvokeWrite, InvokeDelete, InvokeReset, InvokeEnsure, Invoke
  <1>10. QED
    BY <1>2, <1>3, <1>4, <1>5, <1>6, <1>7, <1>8, <1>9 DEF Next, Step, BootStep, CallStep, GcStep

(* Every variable stays in its C type whatever happened before: offsets    *)
(* and consumed_size inside the area, the version a uint16_t, and the RAM  *)
(* table, which find_record_in_ram_table searches, sorted by hash.         *)
THEOREM TypeCorrect ==
    ASSUME NoWrap
    PROVE  Spec => []TypeOK
  <1>1. Init => HeaderInv /\ ContentInv /\ LastingTypes /\ AreaRecords
    <2>1. ASSUME Init PROVE LastingTypes /\ AreaRecords
      <3>1. Sorted
        BY <2>1 DEF Init, Sorted
      <3>2. AreaPages \in Nat /\ VersionMod \in Nat /\ VersionMod > 1
        BY SizeFacts, VersionAssumption
      <3>3. QED
        BY <2>1, <3>1, <3>2 DEF Init, LastingTypes, AreaRecords, Record, ErasedArea
    <2>2. QED
      BY <2>1, HeaderInvInit, ContentInit
  <1>2. HeaderInv /\ ContentInv /\ [Next]_vars => HeaderInv' /\ ContentInv'
    BY HeaderInvNext, ContentNext
  <1>3. HeaderInv /\ ContentInv => PointTypes
    BY ContentTypes
  <1>4. /\ HeaderInv /\ ContentInv /\ PointTypes /\ PointTypes' /\ LastingTypes
        /\ AreaRecords /\ [Next]_vars
        => LastingTypes' /\ AreaRecords'
    BY LastingNext, AreaRecordsNext
  <1>5. HeaderInv /\ PointTypes /\ LastingTypes /\ AreaRecords => TypeOK
    <2> SUFFICES ASSUME HeaderInv, PointTypes, LastingTypes, AreaRecords PROVE TypeOK
      OBVIOUS
    <2>1. ASSUME NEW a \in Areas
          PROVE  flash[a] \in [hdr : Headers, cell : [Offsets -> Cells]]
      <3>1. flash[a] = [hdr |-> flash[a].hdr, cell |-> flash[a].cell]
        BY DEF AreaRecords, Record
      <3>2. flash[a].hdr \in Headers /\ flash[a].cell \in [Offsets -> Cells]
        BY DEF PointTypes
      <3>3. PICK h \in Headers, c \in [Offsets -> Cells] : flash[a] = [hdr |-> h, cell |-> c]
        BY <3>1, <3>2
      <3>4. QED
        BY <3>3
    <2>2. flash \in [Areas -> [hdr : Headers, cell : [Offsets -> Cells]]]
      BY <2>1 DEF HeaderInv, FlashShape
    <2>3. QED
      BY <2>2 DEF PointTypes, LastingTypes, Sorted, TypeOK
  <1>6. QED
    BY <1>1, <1>2, <1>3, <1>4, <1>5, PTL DEF Spec

-----------------------------------------------------------------------------
(* NOR flash programs erased pages only, after any sequence of requests    *)
(* and power failures: every page that _write_record, _copy_record and     *)
(* _write_area_record program is erased, or is a page of the record being  *)
(* written, and every record ends inside its area.                         *)
THEOREM ProgramsErasedPagesAlways ==
    ASSUME NoWrap
    PROVE  Spec => []ProgramsErasedPages
  <1>1. Init => HeaderInv /\ ContentInv
    BY HeaderInvInit, ContentInit
  <1>2. HeaderInv /\ ContentInv /\ [Next]_vars => HeaderInv' /\ ContentInv'
    BY HeaderInvNext, ContentNext
  <1>3. HeaderInv /\ ContentInv => ProgramsErasedPages
    BY ContentPrograms
  <1>4. QED
    BY <1>1, <1>2, <1>3, PTL DEF Spec

(* mtb_kvstore_read, through the sorted RAM table and whatever the hash    *)
(* collisions, returns for every key what a reboot would recover.          *)
THEOREM ReadsAreDurableAlways ==
    ASSUME NoWrap
    PROVE  Spec => []ReadsAreDurable
  <1>1. Init => HeaderInv /\ ContentInv
    BY HeaderInvInit, ContentInit
  <1>2. HeaderInv /\ ContentInv /\ [Next]_vars => HeaderInv' /\ ContentInv'
    BY HeaderInvNext, ContentNext
  <1>3. HeaderInv /\ ContentInv => ReadsAreDurable
    BY ContentReads
  <1>4. QED
    BY <1>1, <1>2, <1>3, PTL DEF Spec

(* consumed_size and free_space_offset, updated step by step through       *)
(* appends, GC and recovery, are exactly what the flash says.              *)
THEOREM AccountingExactAlways ==
    ASSUME NoWrap
    PROVE  Spec => []AccountingExact
  <1>1. Init => HeaderInv /\ ContentInv
    BY HeaderInvInit, ContentInit
  <1>2. HeaderInv /\ ContentInv /\ [Next]_vars => HeaderInv' /\ ContentInv'
    BY HeaderInvNext, ContentNext
  <1>3. HeaderInv /\ ContentInv => AccountingExact
    BY ContentAccounting
  <1>4. QED
    BY <1>1, <1>2, <1>3, PTL DEF Spec

(* The store implements the durable map: what a boot would recover changes *)
(* at one flash operation of a request that fits, to the request's effect, *)
(* or not at all; no garbage collection, recovery, erase or power failure  *)
(* changes it otherwise.                                                   *)
THEOREM DurableMapRefined ==
    ASSUME NoWrap
    PROVE  Spec => DurableMap
  <1>1. Init => HeaderInv /\ ContentInv /\ Map!Init
    BY HeaderInvInit, ContentInit
  <1>2. HeaderInv /\ ContentInv /\ [Next]_vars => HeaderInv' /\ ContentInv'
    BY HeaderInvNext, ContentNext
  <1>3. HeaderInv /\ ContentInv /\ [Next]_vars => [Map!Next]_(Map!mapVars)
    BY ContentNext DEF MapStep, Map!mapVars
  <1>4. QED
    BY <1>1, <1>2, <1>3, PTL DEF Spec, DurableMap, Map!Spec

-----------------------------------------------------------------------------
(* The flash driver under the store: bd_erase of mtb_init.c erases with    *)
(* FMC_EraseCodeArea, which FmcErase models.  For every size of the code   *)
(* area its commands tile the requested range.                             *)

EraseCommands == [size : {1, 8, 16}, at : Nat]

(* A sequence of commands that erases the sectors of S, each of them once. *)
Tiles(q, S) ==
    /\ q \in Seq(EraseCommands)
    /\ \A i \in 1 .. Len(q) : Erased(q[i]) \subseteq S
    /\ \A x \in S : \E i \in 1 .. Len(q) : x \in Erased(q[i])
    /\ \A i, j \in 1 .. Len(q) : i # j => Erased(q[i]) \cap Erased(q[j]) = {}

LEMMA TilesEmpty == Tiles(<<>>, {})
  BY DEF Tiles

LEMMA TilesConcat ==
  ASSUME NEW q, NEW r, NEW S, NEW T, Tiles(q, S), Tiles(r, T), S \cap T = {}
  PROVE  Tiles(q \o r, S \cup T)
<1> DEFINE c == q \o r
<1>1. /\ c \in Seq(EraseCommands) /\ Len(c) = Len(q) + Len(r)
      /\ Len(q) \in Nat /\ Len(r) \in Nat
      /\ \A i \in 1 .. Len(c) : c[i] = IF i <= Len(q) THEN q[i] ELSE r[i - Len(q)]
  BY ConcatProperties DEF Tiles
<1>2. \A i \in 1 .. Len(c) : IF i <= Len(q) THEN Erased(c[i]) \subseteq S
                                            ELSE Erased(c[i]) \subseteq T
  <2> SUFFICES ASSUME NEW i \in 1 .. Len(c)
               PROVE  IF i <= Len(q) THEN Erased(c[i]) \subseteq S
                                     ELSE Erased(c[i]) \subseteq T
    OBVIOUS
  <2>1. i <= Len(q) => i \in 1 .. Len(q)
    BY <1>1
  <2>2. ~(i <= Len(q)) => i - Len(q) \in 1 .. Len(r)
    BY <1>1
  <2> HIDE DEF c
  <2> QED BY <2>1, <2>2, <1>1 DEF Tiles
<1>3. ASSUME NEW x \in S \cup T
      PROVE  \E i \in 1 .. Len(c) : x \in Erased(c[i])
  <2>1. CASE x \in S
    <3>1. PICK i \in 1 .. Len(q) : x \in Erased(q[i])
      BY <2>1 DEF Tiles
    <3>2. i \in 1 .. Len(c) /\ c[i] = q[i]
      BY <1>1
    <3> QED BY <3>1, <3>2
  <2>2. CASE x \in T
    <3>1. PICK i \in 1 .. Len(r) : x \in Erased(r[i])
      BY <2>2 DEF Tiles
    <3>2. Len(q) + i \in 1 .. Len(c) /\ c[Len(q) + i] = r[i]
      <4>1. Len(q) + i \in 1 .. Len(c) /\ ~(Len(q) + i <= Len(q)) /\ Len(q) + i - Len(q) = i
        BY <1>1
      <4> HIDE DEF c
      <4> QED BY <4>1, <1>1
    <3> QED BY <3>1, <3>2
  <2> QED BY <2>1, <2>2
<1>4. ASSUME NEW i \in 1 .. Len(c), NEW j \in 1 .. Len(c), i # j
      PROVE  Erased(c[i]) \cap Erased(c[j]) = {}
  <2> HIDE DEF c
  <2>1. CASE i <= Len(q) /\ j <= Len(q)
    <3>1. i \in 1 .. Len(q) /\ j \in 1 .. Len(q) /\ c[i] = q[i] /\ c[j] = q[j]
      BY <2>1, <1>1
    <3> QED BY <3>1, <1>4 DEF Tiles
  <2>2. CASE ~(i <= Len(q)) /\ ~(j <= Len(q))
    <3>1. /\ i - Len(q) \in 1 .. Len(r) /\ j - Len(q) \in 1 .. Len(r)
          /\ i - Len(q) # j - Len(q)
          /\ c[i] = r[i - Len(q)] /\ c[j] = r[j - Len(q)]
      BY <2>2, <1>1, <1>4
    <3> QED BY <3>1 DEF Tiles
  <2>3. CASE (i <= Len(q) /\ ~(j <= Len(q))) \/ (j <= Len(q) /\ ~(i <= Len(q)))
    BY <2>3, <1>2
  <2> QED BY <2>1, <2>2, <2>3
<1>5. \A i \in 1 .. Len(c) : Erased(c[i]) \subseteq S \cup T
  BY <1>2
<1> HIDE DEF c
<1>6. Tiles(c, S \cup T)
  BY <1>1, <1>3, <1>4, <1>5 DEF Tiles
<1> QED BY <1>6 DEF c

(* A command at the start of a block erases exactly that block.            *)
LEMMA ErasedBlock ==
  ASSUME NEW z \in {1, 8, 16}, NEW a \in Nat,
         a >= z, a % z = 0, a + z <= CodeSectors + 1
  PROVE  Erased([size |-> z, at |-> a]) = a .. a + z - 1
<1>1. Erased([size |-> z, at |-> a]) =
        {i \in 0 .. CodeSectors : i \div z = a \div z}
  BY CodeSectorsAssumption DEF Erased, AllSectors
<1>2. ASSUME NEW i \in 0 .. CodeSectors
      PROVE  i \div z = a \div z <=> i \in a .. a + z - 1
  <2>1. CASE z = 1
    BY <2>1, CodeSectorsAssumption
  <2>2. CASE z = 8
    BY <2>2, CodeSectorsAssumption
  <2>3. CASE z = 16
    BY <2>3, CodeSectorsAssumption
  <2> QED BY <2>1, <2>2, <2>3
<1>3. a .. a + z - 1 \subseteq 0 .. CodeSectors
  BY CodeSectorsAssumption
<1> QED BY <1>1, <1>2, <1>3

LEMMA FmcCardinality == ASSUME NEW S PROVE Cardinality(S) = Cardinality(S)
  BY DEF Cardinality, Cardinality

(* Chunk boundaries are the multiples of the pattern from the first to the *)
(* last in the range.                                                      *)
FirstBlock(p, s) == (s + p - 1) \div p
LastBlock(p, s, n) == (s + n) \div p

LEMMA BoundaryBlocks ==
  ASSUME NEW p \in {8, 16}, NEW s \in Nat, NEW n \in Nat
  PROVE  /\ FirstBlock(p, s) \in Nat /\ LastBlock(p, s, n) \in Nat
         /\ s <= p * FirstBlock(p, s) /\ p * FirstBlock(p, s) < s + p
         /\ p * LastBlock(p, s, n) <= s + n /\ s + n < p * LastBlock(p, s, n) + p
         /\ \A k \in FirstBlock(p, s) .. LastBlock(p, s, n) :
              p * k \in Boundaries(p, s, n)
         /\ \A i \in Boundaries(p, s, n) :
              \E k \in FirstBlock(p, s) .. LastBlock(p, s, n) : i = p * k
<1>1. CASE p = 8
  <2>1. /\ FirstBlock(8, s) \in Nat /\ LastBlock(8, s, n) \in Nat
        /\ s <= 8 * FirstBlock(8, s) /\ 8 * FirstBlock(8, s) < s + 8
        /\ 8 * LastBlock(8, s, n) <= s + n /\ s + n < 8 * LastBlock(8, s, n) + 8
    BY DEF FirstBlock, LastBlock
  <2>2. ASSUME NEW k \in FirstBlock(8, s) .. LastBlock(8, s, n)
        PROVE  8 * k \in s .. s + n /\ (8 * k) % 8 = 0
    BY <2>1
  <2>3. ASSUME NEW i \in s .. s + n, i % 8 = 0
        PROVE  i \div 8 \in FirstBlock(8, s) .. LastBlock(8, s, n) /\ i = 8 * (i \div 8)
    BY <2>1, <2>3
  <2> QED BY <2>1, <2>2, <2>3, <1>1 DEF Boundaries
<1>2. CASE p = 16
  <2>1. /\ FirstBlock(16, s) \in Nat /\ LastBlock(16, s, n) \in Nat
        /\ s <= 16 * FirstBlock(16, s) /\ 16 * FirstBlock(16, s) < s + 16
        /\ 16 * LastBlock(16, s, n) <= s + n /\ s + n < 16 * LastBlock(16, s, n) + 16
    BY DEF FirstBlock, LastBlock
  <2>2. ASSUME NEW k \in FirstBlock(16, s) .. LastBlock(16, s, n)
        PROVE  16 * k \in s .. s + n /\ (16 * k) % 16 = 0
    BY <2>1
  <2>3. ASSUME NEW i \in s .. s + n, i % 16 = 0
        PROVE  i \div 16 \in FirstBlock(16, s) .. LastBlock(16, s, n) /\ i = 16 * (i \div 16)
    BY <2>1, <2>3
  <2> QED BY <2>1, <2>2, <2>3, <1>2 DEF Boundaries
<1> QED BY <1>1, <1>2

LEMMA BoundaryCount ==
  ASSUME NEW p \in {8, 16}, NEW s \in Nat, NEW n \in Nat,
         FirstBlock(p, s) <= LastBlock(p, s, n)
  PROVE  Cardinality(Boundaries(p, s, n)) = LastBlock(p, s, n) - FirstBlock(p, s) + 1
<1> DEFINE B == FirstBlock(p, s) .. LastBlock(p, s, n)
           M == Boundaries(p, s, n)
           f == [k \in B |-> p * k]
<1>1. FirstBlock(p, s) \in Nat /\ LastBlock(p, s, n) \in Nat
  BY BoundaryBlocks
<1>5. \A i \in M : \E k \in B : i = p * k
  BY BoundaryBlocks
<1>2. IsFiniteSet(B) /\ Cardinality(B) = LastBlock(p, s, n) - FirstBlock(p, s) + 1
  BY <1>1, FS_Interval
<1>3. f \in Bijection(B, M)
  <2>1. f \in [B -> M]
    BY BoundaryBlocks
  <2>2. \A k, l \in B : f[k] = f[l] => k = l
    BY <1>1
  <2>3. ASSUME NEW i \in M PROVE \E k \in B : f[k] = i
    <3> HIDE DEF B, M
    <3>1. PICK k \in B : i = p * k
      BY <2>3, <1>5
    <3> QED BY <3>1
  <2> HIDE DEF f, B, M
  <2>4. f \in Injection(B, M)
    BY <2>1, <2>2 DEF Injection, IsInjective
  <2>5. f \in Surjection(B, M)
    BY <2>1, <2>3 DEF Surjection
  <2> QED BY <2>4, <2>5 DEF Bijection
<1>4. ExistsBijection(B, M)
  BY <1>3 DEF ExistsBijection
<1> QED BY <1>2, <1>4, FS_Bijection

(* find_special_chunk_in_range: the chunk starts and ends at boundaries    *)
(* inside the range, less than a pattern from its ends.                    *)
LEMMA ChunkFound ==
  ASSUME NEW p \in {8, 16}, NEW s \in Nat \ {0}, NEW n \in Nat
  PROVE  LET a == ChunkStart(p, s, n)
             m == ChunkNum(p, s, n)
         IN  /\ a \in Nat /\ m \in Nat
             /\ m # 0 => /\ a % p = 0 /\ m % p = 0 /\ a >= p
                         /\ s <= a /\ a < s + p
                         /\ a + m <= s + n /\ s + n < a + m + p
<1> DEFINE B == Boundaries(p, s, n)
           lo == FirstBlock(p, s)
           hi == LastBlock(p, s, n)
<1>3. \A k \in lo .. hi : p * k \in B
  BY BoundaryBlocks
<1>4. \A i \in B : \E k \in lo .. hi : i = p * k
  BY BoundaryBlocks
<1>5. lo \in Nat /\ hi \in Nat
  BY BoundaryBlocks
<1>1. CASE B = {}
  BY <1>1 DEF ChunkStart, ChunkNum
<1>2. CASE B # {}
  <2>1. lo \in Nat /\ hi \in Nat /\ lo <= hi
    <3> HIDE DEF B, lo, hi
    <3>1. PICK k \in lo .. hi : TRUE
      BY <1>2, <1>4
    <3> QED BY <3>1, <1>5
  <2>2. p * lo \in B /\ \A y \in B : p * lo <= y
    <3>1. p * lo \in B
      <4>1. lo \in lo .. hi
        BY <2>1
      <4> HIDE DEF B, lo, hi
      <4> QED BY <4>1, <1>3
    <3>2. ASSUME NEW y \in B PROVE p * lo <= y
      <4>1. PICK k \in lo .. hi : y = p * k
        BY <1>4
      <4> HIDE DEF lo, hi
      <4> QED BY <4>1, <2>1
    <3> QED BY <3>1, <3>2
  <2>3. B \subseteq Nat
    BY DEF Boundaries
  <2>4. ChunkStart(p, s, n) = p * lo
    <3>1. Min(B) = p * lo
      <4> HIDE DEF B, lo, hi
      <4>1. p * lo \in Nat
        BY <2>2, <2>3
      <4>2. \A x \in B : (\A y \in B : x <= y) => x = p * lo
        BY <2>2, <2>3, <4>1
      <4> QED BY <2>2, <4>2 DEF Min
    <3> QED BY <3>1, <1>2 DEF ChunkStart
  <2>5. ChunkNum(p, s, n) = p * (hi - lo)
    <3>1. Cardinality(B) = hi - lo + 1
      BY <2>1, BoundaryCount, FmcCardinality
    <3>2. Cardinality(B) - 1 = hi - lo
      BY <2>1, <3>1
    <3>3. ChunkNum(p, s, n) = p * (Cardinality(B) - 1)
      BY <1>2 DEF ChunkNum
    <3> HIDE DEF B, lo, hi
    <3> QED BY <3>2, <3>3
  <2>6. /\ s <= p * lo /\ p * lo < s + p
        /\ p * hi <= s + n /\ s + n < p * hi + p
    BY BoundaryBlocks
  <2> HIDE DEF B, lo, hi
  <2>7. /\ p * lo \in Nat /\ p * (hi - lo) \in Nat /\ p * lo + p * (hi - lo) = p * hi
        /\ (p * lo) % p = 0 /\ (p * (hi - lo)) % p = 0
        /\ p * lo >= p
    <3>1. CASE p = 8
      BY <3>1, <2>1, <2>6
    <3>2. CASE p = 16
      BY <3>2, <2>1, <2>6
    <3> QED BY <3>1, <3>2
  <2> QED BY <2>4, <2>5, <2>6, <2>7
<1> QED BY <1>1, <1>2

(* A loop of erases of one size covers its range, block by block.          *)
LEMMA LoopTiles ==
  ASSUME NEW z \in {1, 8, 16}, NEW a \in Nat, NEW m \in Nat,
         a >= z, a % z = 0, m % z = 0, a + m <= CodeSectors + 1
  PROVE  Tiles(Erases(z, a, m), a .. a + m - 1)
<1> DEFINE q == Erases(z, a, m)
           N == m \div z
           Block(i) == a + (i - 1) * z
<1>1. N \in Nat /\ N * z = m
  <2>1. CASE z = 1
    BY <2>1
  <2>2. CASE z = 8
    BY <2>2
  <2>3. CASE z = 16
    BY <2>3
  <2> QED BY <2>1, <2>2, <2>3
<1>2. q = [i \in 1 .. N |-> [size |-> z, at |-> Block(i)]]
  BY DEF Erases
<1> HIDE DEF q, N
<1>3. ASSUME NEW i \in 1 .. N
      PROVE  /\ Block(i) \in Nat /\ Block(i) >= z /\ Block(i) % z = 0
             /\ a <= Block(i) /\ Block(i) + z <= a + m
  <2>1. CASE z = 1
    BY <2>1, <1>1
  <2>2. CASE z = 8
    BY <2>2, <1>1
  <2>3. CASE z = 16
    BY <2>3, <1>1
  <2> QED BY <2>1, <2>2, <2>3
<1>4. ASSUME NEW i \in 1 .. N, NEW j \in 1 .. N, i < j
      PROVE  Block(i) + z <= Block(j)
  <2>1. CASE z = 1
    BY <2>1, <1>4
  <2>2. CASE z = 8
    BY <2>2, <1>4
  <2>3. CASE z = 16
    BY <2>3, <1>4
  <2> QED BY <2>1, <2>2, <2>3
<1>5. ASSUME NEW x \in a .. a + m - 1
      PROVE  \E i \in 1 .. N : x \in Block(i) .. Block(i) + z - 1
  <2>1. CASE z = 1
    <3>1. x - a + 1 \in 1 .. N /\ Block(x - a + 1) = x
      BY <2>1, <1>1
    <3> QED BY <3>1, <2>1
  <2>2. CASE z = 8
    <3> DEFINE i == (x - a) \div 8 + 1
    <3>1. i \in 1 .. N /\ x \in a + (i - 1) * 8 .. a + (i - 1) * 8 + 7
      BY <2>2, <1>1
    <3> QED BY <3>1, <2>2
  <2>3. CASE z = 16
    <3> DEFINE i == (x - a) \div 16 + 1
    <3>1. i \in 1 .. N /\ x \in a + (i - 1) * 16 .. a + (i - 1) * 16 + 15
      BY <2>3, <1>1
    <3> QED BY <3>1, <2>3
  <2> QED BY <2>1, <2>2, <2>3
<1> HIDE DEF Block
<1>6. ASSUME NEW i \in 1 .. N
      PROVE  Erased(q[i]) = Block(i) .. Block(i) + z - 1
  <2>1. q[i] = [size |-> z, at |-> Block(i)]
    BY <1>2
  <2>2. Block(i) + z <= CodeSectors + 1
    BY <1>3, CodeSectorsAssumption
  <2> QED BY <2>1, <2>2, <1>3, ErasedBlock
<1>7. q \in Seq(EraseCommands) /\ Len(q) = N
  <2>1. \A i \in 1 .. N : [size |-> z, at |-> Block(i)] \in EraseCommands
    BY <1>3 DEF EraseCommands
  <2> QED BY <2>1, <1>1, <1>2
<1>8. \A i \in 1 .. N : Erased(q[i]) \subseteq a .. a + m - 1
  BY <1>3, <1>6
<1>9. \A x \in a .. a + m - 1 : \E i \in 1 .. N : x \in Erased(q[i])
  BY <1>5, <1>6
<1>10. ASSUME NEW i \in 1 .. N, NEW j \in 1 .. N, i # j
       PROVE  Erased(q[i]) \cap Erased(q[j]) = {}
  <2>1. Block(i) \in Nat /\ Block(j) \in Nat
    BY <1>3
  <2>2. CASE i < j
    BY <2>1, <2>2, <1>4, <1>6
  <2>3. CASE j < i
    BY <2>1, <2>3, <1>4, <1>6
  <2> QED BY <2>2, <2>3, <1>10
<1>11. Tiles(q, a .. a + m - 1)
  BY <1>7, <1>8, <1>9, <1>10 DEF Tiles
<1> QED BY <1>11 DEF q

(* One or no 32 KB block at an end of the 64 KB blocks.                    *)
LEMMA MaybeTiles ==
  ASSUME NEW P, NEW q, NEW S, P => Tiles(q, S)
  PROVE  Tiles(IF P THEN q ELSE <<>>, IF P THEN S ELSE {})
  BY TilesEmpty

LEMMA BlocksTile ==
  ASSUME NEW a \in Nat, NEW m \in Nat,
         a >= 8, a % 8 = 0, m % 8 = 0, a + m <= CodeSectors + 1
  PROVE  Tiles(BlockErases(a, m), a .. a + m - 1)
<1> DEFINE b == ChunkStart(16, a, m)
           k == ChunkNum(16, a, m)
           lead  == IF a % 16 # 0 THEN Erases(8, a, 8) ELSE <<>>
           trail == IF (a + m) % 16 # 0 THEN Erases(8, b + k, 8) ELSE <<>>
           L == IF a % 16 # 0 THEN a .. a + 8 - 1 ELSE {}
           T == IF (a + m) % 16 # 0 THEN b + k .. b + k + 8 - 1 ELSE {}
           M == b .. b + k - 1
<1>1. CASE k = 0
  <2>1. BlockErases(a, m) = Erases(8, a, m)
    BY <1>1 DEF BlockErases
  <2> QED BY <2>1, LoopTiles
<1>2. CASE k # 0
  <2>1. /\ b \in Nat /\ k \in Nat /\ b % 16 = 0 /\ k % 16 = 0 /\ b >= 16
        /\ a <= b /\ b < a + 16 /\ b + k <= a + m /\ a + m < b + k + 16
    <3>1. a \in Nat \ {0} /\ 16 \in {8, 16}
      OBVIOUS
    <3> QED BY <3>1, <1>2, ChunkFound
  <2>2. BlockErases(a, m) = (lead \o trail) \o Erases(16, b, k)
    BY <1>2 DEF BlockErases
  <2> HIDE DEF b, k
  <2>3. /\ b = IF a % 16 # 0 THEN a + 8 ELSE a
        /\ a + m = IF (a + m) % 16 # 0 THEN b + k + 8 ELSE b + k
    BY <2>1
  <2>4. Tiles(lead, L)
    <3>1. a % 16 # 0 => Tiles(Erases(8, a, 8), a .. a + 8 - 1)
      <4> SUFFICES ASSUME a % 16 # 0 PROVE Tiles(Erases(8, a, 8), a .. a + 8 - 1)
        OBVIOUS
      <4>1. a + 8 <= CodeSectors + 1 /\ 8 % 8 = 0
        BY <2>1, <2>3, CodeSectorsAssumption
      <4> QED BY <4>1, LoopTiles
    <3> QED BY <3>1, MaybeTiles
  <2>5. Tiles(trail, T)
    <3>1. (a + m) % 16 # 0 => Tiles(Erases(8, b + k, 8), b + k .. b + k + 8 - 1)
      <4> SUFFICES ASSUME (a + m) % 16 # 0
                   PROVE  Tiles(Erases(8, b + k, 8), b + k .. b + k + 8 - 1)
        OBVIOUS
      <4>1. /\ b + k \in Nat /\ b + k >= 8 /\ (b + k) % 8 = 0
            /\ (b + k) + 8 <= CodeSectors + 1 /\ 8 % 8 = 0
        BY <2>1, <2>3, CodeSectorsAssumption
      <4> QED BY <4>1, LoopTiles
    <3> QED BY <3>1, MaybeTiles
  <2>6. Tiles(Erases(16, b, k), M)
    <3>1. b + k <= CodeSectors + 1
      BY <2>1, CodeSectorsAssumption
    <3> QED BY <2>1, <3>1, LoopTiles
  <2>7. L \cap T = {} /\ (L \cup T) \cap M = {} /\ (L \cup T) \cup M = a .. a + m - 1
    BY <2>1, <2>3
  <2> HIDE DEF lead, trail, L, T, M
  <2>8. Tiles(lead \o trail, L \cup T)
    BY <2>4, <2>5, <2>7, TilesConcat
  <2>9. Tiles((lead \o trail) \o Erases(16, b, k), (L \cup T) \cup M)
    BY <2>6, <2>7, <2>8, TilesConcat
  <2> QED BY <2>2, <2>7, <2>9
<1> QED BY <1>1, <1>2

(* The commands of a call erase the requested sectors, each of them once.  *)
LEMMA CommandsTile ==
  ASSUME NEW s \in Nat \ {0}, NEW n \in Nat, s + n <= CodeSectors + 1
  PROVE  Tiles(Commands(s, n), s .. s + n - 1)
<1> DEFINE a == ChunkStart(8, s, n)
           m == ChunkNum(8, s, n)
           L == s .. s + (a - s) - 1
           T == a + m .. a + m + (s + n - a - m) - 1
           M == a .. a + m - 1
<1>1. CASE m = 0
  <2>1. Commands(s, n) = Erases(1, s, n)
    BY <1>1 DEF Commands
  <2>2. s \in Nat /\ s >= 1 /\ s % 1 = 0 /\ n % 1 = 0 /\ 1 \in {1, 8, 16}
    OBVIOUS
  <2> QED BY <2>1, <2>2, LoopTiles
<1>2. CASE m # 0
  <2>1. /\ a \in Nat /\ m \in Nat /\ a % 8 = 0 /\ m % 8 = 0 /\ a >= 8
        /\ s <= a /\ a + m <= s + n
    BY <1>2, ChunkFound
  <2>2. Commands(s, n) = (Erases(1, s, a - s) \o Erases(1, a + m, s + n - a - m))
                                 \o BlockErases(a, m)
    BY <1>2 DEF Commands
  <2> HIDE DEF a, m
  <2>3. Tiles(Erases(1, s, a - s), L)
    <3>1. /\ a - s \in Nat /\ s >= 1 /\ s % 1 = 0 /\ (a - s) % 1 = 0
          /\ s + (a - s) <= CodeSectors + 1 /\ s \in Nat /\ 1 \in {1, 8, 16}
      BY <2>1, CodeSectorsAssumption
    <3> QED BY <3>1, LoopTiles
  <2>4. Tiles(Erases(1, a + m, s + n - a - m), T)
    <3>1. /\ s + n - a - m \in Nat /\ a + m \in Nat /\ a + m >= 1 /\ (a + m) % 1 = 0
          /\ (s + n - a - m) % 1 = 0 /\ (a + m) + (s + n - a - m) <= CodeSectors + 1
          /\ 1 \in {1, 8, 16}
      BY <2>1, CodeSectorsAssumption
    <3> QED BY <3>1, LoopTiles
  <2>5. Tiles(BlockErases(a, m), M)
    <3>1. a + m <= CodeSectors + 1
      BY <2>1, CodeSectorsAssumption
    <3> QED BY <2>1, <3>1, BlocksTile
  <2>6. L \cap T = {} /\ (L \cup T) \cap M = {} /\ (L \cup T) \cup M = s .. s + n - 1
    BY <2>1
  <2> HIDE DEF L, T, M
  <2>7. Tiles(Erases(1, s, a - s) \o Erases(1, a + m, s + n - a - m), L \cup T)
    BY <2>3, <2>4, <2>6, TilesConcat
  <2>8. Tiles((Erases(1, s, a - s) \o Erases(1, a + m, s + n - a - m))
                \o BlockErases(a, m), (L \cup T) \cup M)
    BY <2>5, <2>6, <2>7, TilesConcat
  <2> QED BY <2>2, <2>6, <2>8
<1> QED BY <1>1, <1>2

LEMMA TilesTail ==
  ASSUME NEW q, NEW S, Tiles(q, S), q # <<>>
  PROVE  /\ Erased(Head(q)) \subseteq S
         /\ Tiles(Tail(q), S \ Erased(Head(q)))
<1> DEFINE t == Tail(q)
<1>1. /\ q \in Seq(EraseCommands) /\ Len(q) \in Nat /\ Len(q) >= 1 /\ Head(q) = q[1]
      /\ t \in Seq(EraseCommands) /\ Len(t) = Len(q) - 1
      /\ \A i \in 1 .. Len(t) : t[i] = q[i + 1]
  BY HeadTailProperties, EmptySeq, LenProperties DEF Tiles
<1> HIDE DEF t
<1>2. 1 \in 1 .. Len(q) /\ \A i \in 1 .. Len(t) : i + 1 \in 1 .. Len(q) /\ i + 1 # 1
  BY <1>1
<1>3. Erased(Head(q)) \subseteq S
  BY <1>1, <1>2 DEF Tiles
<1>4. \A i \in 1 .. Len(t) : Erased(t[i]) \subseteq S \ Erased(Head(q))
  BY <1>1, <1>2 DEF Tiles
<1>5. ASSUME NEW x \in S, x \notin Erased(Head(q))
      PROVE  \E i \in 1 .. Len(t) : x \in Erased(t[i])
  <2>1. PICK i \in 1 .. Len(q) : x \in Erased(q[i])
    BY DEF Tiles
  <2>2. i - 1 \in 1 .. Len(t) /\ (i - 1) + 1 = i
    BY <2>1, <1>1, <1>5
  <2>3. t[i - 1] = q[i]
    BY <2>2, <1>1
  <2> QED BY <2>1, <2>2, <2>3
<1>6. ASSUME NEW i \in 1 .. Len(t), NEW j \in 1 .. Len(t), i # j
      PROVE  Erased(t[i]) \cap Erased(t[j]) = {}
  <2>1. i + 1 # j + 1
    BY <1>6, <1>1
  <2>2. i + 1 \in 1 .. Len(q) /\ j + 1 \in 1 .. Len(q)
    BY <1>2
  <2>3. Erased(q[i + 1]) \cap Erased(q[j + 1]) = {}
    BY <2>1, <2>2 DEF Tiles
  <2>4. t[i] = q[i + 1] /\ t[j] = q[j + 1]
    BY <1>1
  <2> QED BY <2>3, <2>4
<1>7. Tiles(t, S \ Erased(Head(q)))
  BY <1>1, <1>4, <1>5, <1>6 DEF Tiles
<1> QED BY <1>3, <1>7 DEF t

(* The inductive invariant: the commands left erase what is left to erase, *)
(* each sector once.                                                       *)
FmcInv ==
    /\ result \in {"none", "busy", "ok", "fail"}
    /\ IF result = "none" THEN start = 0 /\ num = 0
                             ELSE start \in Nat \ {0} /\ num \in Nat
    /\ result \in {"none", "fail"} => erased = {}
    /\ result = "busy" => /\ erased \subseteq Requested
                             /\ Tiles(cmds, Requested \ erased)
    /\ result = "ok" => erased = Requested

LEMMA FmcInvInit == FmcInit => FmcInv
  BY DEF FmcInit, FmcInv

LEMMA FmcInvNext ==
  ASSUME FmcInv, [FmcNext]_fmcVars
  PROVE  FmcInv'
<1>1. ASSUME NEW a \in 0 .. CodeSectors, NEW n \in 0 .. CodeSectors + 1, EraseCodeArea(a, n)
      PROVE  FmcInv'
  <2>1. a + 1 \in Nat \ {0} /\ n \in Nat /\ erased = {} /\ erased' = {}
        /\ start' = a + 1 /\ num' = n
    BY <1>1, CodeSectorsAssumption DEF FmcInv, EraseCodeArea
  <2>2. CASE a + 1 + n > CodeSectors + 1
    BY <1>1, <2>1, <2>2 DEF FmcInv, EraseCodeArea
  <2>3. CASE ~(a + 1 + n > CodeSectors + 1)
    <3>1. result' = "busy" /\ cmds' = Commands(a + 1, n)
      BY <1>1, <2>3 DEF EraseCodeArea
    <3>2. (a + 1) + n <= CodeSectors + 1
      BY <2>1, <2>3, CodeSectorsAssumption
    <3>3. Tiles(Commands(a + 1, n), (a + 1) .. (a + 1) + n - 1)
      BY <2>1, <3>2, CommandsTile
    <3>4. Requested' \ erased' = (a + 1) .. (a + 1) + n - 1
      BY <2>1 DEF Requested
    <3>5. Tiles(cmds, Requested \ erased)'
      <4>1. Tiles(cmds', Requested' \ erased')
        BY <3>1, <3>3, <3>4
      <4> QED BY <4>1 DEF Tiles
    <3> QED BY <2>1, <3>1, <3>5 DEF FmcInv
  <2> QED BY <2>2, <2>3
<1>2. CASE IssueErase
  <2>1. /\ result = "busy" /\ cmds # <<>>
        /\ erased \subseteq Requested
        /\ Tiles(cmds, Requested \ erased)
    BY <1>2 DEF FmcInv, IssueErase
  <2>2. /\ erased' = erased \cup Erased(Head(cmds))
        /\ cmds' = Tail(cmds)
        /\ result' = result /\ start' = start /\ num' = num
        /\ Requested' = Requested
    BY <1>2 DEF IssueErase, Requested
  <2>3. /\ Erased(Head(cmds)) \subseteq Requested \ erased
        /\ Tiles(Tail(cmds), (Requested \ erased) \ Erased(Head(cmds)))
    BY <2>1, TilesTail
  <2>4. (Requested \ erased) \ Erased(Head(cmds)) = Requested' \ erased'
    BY <2>2
  <2>5. Tiles(cmds, Requested \ erased)'
    <3>1. Tiles(cmds', Requested' \ erased')
      BY <2>2, <2>3, <2>4
    <3> QED BY <3>1 DEF Tiles
  <2>6. erased' \subseteq Requested'
    BY <2>1, <2>2, <2>3
  <2> QED BY <2>1, <2>2, <2>5, <2>6 DEF FmcInv
<1>3. CASE Finish
  <2>1. /\ erased \subseteq Requested
        /\ Tiles(<<>>, Requested \ erased)
        /\ result' = "ok" /\ erased' = erased
        /\ start' = start /\ num' = num /\ Requested' = Requested
        /\ start \in Nat \ {0} /\ num \in Nat
    BY <1>3 DEF FmcInv, Finish, Requested
  <2>2. Requested \ erased = {}
    BY <2>1 DEF Tiles
  <2> QED BY <2>1, <2>2 DEF FmcInv
<1>4. CASE UNCHANGED fmcVars
  BY <1>4 DEF FmcInv, fmcVars, Tiles, Requested
<1> QED BY <1>1, <1>2, <1>3, <1>4 DEF FmcNext

(* For every size of the code area and every call: whatever mix of 4, 32   *)
(* and 64 KB commands FMC_EraseCodeArea chooses, no sector outside the     *)
(* requested range is erased, never the info area, and a call that         *)
(* succeeds has erased the whole range.                                    *)
THEOREM ErasesExactlyAlways == FmcSpec => []ErasesExactly
<1>1. FmcInit => FmcInv
  BY FmcInvInit
<1>2. FmcInv /\ [FmcNext]_fmcVars => FmcInv'
  BY FmcInvNext
<1>3. FmcInv => ErasesExactly
  <2> SUFFICES ASSUME FmcInv PROVE ErasesExactly
    OBVIOUS
  <2>1. 0 \notin Requested
    BY DEF FmcInv, Requested
  <2> QED BY <2>1 DEF FmcInv, ErasesExactly, InfoSector
<1> QED BY <1>1, <1>2, <1>3, PTL DEF FmcSpec

(* An action property of FMC_EraseCodeArea: no command touches a sector    *)
(* that an earlier command of the same call erased.                        *)
THEOREM ErasesOnceAlways == FmcSpec => ErasesOnce
<1>1. FmcInit => FmcInv
  BY FmcInvInit
<1>2. FmcInv /\ [FmcNext]_fmcVars => FmcInv'
  BY FmcInvNext
<1>3. FmcInv => [result = "busy" /\ cmds # <<>> /\ cmds' = Tail(cmds) =>
                     Erased(Head(cmds)) \cap erased = {}]_fmcVars
  <2> SUFFICES ASSUME FmcInv, result = "busy", cmds # <<>>
               PROVE  Erased(Head(cmds)) \cap erased = {}
    OBVIOUS
  <2>1. Tiles(cmds, Requested \ erased)
    BY DEF FmcInv
  <2>2. Erased(Head(cmds)) \subseteq Requested \ erased
    BY <2>1, TilesTail
  <2> QED BY <2>2
<1> QED BY <1>1, <1>2, <1>3, PTL DEF FmcSpec, ErasesOnce
=============================================================================
