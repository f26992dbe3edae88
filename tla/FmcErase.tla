------------------------------ MODULE FmcErase ------------------------------
(***************************************************************************)
(* FMC_EraseCodeArea of pan_fmc.c: erase a range of 4 KB sectors of the    *)
(* code area with as few flash commands as possible, 64 KB and 32 KB block *)
(* erases in the middle and sector erases at both ends.                    *)
(*                                                                         *)
(* Sectors are physical: sector 0 holds the chip's info area and the code  *)
(* area starts at sector 1, which is why the blocks, aligned to physical   *)
(* sectors, start at code addresses 0x7000, 0xF000, 0x17000...             *)
(* One action is one flash command.  The specification's names begin with  *)
(* fmc, so that a module can extend this one and the store's.              *)
(***************************************************************************)
EXTENDS Naturals, Sequences, FiniteSetsExt

CONSTANT CodeSectors      \* sectors of the code area

ASSUME CodeSectorsAssumption == CodeSectors \in Nat \ {0}

VARIABLES
    start, num,     \* start_phy_sector_idx, sector_num of the call
    cmds,           \* erase commands not yet issued, in the code's order
    erased,         \* physical sectors erased by this call
    result          \* "none" before the call, "busy", "ok" or "fail"

fmcVars == <<start, num, cmds, erased, result>>

InfoSector == 0
AllSectors == 0 .. CodeSectors

(* find_special_chunk_in_range: chunk boundaries lie on multiples of       *)
(* pattern inside the range, its end included; the first one starts the    *)
(* chunk and each further one extends it.                                  *)
Boundaries(pattern, s, n) == {i \in s .. s + n : i % pattern = 0}

ChunkStart(pattern, s, n) ==
    IF Boundaries(pattern, s, n) = {} THEN 0 ELSE Min(Boundaries(pattern, s, n))

ChunkNum(pattern, s, n) ==
    IF Boundaries(pattern, s, n) = {} THEN 0
    ELSE pattern * (Cardinality(Boundaries(pattern, s, n)) - 1)

(* A loop of n / size erases of size sectors each, from sector s on.       *)
Erases(size, s, n) == [i \in 1 .. n \div size |-> [size |-> size, at |-> s + (i - 1) * size]]

(* Mutant: the trailing 32 KB block is looked for behind the sectors.      *)
BlockErases_WrongTail(s32, n32) ==
    LET s64 == ChunkStart(16, s32, n32)
        n64 == ChunkNum(16, s32, n32)
    IN  IF n64 = 0 THEN Erases(8, s32, n32)
        ELSE (IF s32 % 16 # 0 THEN Erases(8, s32, 8) ELSE <<>>)
             \o (IF (s32 + n32) % 16 # 0 THEN Erases(8, s32 + n32, 8) ELSE <<>>)
             \o Erases(16, s64, n64)

(* The block erases for the 32 KB chunk: 64 KB blocks inside it, a 32 KB   *)
(* block before and after them where the chunk starts or ends half way.    *)
BlockErases(s32, n32) ==
    LET s64 == ChunkStart(16, s32, n32)
        n64 == ChunkNum(16, s32, n32)
    IN  IF n64 = 0 THEN Erases(8, s32, n32)
        ELSE (IF s32 % 16 # 0 THEN Erases(8, s32, 8) ELSE <<>>)
             \o (IF (s32 + n32) % 16 # 0 THEN Erases(8, s64 + n64, 8) ELSE <<>>)
             \o Erases(16, s64, n64)

(* Mutant: the leading loop runs into the block chunk.                     *)
Commands_LongLead(s, n) ==
    LET s32 == ChunkStart(8, s, n)
        n32 == ChunkNum(8, s, n)
    IN  IF n32 = 0 THEN Erases(1, s, n)
        ELSE Erases(1, s, s32 - s + 1)
             \o Erases(1, s32 + n32, s + n - s32 - n32)
             \o BlockErases(s32, n32)

Commands(s, n) ==
    LET s32 == ChunkStart(8, s, n)
        n32 == ChunkNum(8, s, n)
    IN  IF n32 = 0 THEN Erases(1, s, n)
        ELSE Erases(1, s, s32 - s)
             \o Erases(1, s32 + n32, s + n - s32 - n32)
             \o BlockErases(s32, n32)

(* What a command erases: the aligned block around its address.  The       *)
(* driver refuses block erases that would reach the info area, and         *)
(* addresses beyond the code area.                                         *)
Erased(c) ==
    IF c.at > CodeSectors \/ (c.size > 1 /\ c.at < c.size) THEN {}
    ELSE {i \in AllSectors : i \div c.size = c.at \div c.size}

FmcInit ==
    /\ start = 0 /\ num = 0
    /\ cmds = <<>>
    /\ erased = {}
    /\ result = "none"

(* The call for n sectors from code sector a on, its range check first.    *)
EraseCodeArea(a, n) ==
    /\ result = "none"
    /\ start' = a + 1
    /\ num' = n
    /\ IF a + 1 + n > CodeSectors + 1
       THEN cmds' = <<>> /\ result' = "fail"
       ELSE cmds' = Commands(a + 1, n) /\ result' = "busy"
    /\ UNCHANGED erased

IssueErase ==
    /\ result = "busy" /\ cmds # <<>>
    /\ erased' = erased \cup Erased(Head(cmds))
    /\ cmds' = Tail(cmds)
    /\ UNCHANGED <<start, num, result>>

Finish ==
    /\ result = "busy" /\ cmds = <<>>
    /\ result' = "ok"
    /\ UNCHANGED <<start, num, cmds, erased>>

FmcNext ==
    \/ \E a \in 0 .. CodeSectors, n \in 0 .. CodeSectors + 1 : EraseCodeArea(a, n)
    \/ IssueErase
    \/ Finish

FmcSpec == FmcInit /\ [][FmcNext]_fmcVars

-----------------------------------------------------------------------------
Requested == start .. start + num - 1

(* Whatever mix of commands is chosen, no sector outside the requested     *)
(* range is ever erased, not a neighbour and never the info area, and a    *)
(* successful call has erased the whole range.                             *)
ErasesExactly ==
    /\ erased \subseteq Requested \ {InfoSector}
    /\ result = "ok" => erased = Requested

(* No sector is erased twice by one call: every command works on sectors   *)
(* that no earlier command of the call touched.                            *)
ErasesOnce == [][result = "busy" /\ cmds # <<>> /\ cmds' = Tail(cmds) =>
                   Erased(Head(cmds)) \cap erased = {}]_fmcVars
=============================================================================
