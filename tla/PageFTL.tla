------------------------------ MODULE PageFTL -------------------------------
(***************************************************************************)
(* The page-mapping flash translation layer of Lab #2 (HW2_Submit/ftl.c).  *)
(* Every bank maps its logical pages to physical pages (L2P), appends      *)
(* writes at next_ppn and, when next_ppn reaches gc_trigger_ppn, moves the  *)
(* valid pages of the block with most invalid ones to the free block.      *)
(*                                                                         *)
(* The program is one thread, so a call is a run of steps that nothing     *)
(* interrupts: pc names the loop the call is in, pp the page of the        *)
(* request it has come to, and a loop iteration is a step.  Sectors are    *)
(* opaque; the buffers are functions of the sector's address.  A definition *)
(* marked "mutant" is a plausible bug of the one below it: it is there to  *)
(* show that the properties notice, and nothing uses it.                   *)
(***************************************************************************)
EXTENDS Integers, FiniteSets

CONSTANTS
    N_BANKS, BLKS_PER_BANK, PAGES_PER_BLK, SECTORS_PER_PAGE,
    OP_RATIO,   \* over-provisioning, in percent
    Word,       \* what the host may store in a sector
    Blank,      \* 0xFFFFFFFF
    Junk,       \* whatever an uninitialised word holds
    Erased,     \* a page that is not written
    MaxSect     \* bound: sectors of a request

ASSUME FTLAssumption ==
    /\ N_BANKS \in Nat \ {0}
    /\ BLKS_PER_BANK \in Nat /\ BLKS_PER_BANK > 1
    /\ PAGES_PER_BLK \in Nat \ {0}
    /\ SECTORS_PER_PAGE \in Nat \ {0}
    /\ OP_RATIO \in Nat \ {0}
    /\ MaxSect \in Nat

INSTANCE Nand

\* ftl.h: one block is kept for garbage collection, and OP_RATIO percent of
\* what the user sees is kept back.
N_GC_BLOCKS      == 1
NoOverProvision  == BLKS_PER_BANK - N_GC_BLOCKS             \* mutant
N_USER_BLOCKS_PB == ((BLKS_PER_BANK - N_GC_BLOCKS) * 100) \div (100 + OP_RATIO)
N_LPNS_PB        == N_USER_BLOCKS_PB * PAGES_PER_BLK
N_LPNS           == N_LPNS_PB * N_BANKS
N_SECTORS        == N_LPNS * SECTORS_PER_PAGE

Banks      == 0 .. N_BANKS - 1
HalvedLpns == 0 .. N_LPNS_PB - 1     \* a bank's logical pages
Offsets    == 0 .. SECTORS_PER_PAGE - 1

VARIABLES
    nand,               \* nand[bank], the chip (module Nand)
    L2P, isValid,       \* the mapping and the page states
    next_ppn,           \* next_ppn[bank]: where the next page goes
    gc_trigger_ppn,     \* gc_trigger_ppn[bank]: where writing has to stop
    free_pblk,          \* free_pblk[bank]: the erased block
    req,                \* the call: op, lba, nsect and the host's buffer
    pc, pp,             \* the loop the call is in, and its page
    data,               \* the page buffer of ftl_read and ftl_write
    gc,                 \* the locals of garbage_collection
    rbuf                \* read_buffer

ftlVars  == <<nand, L2P, isValid, next_ppn, gc_trigger_ppn, free_pblk>>
callVars == <<req, pc, pp, data, gc, rbuf>>
vars     == <<ftlVars, callVars>>

SectorsFrom(lba, nsect) == lba .. lba + nsect - 1
Idle == [op |-> "idle", lba |-> 0, nsect |-> 0, buf |-> <<>>]
NoGC == [victim_pblk |-> 0, i |-> 0, immigrants_cnt |-> 0]

\* ftl_open.  nand_init leaves every page erased; no page is invalid.
Init ==
    /\ nand = [bank \in Banks |-> EmptyBank]
    /\ L2P = [bank \in Banks |-> [lpn \in HalvedLpns |-> -1]]
    /\ isValid = [bank \in Banks |-> [ppn \in Ppns |-> 1]]
    /\ next_ppn = [bank \in Banks |-> 0]
    /\ free_pblk = [bank \in Banks |-> BLKS_PER_BANK - 1]
    /\ gc_trigger_ppn = [bank \in Banks |-> (BLKS_PER_BANK - 1) * PAGES_PER_BLK]
    /\ req = Idle /\ pc = "idle" /\ pp = 0
    /\ data = [i \in Offsets |-> Junk]
    /\ gc = NoGC
    /\ rbuf = <<>>

-----------------------------------------------------------------------------
\* Pages of the request.

\* send_kazu: pages the request touches.  The division rounds down, so an
\* empty request touches none if it starts a page and one otherwise.
send_kazu ==
    (req.lba + req.nsect - 1) \div SECTORS_PER_PAGE - req.lba \div SECTORS_PER_PAGE + 1

lpn        == pp + req.lba \div SECTORS_PER_PAGE
bank       == lpn % N_BANKS
halved_lpn == lpn \div N_BANKS

LbaAt(i)     == lpn * SECTORS_PER_PAGE + i
InRequest(i) == LbaAt(i) \in SectorsFrom(req.lba, req.nsect)

\* The page of a bank at ppn, as nand_read leaves it in a page buffer.
ReadPage(b, ppn, buffer) ==
    NandRead(nand[b], BlkOf(ppn), PageOf(ppn), [data |-> buffer, spare |-> 0]).data

\* The driver: a request inside the disk, as the assertion of ftl_test.c has it
\* (which also lets an empty one at its very end pass: it touches no page).
Submit ==
    /\ pc = "idle"
    /\ \E lba \in 0 .. N_SECTORS - 1, nsect \in 0 .. MaxSect :
        /\ lba + nsect <= N_SECTORS
        /\ \/ /\ req' = [op |-> "read", lba |-> lba, nsect |-> nsect, buf |-> <<>>]
              /\ pc' = "read"
              /\ rbuf' = [s \in SectorsFrom(lba, nsect) |-> Junk]
           \/ \E buf \in [SectorsFrom(lba, nsect) -> Word] :
              /\ req' = [op |-> "write", lba |-> lba, nsect |-> nsect, buf |-> buf]
              /\ pc' = "write"
              /\ rbuf' = <<>>
    /\ UNCHANGED <<ftlVars, pp, data, gc>>

Return ==
    /\ pc \in {"read", "write"}
    /\ pp = send_kazu
    /\ req' = Idle
    /\ pc' = "idle"
    /\ pp' = 0
    /\ data' = [i \in Offsets |-> Junk]
    /\ rbuf' = <<>>
    /\ UNCHANGED <<ftlVars, gc>>

-----------------------------------------------------------------------------
\* The loop of ftl_read.

\* sector_kazu is one sector short on the last of several pages, so the blank
\* fill stops before the last sector there.
BlankFilled(i) ==
    InRequest(i) /\ ~(send_kazu > 1 /\ pp = send_kazu - 1
                      /\ LbaAt(i) = req.lba + req.nsect - 1)

FetchPage ==
    /\ pc = "read"
    /\ pp < send_kazu
    /\ LET ppn == L2P[bank][halved_lpn] IN
       \/ /\ ppn = -1
          /\ rbuf' = [s \in DOMAIN rbuf |->
                        IF \E i \in Offsets : s = LbaAt(i) /\ BlankFilled(i)
                        THEN Blank ELSE rbuf[s]]
          /\ UNCHANGED data
       \/ /\ ppn # -1
          /\ data' = ReadPage(bank, ppn, data)
          /\ rbuf' = [s \in DOMAIN rbuf |->
                        IF s \div SECTORS_PER_PAGE = lpn
                        THEN data'[s % SECTORS_PER_PAGE] ELSE rbuf[s]]
    /\ pp' = pp + 1
    /\ UNCHANGED <<ftlVars, req, pc, gc>>

-----------------------------------------------------------------------------
\* The loop of ftl_write, write_through_lpn and garbage_collection.

\* One page is packed: what the request does not cover keeps its old contents,
\* or becomes blank if the page was never written.
AlwaysBlank == [i \in Offsets |-> Blank]                    \* mutant
OldContents ==
    IF L2P[bank][halved_lpn] = -1 THEN [i \in Offsets |-> Blank]
    ELSE ReadPage(bank, L2P[bank][halved_lpn], data)

PackPage ==
    /\ pc = "write"
    /\ pp < send_kazu
    /\ data' = [i \in Offsets |-> IF InRequest(i) THEN req.buf[LbaAt(i)]
                                 ELSE OldContents[i]]
    /\ pc' = "write_through"
    /\ UNCHANGED <<ftlVars, req, pp, gc, rbuf>>

InvalidCount(b, blk) ==
    Cardinality({page \in Pages : isValid[b][Ppn(blk, page)] = 0})

\* The loop runs downwards and keeps the last maximum: the lowest block wins.
get_victim_pblk(b) ==
    CHOOSE victim \in Blks : \A blk \in Blks :
        \/ InvalidCount(b, blk) < InvalidCount(b, victim)
        \/ InvalidCount(b, blk) = InvalidCount(b, victim) /\ victim <= blk

NeverAtTrigger(b) == FALSE                                 \* mutant
AtTrigger(b)      == next_ppn[b] = gc_trigger_ppn[b]

GCStart ==
    /\ pc = "write_through"
    /\ AtTrigger(bank)
    /\ gc' = [victim_pblk |-> get_victim_pblk(bank), i |-> 0, immigrants_cnt |-> 0]
    /\ pc' = "gc"
    /\ UNCHANGED <<ftlVars, req, pp, data, rbuf>>

\* What nand_read leaves in tmp_data and tmp_lpn, uninitialised before.
TmpPage(ppn) ==
    IF nand[bank].cell[ppn] = Erased
    THEN [data : {[i \in Offsets |-> Junk]}, spare : HalvedLpns]
    ELSE {nand[bank].cell[ppn]}

\* The copy of page tmp at ppn becomes the mapped one.
NotRemapped(tmp, ppn) == L2P                               \* mutant
Remapped(tmp, ppn)    == [L2P EXCEPT ![bank][tmp.spare] = ppn]

\* An invalid page is passed over.
SkipInvalid == gc' = [gc EXCEPT !.i = @ + 1] /\ UNCHANGED <<nand, L2P>>

GCCopy ==
    /\ pc = "gc"
    /\ gc.i < PAGES_PER_BLK
    /\ LET victim_ppn == Ppn(gc.victim_pblk, gc.i) IN
       IF isValid[bank][victim_ppn] = 1
       THEN \E tmp \in TmpPage(victim_ppn) :
              /\ nand' = [nand EXCEPT ![bank] =
                            NandWrite(@, free_pblk[bank], gc.immigrants_cnt, tmp)]
              /\ L2P' = Remapped(tmp, Ppn(free_pblk[bank], gc.immigrants_cnt))
              /\ gc' = [gc EXCEPT !.i = @ + 1, !.immigrants_cnt = @ + 1]
       ELSE SkipInvalid
    /\ UNCHANGED <<isValid, next_ppn, gc_trigger_ppn, free_pblk>>
    /\ UNCHANGED <<req, pc, pp, data, rbuf>>

\* The pages of the victim start anew.
NotRefreshed(b, blk) == isValid[b]                         \* mutant
Refreshed(b, blk)    ==
    [ppn \in Ppns |-> IF BlkOf(ppn) = blk THEN 1 ELSE isValid[b][ppn]]

GCFinish ==
    /\ pc = "gc"
    /\ gc.i = PAGES_PER_BLK
    /\ isValid' = [isValid EXCEPT ![bank] = Refreshed(bank, gc.victim_pblk)]
    /\ next_ppn' = [next_ppn EXCEPT ![bank] = Ppn(free_pblk[bank], gc.immigrants_cnt)]
    /\ gc_trigger_ppn' = [gc_trigger_ppn EXCEPT ![bank] =
                            Ppn(free_pblk[bank], PAGES_PER_BLK)]
    /\ nand' = [nand EXCEPT ![bank] = NandErase(@, gc.victim_pblk)]
    /\ free_pblk' = [free_pblk EXCEPT ![bank] = gc.victim_pblk]
    /\ gc' = NoGC
    /\ pc' = "program"
    /\ UNCHANGED <<L2P, req, pp, data, rbuf>>

\* The rest of write_through_lpn: the old copy is invalidated, the new one
\* written.  The return code of nand_write is not looked at.
NotInvalidated(b, old) == isValid                          \* mutant
Invalidated(b, old)    == IF old = -1 THEN isValid ELSE [isValid EXCEPT ![b][old] = 0]

AboutToProgram == pc = "program" \/ (pc = "write_through" /\ ~AtTrigger(bank))

Program ==
    /\ AboutToProgram
    /\ LET ppn == next_ppn[bank]
       IN /\ isValid' = Invalidated(bank, L2P[bank][halved_lpn])
          /\ L2P' = [L2P EXCEPT ![bank][halved_lpn] = ppn]
          /\ nand' = [nand EXCEPT ![bank] =
                        NandWrite(@, BlkOf(ppn), PageOf(ppn),
                                  [data |-> data, spare |-> halved_lpn])]
          /\ next_ppn' = [next_ppn EXCEPT ![bank] = ppn + 1]
    /\ pc' = "write"
    /\ pp' = pp + 1
    /\ UNCHANGED <<gc_trigger_ppn, free_pblk, req, data, gc, rbuf>>

Step ==
    \/ FetchPage
    \/ PackPage
    \/ GCStart
    \/ GCCopy
    \/ GCFinish
    \/ Program
    \/ Return

Next == Submit \/ Step

Spec == Init /\ [][Next]_vars

-----------------------------------------------------------------------------
\* Properties.

InGC(b) == pc = "gc" /\ b = bank
Written(b, ppn) == nand[b].cell[ppn] # Erased

DataWord == Word \cup {Blank, Junk}
Page == [data : [Offsets -> DataWord], spare : HalvedLpns]
Chip == [cell : [Ppns -> Page \cup {Erased}], blk_index : [Blks -> 0 .. PAGES_PER_BLK]]

ASSUME ErasedIsNoPage == Erased \notin Page

\* The types of the tables of ftl.c:20-24 and of the locals of a call.
TypeOK ==
    /\ nand \in [Banks -> Chip]
    /\ L2P \in [Banks -> [HalvedLpns -> Ppns \cup {-1}]]
    /\ isValid \in [Banks -> [Ppns -> {0, 1}]]
    /\ next_ppn \in [Banks -> Ppns \cup {BLKS_PER_BANK * PAGES_PER_BLK}]
    /\ gc_trigger_ppn \in [Banks -> Ppns \cup {BLKS_PER_BANK * PAGES_PER_BLK}]
    /\ free_pblk \in [Banks -> Blks]
    /\ req.op \in {"idle", "read", "write"}
    /\ req.lba \in Nat /\ req.nsect \in Nat
    /\ req.op = "write" => req.buf \in [SectorsFrom(req.lba, req.nsect) -> Word]
    /\ pc \in {"idle", "read", "write", "write_through", "gc", "program"}
    /\ pp \in Nat
    /\ data \in [Offsets -> DataWord]
    /\ gc \in [victim_pblk : Blks, i : 0 .. PAGES_PER_BLK, immigrants_cnt : 0 .. PAGES_PER_BLK]

\* L2P leads to a written page that carries the logical page it is mapped for
\* and counts as valid, in every state of every call: a page is remapped only
\* to a copy that exists, and garbage collection erases only what was moved.
MappedPagesAreCurrent ==
    \A b \in Banks, l \in HalvedLpns :
        LET ppn == L2P[b][l] IN
        ppn # -1 => /\ Written(b, ppn)
                    /\ nand[b].cell[ppn].spare = l
                    /\ isValid[b][ppn] = 1

\* The other way round: a written page that counts as valid is the mapped copy
\* of its logical page.  Garbage collection copies by isValid alone, so a stale
\* page left valid would be brought back to life (ftl.c:144).  Pages the running
\* collection has already moved are the only exception.
Moved(b, ppn) == InGC(b) /\ BlkOf(ppn) = gc.victim_pblk /\ PageOf(ppn) < gc.i
ValidPagesAreMapped ==
    \A b \in Banks, ppn \in Ppns :
        Written(b, ppn) /\ isValid[b][ppn] = 1 /\ ~Moved(b, ppn)
            => L2P[b][nand[b].cell[ppn].spare] = ppn

\* The codes nand_write returns are ignored (ftl.c:149, 299).  They may be: a
\* page is always programmed at the next position of a block that has room.
ProgramsSucceed ==
    /\ AboutToProgram
         => WriteCode(nand[bank], BlkOf(next_ppn[bank]), PageOf(next_ppn[bank])) = "SUCCESS"
    /\ pc = "gc" /\ gc.i < PAGES_PER_BLK
         => WriteCode(nand[bank], free_pblk[bank], gc.immigrants_cnt) = "SUCCESS"

\* A collection always has something to reclaim and never picks the free block,
\* which get_victim_pblk considers like any other (ftl.c:106).
CollectionReclaims ==
    pc = "gc" => /\ gc.victim_pblk # free_pblk[bank]
                 /\ \E page \in Pages : isValid[bank][Ppn(gc.victim_pblk, page)] = 0

\* The invariant these follow from; its parts are what the code never checks.
\* The bank's pages are written except for the free block and the stretch from
\* next_ppn to gc_trigger_ppn, which lies outside the free block.
Frontier(b) ==
    /\ next_ppn[b] <= gc_trigger_ppn[b]
    /\ \A ppn \in next_ppn[b] .. gc_trigger_ppn[b] - 1 : BlkOf(ppn) # free_pblk[b]
    /\ \A ppn \in Ppns : BlkOf(ppn) # free_pblk[b] =>
         (Written(b, ppn) <=> ~(next_ppn[b] <= ppn /\ ppn < gc_trigger_ppn[b]))

\* The free block holds the pages a running collection has moved there.
FreeBlock(b) ==
    \A ppn \in Ppns : BlkOf(ppn) = free_pblk[b] =>
        /\ isValid[b][ppn] = 1
        /\ Written(b, ppn) <=> InGC(b) /\ PageOf(ppn) < gc.immigrants_cnt

\* iswritten and blk_index agree, and only written pages are invalid.
ChipInv(b) ==
    \A ppn \in Ppns :
        /\ Written(b, ppn) <=> PageOf(ppn) < nand[b].blk_index[BlkOf(ppn)]
        /\ isValid[b][ppn] = 0 => Written(b, ppn)

\* Nothing is mapped to a page that has been moved already.
NoMovedPageMapped ==
    \A b \in Banks, l \in HalvedLpns : L2P[b][l] # -1 => ~Moved(b, L2P[b][l])

\* A collection runs on a full bank, and has room as long as it has skipped an
\* invalid page or has one to come.
GCInv ==
    pc = "gc" =>
        /\ next_ppn[bank] = gc_trigger_ppn[bank]
        /\ gc.immigrants_cnt <= gc.i
        /\ gc.immigrants_cnt = gc.i =>
             \A page \in 0 .. gc.i - 1 : isValid[bank][Ppn(gc.victim_pblk, page)] = 1

\* A request lies on the disk, and a step that deals with a page is on a page of it.
CallInv ==
    /\ pc = "idle" <=> req.op = "idle"
    /\ pc = "read" <=> req.op = "read"
    /\ req.op # "idle" => req.lba < N_SECTORS /\ req.lba + req.nsect <= N_SECTORS
    /\ pc \in {"write_through", "gc", "program"} => pp < send_kazu
    /\ pc = "program" => next_ppn[bank] < gc_trigger_ppn[bank]

IndInv ==
    /\ TypeOK
    /\ MappedPagesAreCurrent
    /\ ValidPagesAreMapped
    /\ CollectionReclaims
    /\ \A b \in Banks : Frontier(b) /\ FreeBlock(b) /\ ChipInv(b)
    /\ NoMovedPageMapped
    /\ GCInv
    /\ CallInv

\* The sector at lba, through the mapping.
SectorAt(lba) ==
    LET l   == lba \div SECTORS_PER_PAGE
        b   == l % N_BANKS
        ppn == L2P[b][l \div N_BANKS]
    IN IF ppn = -1 THEN Blank
       ELSE IF ~Written(b, ppn) THEN Junk
       ELSE nand[b].cell[ppn].data[lba % SECTORS_PER_PAGE]

DiskOfFTL == [lba \in 0 .. N_SECTORS - 1 |-> SectorAt(lba)]

\* The sectors of the request on the pages the call has not come to.
TodoOfFTL ==
    IF pc = "idle" THEN {}
    ELSE {s \in SectorsFrom(req.lba, req.nsect) : s \div SECTORS_PER_PAGE >= lpn}

\* ftl_read and ftl_write are a disk: mapping, read-modify-write of partial
\* pages, bank interleaving and garbage collection do not show.
Disk == INSTANCE BlockDevice WITH
    disk <- DiskOfFTL, todo <- TodoOfFTL, LastUnset <- TRUE
ImplementsDisk == Disk!Spec

\* The comment at sector_kazu (HW2_Submit/ftl.c:230): it is the number of sectors of the
\* page that go to the buffer, so a read fills its buffer to the last sector.
ReadsFillTheBuffer ==
    pc = "read" /\ pp = send_kazu =>
        \A s \in DOMAIN rbuf : rbuf[s] # Junk
=============================================================================
