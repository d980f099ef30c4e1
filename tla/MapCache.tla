------------------------------- MODULE MapCache --------------------------------
(***************************************************************************)
(* The mapping of the demand-based translation layer of project 1          *)
(* (PRJ1/workspace/ftl.c), for one bank.  The map from logical to physical *)
(* pages lies in flash, N_MAP_ENTRIES_PER_PAGE entries to a map page (vpn); *)
(* GTD says where each map page is, and a few of them are cached in CMT.   *)
(* lpn2ppn and update_L2P first cache the map page they need: with every   *)
(* slot taken a random one is written back, and if the map blocks are full *)
(* their valid pages are collected first.  mpc is where that has come to.  *)
(*                                                                         *)
(* A cached page is always dirty: use_free_slot marks it so.  Map and data *)
(* blocks share the chip, the page states and the block states.  A         *)
(* definition marked "mutant" is a plausible bug of the one below it.      *)
(***************************************************************************)
EXTENDS Integers, FiniteSets

CONSTANTS
    BLKS_PER_BANK, PAGES_PER_BLK,
    N_USER_BLOCKS_PB,       \* blocks the host sees
    N_USER_OP_BLOCKS_PB,    \* further blocks for data; the rest is for map pages
    N_MAP_ENTRIES_PER_PAGE,
    N_SLOT_PB,              \* slots of the mapping cache
    Erased                  \* a page that is not written

INSTANCE Nand

N_LPNS_PB      == N_USER_BLOCKS_PB * PAGES_PER_BLK
N_PHY_DATA_BLK == N_USER_BLOCKS_PB + N_USER_OP_BLOCKS_PB

lpn2vpn(lpn) == lpn \div N_MAP_ENTRIES_PER_PAGE
FirstEntry(lpn) == 0                                       \* mutant
EntryOf(lpn) == lpn % N_MAP_ENTRIES_PER_PAGE

\* At least two blocks of either kind, one of them empty, as ftl.h has it.
ASSUME MapCacheAssumption ==
    /\ {BLKS_PER_BANK, PAGES_PER_BLK, N_USER_BLOCKS_PB} \subseteq Nat \ {0}
    /\ {N_MAP_ENTRIES_PER_PAGE, N_SLOT_PB} \subseteq Nat \ {0}
    /\ N_USER_OP_BLOCKS_PB \in Nat
    /\ 2 <= N_PHY_DATA_BLK /\ N_PHY_DATA_BLK + 2 <= BLKS_PER_BANK

Lpns    == 0 .. N_LPNS_PB - 1
Vpns    == 0 .. lpn2vpn(N_LPNS_PB - 1)
Slots   == 0 .. N_SLOT_PB - 1
Entries == 0 .. N_MAP_ENTRIES_PER_PAGE - 1

VARIABLES
    nand,               \* the chip (module Nand)
    isValid,            \* isValid[ppn]: not superseded
    Block_Status,       \* "EMPTY", "DATA" or "MAP"
    CMT,                \* CMT[slot]: the cached map page, vpn -1 if free
    GTD,                \* GTD[vpn]: where the map page is in flash, or -1
    is_VPN_first_time,
    Next_Map_PPN, GC_Trigger_Map_PPN,
    mpc,                \* "idle", "gc" (map_garbage_collection) or "evict"
    victim_slot,        \* the slot to write back
    mgc                 \* the locals of map_garbage_collection

flashVars == <<nand, isValid, Block_Status>>
mapVars   == <<CMT, GTD, is_VPN_first_time, Next_Map_PPN, GC_Trigger_Map_PPN,
               mpc, victim_slot, mgc>>

NoGC     == [victim |-> 0, free |-> 0, i |-> 0, cnt |-> 0]
Unmapped == [e \in Entries |-> -1]
Lowest(S)  == CHOOSE x \in S : \A y \in S : x <= y
Highest(S) == CHOOSE x \in S : \A y \in S : x >= y

\* ftl_open: the data blocks come first, the last block of either kind is kept
\* empty, and writing starts at the first block of either kind.
InitMap ==
    /\ nand = EmptyBank
    /\ isValid = [ppn \in Ppns |-> 1]
    /\ Block_Status = [blk \in Blks |->
         IF blk \in {N_PHY_DATA_BLK - 1, BLKS_PER_BANK - 1} THEN "EMPTY"
         ELSE IF blk < N_PHY_DATA_BLK THEN "DATA" ELSE "MAP"]
    /\ CMT = [slot \in Slots |-> [vpn |-> -1, dirty |-> FALSE, data |-> Unmapped]]
    /\ GTD = [vpn \in Vpns |-> -1]
    /\ is_VPN_first_time = [vpn \in Vpns |-> TRUE]
    /\ Next_Map_PPN = Ppn(N_PHY_DATA_BLK, 0)
    /\ GC_Trigger_Map_PPN = Ppn(BLKS_PER_BANK - 1, 0)
    /\ mpc = "idle" /\ victim_slot = 0 /\ mgc = NoGC

-----------------------------------------------------------------------------
\* What both kinds of blocks have in common.

Written(ppn) == nand.cell[ppn] # Erased

\* What nand_read leaves in an uninitialised page buffer.
PagesRead(ppn, junk) == IF Written(ppn) THEN {nand.cell[ppn]} ELSE junk

ValidCount(blk) == Cardinality({page \in Pages : isValid[Ppn(blk, page)] = 1})   \* mutant
InvalidCount(blk) == Cardinality({page \in Pages : isValid[Ppn(blk, page)] = 0})

\* greedy_data_blk and greedy_map_blk: most invalid pages; the one scans
\* downwards and keeps the last maximum, the other upwards and the first.
GreedyBlk(kind) ==
    LET blks == {blk \in Blks : Block_Status[blk] = kind}
    IN  Lowest({blk \in blks : \A b \in blks : InvalidCount(b) <= InvalidCount(blk)})

EmptyBlks         == {blk \in Blks : Block_Status[blk] = "EMPTY"}
get_free_blk_data == Lowest(EmptyBlks)
FirstEmpty        == Lowest(EmptyBlks)                      \* mutant
get_free_blk_map  == Highest(EmptyBlks)

CollectionOf(kind, free) ==
    [victim |-> GreedyBlk(kind), free |-> free, i |-> 0, cnt |-> 0]

\* The end of a collection: the victim is erased and takes the place of the
\* free block.
Refreshed(blk) == [ppn \in Ppns |-> IF BlkOf(ppn) = blk THEN 1 ELSE isValid[ppn]]
Retire(g, kind) ==
    /\ isValid' = Refreshed(g.victim)
    /\ nand' = NandErase(nand, g.victim)
    /\ Block_Status' = [Block_Status EXCEPT ![g.victim] = "EMPTY", ![g.free] = kind]

-----------------------------------------------------------------------------
\* The cache of map pages.

SlotsWith(vpn) == {slot \in Slots : CMT[slot].vpn = vpn}
Cached(vpn)    == SlotsWith(vpn) # {}                       \* is_vpn_cached
SlotOf(vpn)    == Lowest(SlotsWith(vpn))

\* lpn2ppn and update_L2P once the map page is cached.
lpn2ppn(lpn) == CMT[SlotOf(lpn2vpn(lpn))].data[EntryOf(lpn)]

update_L2P(lpn, ppn) ==
    LET vpn   == lpn2vpn(lpn)
        fresh == IF is_VPN_first_time[vpn] THEN Unmapped ELSE CMT[SlotOf(vpn)].data
    IN  /\ CMT' = [CMT EXCEPT ![SlotOf(vpn)] =
                     [vpn |-> vpn, dirty |-> TRUE, data |-> [fresh EXCEPT ![EntryOf(lpn)] = ppn]]]
        /\ is_VPN_first_time' = [is_VPN_first_time EXCEPT ![vpn] = FALSE]

\* use_free_slot.  A page neither in flash nor new would leave the entries of
\* the slot's last page in place.
EntriesFor(vpn, slot) ==
    IF GTD[vpn] >= 0
    THEN {page.data : page \in
            PagesRead(GTD[vpn], [data : [Entries -> Ppns \cup {-1}], spare : {vpn}])}
    ELSE {IF is_VPN_first_time[vpn] THEN Unmapped ELSE CMT[slot].data}

LoadedClean == FALSE                                       \* mutant
LoadedDirty == TRUE

UseFreeSlot(vpn) ==
    /\ mpc = "idle" /\ ~Cached(vpn) /\ Cached(-1)
    /\ \E entries \in EntriesFor(vpn, SlotOf(-1)) :
         CMT' = [CMT EXCEPT ![SlotOf(-1)] =
                   [vpn |-> vpn, dirty |-> LoadedDirty, data |-> entries]]
    /\ is_VPN_first_time' = [is_VPN_first_time EXCEPT ![vpn] = @ /\ GTD[vpn] >= 0]
    /\ UNCHANGED <<flashVars, GTD, Next_Map_PPN, GC_Trigger_Map_PPN, mpc, victim_slot, mgc>>

\* make_free_slot of a random slot (get_LRU_slot), as far as the test of the
\* trigger.
AtMapTrigger == Next_Map_PPN = GC_Trigger_Map_PPN
PickSlot(vpn) ==
    /\ mpc = "idle" /\ ~Cached(vpn) /\ ~Cached(-1)
    /\ victim_slot' \in Slots
    /\ IF CMT[victim_slot'].dirty /\ AtMapTrigger
       THEN mpc' = "gc" /\ mgc' = CollectionOf("MAP", get_free_blk_map)
       ELSE mpc' = "evict" /\ mgc' = NoGC
    /\ UNCHANGED <<flashVars, CMT, GTD, is_VPN_first_time, Next_Map_PPN, GC_Trigger_Map_PPN>>

\* map_garbage_collection, a page of the victim at a time.  A cached page is
\* copied from the cache.
NotMovedEntry(vpn, ppn) == GTD                             \* mutant
MovedEntry(vpn, ppn) == [GTD EXCEPT ![vpn] = ppn]
CacheFirst(page) == IF Cached(page.spare)
                    THEN [page EXCEPT !.data = CMT[SlotOf(page.spare)].data] ELSE page

MapGCCopy ==
    /\ mpc = "gc" /\ mgc.i < PAGES_PER_BLK
    /\ IF isValid[Ppn(mgc.victim, mgc.i)] = 0
       THEN mgc' = [mgc EXCEPT !.i = @ + 1] /\ UNCHANGED <<nand, GTD>>
       ELSE /\ \E page \in PagesRead(Ppn(mgc.victim, mgc.i),
                              [data : [Entries -> Ppns \cup {-1}], spare : Vpns]) :
                 /\ nand' = NandWrite(nand, mgc.free, mgc.cnt, CacheFirst(page))
                 /\ GTD' = MovedEntry(page.spare, Ppn(mgc.free, mgc.cnt))
            /\ mgc' = [mgc EXCEPT !.i = @ + 1, !.cnt = @ + 1]
    /\ UNCHANGED <<isValid, Block_Status, CMT, is_VPN_first_time>>
    /\ UNCHANGED <<Next_Map_PPN, GC_Trigger_Map_PPN, mpc, victim_slot>>

MapGCFinish ==
    /\ mpc = "gc" /\ mgc.i = PAGES_PER_BLK
    /\ Next_Map_PPN' = Ppn(mgc.free, mgc.cnt)
    /\ GC_Trigger_Map_PPN' = Ppn(mgc.free + 1, 0)
    /\ Retire(mgc, "MAP")
    /\ mpc' = "evict" /\ mgc' = NoGC
    /\ UNCHANGED <<CMT, GTD, is_VPN_first_time, victim_slot>>

\* original_make_free_slot after the test of the trigger.
NotSuperseded(old) == isValid                              \* mutant
Superseded(old) == IF old >= 0 THEN [isValid EXCEPT ![old] = 0] ELSE isValid

EvictSlot ==
    /\ mpc = "evict"
    /\ LET vpn == CMT[victim_slot].vpn IN
       IF CMT[victim_slot].dirty
       THEN /\ isValid' = Superseded(GTD[vpn])
            /\ GTD' = [GTD EXCEPT ![vpn] = Next_Map_PPN]
            /\ nand' = NandWrite(nand, BlkOf(Next_Map_PPN), PageOf(Next_Map_PPN),
                                 [data |-> CMT[victim_slot].data, spare |-> vpn])
            /\ Next_Map_PPN' = Next_Map_PPN + 1
       ELSE UNCHANGED <<isValid, GTD, nand, Next_Map_PPN>>
    /\ CMT' = [CMT EXCEPT ![victim_slot].vpn = -1, ![victim_slot].dirty = FALSE]
    /\ mpc' = "idle" /\ victim_slot' = 0
    /\ UNCHANGED <<Block_Status, is_VPN_first_time, GC_Trigger_Map_PPN, mgc>>

\* The steps that make vpn cached.
CacheStep(vpn) ==
    \/ UseFreeSlot(vpn)
    \/ PickSlot(vpn)
    \/ MapGCCopy
    \/ MapGCFinish
    \/ EvictSlot

\* The map as the code would find it: from the cache, else from flash.
MapPage(vpn) ==
    IF Cached(vpn) THEN CMT[SlotOf(vpn)].data
    ELSE IF GTD[vpn] >= 0 /\ Written(GTD[vpn]) THEN nand.cell[GTD[vpn]].data
    ELSE Unmapped
L2P == [lpn \in Lpns |-> MapPage(lpn2vpn(lpn))[EntryOf(lpn)]]
=============================================================================
