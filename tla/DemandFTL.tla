------------------------------- MODULE DemandFTL -------------------------------
(***************************************************************************)
(* The demand-based translation layer of project 1 (PRJ1/workspace/ftl.c): *)
(* a write-back buffer of pages over a mapping that is itself paged        *)
(* (MapCache).  A page leaves the buffer only when its slot is needed; it  *)
(* is then appended at Next_Data_PPN, after a collection of data blocks if *)
(* they are full, whose moves go through the mapping cache and may in turn *)
(* write back map pages and collect map blocks.                            *)
(*                                                                         *)
(* One bank: the banks share nothing but the request, whose pages go round *)
(* them.  The program is one thread: pc is where the call is and pp its    *)
(* page.  A step that consults the mapping waits until the map page is     *)
(* cached, which LoadMap sees to.                                          *)
(***************************************************************************)
EXTENDS MapCache

CONSTANTS
    SECTORS_PER_PAGE,
    N_BUFFERS,  \* pages the write buffer holds
    Word,       \* what the host may store in a sector
    Blank,      \* 0xFFFFFFFF
    Junk,       \* whatever an uninitialised word holds
    MaxSect     \* bound: sectors of a request

ASSUME DemandAssumption ==
    /\ {SECTORS_PER_PAGE, N_BUFFERS} \subseteq Nat \ {0}
    /\ MaxSect \in Nat

N_SECTORS == N_LPNS_PB * SECTORS_PER_PAGE
Offsets   == 0 .. SECTORS_PER_PAGE - 1
Buffers   == 0 .. N_BUFFERS - 1

VARIABLES
    Next_Data_PPN, GC_Trigger_Data_PPN,
    buffer,             \* buffer[slot]: the page buffered there, lpn -1 if none
    req,                \* the call: op, lba, nsect and the host's buffer
    pc, pp,             \* where the call is, and its page
    data,               \* the page buffer of ftl_read and ftl_write; a page
                        \* that needs no nand_read passes through it too
    victim,             \* the buffer slot to flush
    gc,                 \* the locals of garbage_collection
    moved,              \* tmp_lpn, the page garbage_collection has just copied
    rbuf                \* read_buffer

dataVars == <<Next_Data_PPN, GC_Trigger_Data_PPN, buffer>>
callVars == <<req, pc, pp, data, victim, gc, moved, rbuf>>
vars     == <<flashVars, mapVars, dataVars, callVars>>

SectorsFrom(lba, nsect) == lba .. lba + nsect - 1
Idle == [op |-> "idle", lba |-> 0, nsect |-> 0, buf |-> <<>>]
JunkPage == [i \in Offsets |-> Junk]

\* ftl_open.
Init ==
    /\ InitMap
    /\ Next_Data_PPN = 0
    /\ GC_Trigger_Data_PPN = Ppn(N_PHY_DATA_BLK - 1, 0)
    /\ buffer = [slot \in Buffers |-> [lpn |-> -1, data |-> JunkPage]]
    /\ req = Idle /\ pc = "idle" /\ pp = 0
    /\ data = JunkPage
    /\ victim = 0 /\ gc = NoGC /\ moved = 0
    /\ rbuf = <<>>

-----------------------------------------------------------------------------
\* The pages of a request.

\* send_kazu; an empty write touches no page if it starts one.
send_kazu ==
    (req.lba + req.nsect - 1) \div SECTORS_PER_PAGE - req.lba \div SECTORS_PER_PAGE + 1
lpn == pp + req.lba \div SECTORS_PER_PAGE

LbaAt(i)     == lpn * SECTORS_PER_PAGE + i
InRequest(i) == LbaAt(i) \in SectorsFrom(req.lba, req.nsect)

BuffersWith(l) == {slot \in Buffers : buffer[slot].lpn = l}
Buffered(l)    == BuffersWith(l) # {}
sim_buffer_L2S(l) == Lowest(BuffersWith(l))

\* A page of data in flash as nand_read leaves it in a page buffer.
ReadPage(ppn, page) ==
    NandRead(nand, BlkOf(ppn), PageOf(ppn), [data |-> page, spare |-> 0]).data

\* The driver's requests; ftl_read asserts that there is something to read.
Submit ==
    /\ pc = "idle"
    /\ \E lba \in 0 .. N_SECTORS - 1, nsect \in 0 .. MaxSect :
        /\ lba + nsect <= N_SECTORS
        /\ \/ /\ nsect > 0
              /\ req' = [op |-> "read", lba |-> lba, nsect |-> nsect, buf |-> <<>>]
              /\ pc' = "read"
              /\ rbuf' = [s \in SectorsFrom(lba, nsect) |-> Junk]
           \/ \E buf \in [SectorsFrom(lba, nsect) -> Word] :
              /\ req' = [op |-> "write", lba |-> lba, nsect |-> nsect, buf |-> buf]
              /\ pc' = "write"
              /\ rbuf' = <<>>
    /\ UNCHANGED <<flashVars, mapVars, dataVars, pp, data, victim, gc, moved>>

Return ==
    /\ pc \in {"read", "write"} /\ pp = send_kazu
    /\ req' = Idle /\ pc' = "idle" /\ pp' = 0
    /\ data' = JunkPage
    /\ rbuf' = <<>>
    /\ UNCHANGED <<flashVars, mapVars, dataVars, victim, gc, moved>>

\* The logical page whose entry the next step looks up or sets.  A read of one
\* page that is buffered does without.
Lookups ==
    CASE pc = "read" /\ pp < send_kazu /\ (send_kazu > 1 \/ ~Buffered(lpn)) -> {lpn}
      [] pc = "write" /\ pp < send_kazu -> {lpn}
      [] pc = "gc_remap" -> {moved}
      [] pc = "flush" -> {buffer[victim].lpn}
      [] OTHER -> {}
MapReady == mpc = "idle" /\ \A l \in Lookups : Cached(lpn2vpn(l))

LoadMap ==
    /\ \E l \in Lookups : CacheStep(lpn2vpn(l))
    /\ UNCHANGED <<dataVars, callVars>>

-----------------------------------------------------------------------------
\* A page of ftl_read, and the packing of a page in ftl_write.

FetchPage ==
    /\ pc = "read" /\ pp < send_kazu /\ MapReady
    /\ data' = IF Buffered(lpn) THEN buffer[sim_buffer_L2S(lpn)].data
               ELSE IF lpn2ppn(lpn) = -1 THEN [i \in Offsets |-> Blank]
               ELSE ReadPage(lpn2ppn(lpn), data)
    /\ rbuf' = [s \in DOMAIN rbuf |-> IF s \div SECTORS_PER_PAGE = lpn
                                      THEN data'[s % SECTORS_PER_PAGE] ELSE rbuf[s]]
    /\ pp' = pp + 1
    /\ UNCHANGED <<flashVars, mapVars, dataVars, req, pc, victim, gc, moved>>

\* What the request does not cover comes from the buffer, else from flash.
FlashContents(l) == IF lpn2ppn(l) = -1 THEN [i \in Offsets |-> Blank]   \* mutant
                    ELSE ReadPage(lpn2ppn(l), data)
OldContents(l) ==
    IF Buffered(l) THEN buffer[sim_buffer_L2S(l)].data
    ELSE IF lpn2ppn(l) = -1 THEN [i \in Offsets |-> Blank]
    ELSE ReadPage(lpn2ppn(l), data)

PackPage ==
    /\ pc = "write" /\ pp < send_kazu /\ MapReady
    /\ data' = [i \in Offsets |-> IF InRequest(i) THEN req.buf[LbaAt(i)]
                                 ELSE OldContents(lpn)[i]]
    /\ pc' = "store"
    /\ UNCHANGED <<flashVars, mapVars, dataVars, req, pp, victim, gc, moved, rbuf>>

-----------------------------------------------------------------------------
\* write_through_lpn.

\* The page goes to its slot, or to the first empty one.
FirstFree == IF Buffered(-1) THEN sim_buffer_L2S(-1) ELSE sim_buffer_L2S(lpn)   \* mutant
StoreSlot == IF Buffered(lpn) THEN sim_buffer_L2S(lpn) ELSE sim_buffer_L2S(-1)

Store ==
    /\ pc = "store" /\ (Buffered(lpn) \/ Buffered(-1))
    /\ buffer' = [buffer EXCEPT ![StoreSlot] = [lpn |-> lpn, data |-> data]]
    /\ pc' = "write" /\ pp' = pp + 1
    /\ UNCHANGED <<flashVars, mapVars, Next_Data_PPN, GC_Trigger_Data_PPN>>
    /\ UNCHANGED <<req, data, victim, gc, moved, rbuf>>

\* Otherwise a random slot is flushed, after a collection if the data blocks
\* are full.
NeverAtTrigger == FALSE                                    \* mutant
AtDataTrigger == Next_Data_PPN = GC_Trigger_Data_PPN
PickVictim ==
    /\ pc = "store" /\ ~Buffered(lpn) /\ ~Buffered(-1)
    /\ victim' \in Buffers
    /\ IF AtDataTrigger
       THEN pc' = "gc" /\ gc' = CollectionOf("DATA", get_free_blk_data)
       ELSE pc' = "flush" /\ UNCHANGED gc
    /\ UNCHANGED <<flashVars, mapVars, dataVars, req, pp, data, moved, rbuf>>

Flush ==
    /\ pc = "flush" /\ MapReady
    /\ LET l == buffer[victim].lpn IN
       /\ isValid' = Superseded(lpn2ppn(l))
       /\ update_L2P(l, Next_Data_PPN)
       /\ nand' = NandWrite(nand, BlkOf(Next_Data_PPN), PageOf(Next_Data_PPN),
                            [data |-> buffer[victim].data, spare |-> l])
    /\ Next_Data_PPN' = Next_Data_PPN + 1
    /\ buffer' = [buffer EXCEPT ![victim].lpn = -1]
    /\ pc' = "store" /\ victim' = 0
    /\ UNCHANGED <<Block_Status, GTD, Next_Map_PPN, GC_Trigger_Map_PPN, mpc, victim_slot, mgc>>
    /\ UNCHANGED <<GC_Trigger_Data_PPN, req, pp, data, gc, moved, rbuf>>

-----------------------------------------------------------------------------
\* garbage_collection: a valid page of the victim is copied, then mapped.

SkipInvalid ==
    /\ pc = "gc" /\ gc.i < PAGES_PER_BLK
    /\ isValid[Ppn(gc.victim, gc.i)] = 0
    /\ gc' = [gc EXCEPT !.i = @ + 1]
    /\ UNCHANGED <<flashVars, mapVars, dataVars, req, pc, pp, data, victim, moved, rbuf>>

GCCopy ==
    /\ pc = "gc" /\ gc.i < PAGES_PER_BLK
    /\ isValid[Ppn(gc.victim, gc.i)] = 1
    /\ \E page \in PagesRead(Ppn(gc.victim, gc.i), [data : {JunkPage}, spare : Lpns]) :
         /\ nand' = NandWrite(nand, gc.free, gc.cnt, page)
         /\ moved' = page.spare
    /\ pc' = "gc_remap"
    /\ UNCHANGED <<isValid, Block_Status, mapVars, dataVars>>
    /\ UNCHANGED <<req, pp, data, victim, gc, rbuf>>

GCRemap ==
    /\ pc = "gc_remap" /\ MapReady
    /\ update_L2P(moved, Ppn(gc.free, gc.cnt))
    /\ gc' = [gc EXCEPT !.i = @ + 1, !.cnt = @ + 1]
    /\ pc' = "gc" /\ moved' = 0
    /\ UNCHANGED <<flashVars, GTD, Next_Map_PPN, GC_Trigger_Map_PPN, mpc, victim_slot, mgc>>
    /\ UNCHANGED <<dataVars, req, pp, data, victim, rbuf>>

GCFinish ==
    /\ pc = "gc" /\ gc.i = PAGES_PER_BLK
    /\ Next_Data_PPN' = Ppn(gc.free, gc.cnt)
    /\ GC_Trigger_Data_PPN' = Ppn(gc.free, PAGES_PER_BLK)
    /\ Retire(gc, "DATA")
    /\ pc' = "flush" /\ gc' = NoGC
    /\ UNCHANGED <<mapVars, buffer, req, pp, data, victim, moved, rbuf>>

Step ==
    \/ LoadMap
    \/ FetchPage
    \/ PackPage
    \/ Store
    \/ PickVictim
    \/ Flush
    \/ SkipInvalid
    \/ GCCopy
    \/ GCRemap
    \/ GCFinish
    \/ Return

Next == Submit \/ Step

Spec == Init /\ [][Next]_vars

-----------------------------------------------------------------------------
\* Properties.

DataWord == Word \cup {Blank, Junk}
DataPage == [data : [Offsets -> DataWord], spare : Lpns]
MapContents == [Entries -> Ppns \cup {-1}]
MapPages == [data : MapContents, spare : Vpns]
LocalsOfGC == [victim : Blks, free : Blks, i : 0 .. PAGES_PER_BLK, cnt : 0 .. PAGES_PER_BLK]
EndPpns == 0 .. BLKS_PER_BANK * PAGES_PER_BLK

ASSUME ErasedIsNoPage == Erased \notin DataPage \cup MapPages

\* The types of the tables of ftl.c:44-58 and of the locals of a call.
TypeOK ==
    /\ nand \in [cell : [Ppns -> DataPage \cup MapPages \cup {Erased}],
                 blk_index : [Blks -> 0 .. PAGES_PER_BLK]]
    /\ isValid \in [Ppns -> {0, 1}]
    /\ Block_Status \in [Blks -> {"EMPTY", "DATA", "MAP"}]
    /\ CMT \in [Slots -> [vpn : Vpns \cup {-1}, dirty : BOOLEAN, data : MapContents]]
    /\ GTD \in [Vpns -> Ppns \cup {-1}]
    /\ is_VPN_first_time \in [Vpns -> BOOLEAN]
    /\ {Next_Map_PPN, GC_Trigger_Map_PPN, Next_Data_PPN, GC_Trigger_Data_PPN} \subseteq EndPpns
    /\ mpc \in {"idle", "gc", "evict"} /\ victim_slot \in Slots /\ mgc \in LocalsOfGC
    /\ buffer \in [Buffers -> [lpn : Lpns \cup {-1}, data : [Offsets -> DataWord]]]
    /\ req.op \in {"idle", "read", "write"} /\ req.lba \in Nat /\ req.nsect \in Nat
    /\ req.op = "write" => req.buf \in [SectorsFrom(req.lba, req.nsect) -> Word]
    /\ pc \in {"idle", "read", "write", "store", "gc", "gc_remap", "flush"} /\ pp \in Nat
    /\ data \in [Offsets -> DataWord]
    /\ victim \in Buffers /\ gc \in LocalsOfGC /\ moved \in Lpns

InMapGC  == mpc = "gc"
InDataGC == pc \in {"gc", "gc_remap"}

\* What a collection has copied already, and what it is to erase.
MovedIn(g, ppn) == BlkOf(ppn) = g.victim /\ PageOf(ppn) < g.i

\* Whatever is cached, dirty, being written back or being moved: a logical page
\* maps to a written page that carries it and counts as valid (ftl.c:283, 600).
MappedPagesAreCurrent ==
    \A l \in Lpns : L2P[l] # -1 =>
        /\ Written(L2P[l])
        /\ nand.cell[L2P[l]] \in DataPage
        /\ nand.cell[L2P[l]].spare = l
        /\ isValid[L2P[l]] = 1

\* The directory leads to valid map pages that carry the page it is asked for,
\* in every step of a write-back and of the map collection it starts (ftl.c:622,
\* 680).  A map page is never lost: what was used once is cached or in flash, so
\* use_free_slot never passes on the entries of another page (ftl.c:655).
DirectoryIsCurrent ==
    \A vpn \in Vpns :
        /\ GTD[vpn] # -1 => /\ Written(GTD[vpn])
                            /\ nand.cell[GTD[vpn]] \in MapPages
                            /\ nand.cell[GTD[vpn]].spare = vpn
                            /\ isValid[GTD[vpn]] = 1
        /\ ~is_VPN_first_time[vpn] => Cached(vpn) \/ GTD[vpn] # -1

\* A valid page is the current copy: collections go by isValid alone and would
\* bring a stale page, of data or of the map, back to life.
ValidPagesAreCurrent ==
    \A ppn \in Ppns : Written(ppn) /\ isValid[ppn] = 1 =>
        LET page == nand.cell[ppn] IN
        IF BlkOf(ppn) < N_PHY_DATA_BLK
        THEN \/ L2P[page.spare] = ppn
             \/ InDataGC /\ MovedIn(gc, ppn)
             \/ pc = "gc_remap" /\ ppn = Ppn(gc.free, gc.cnt) /\ page.spare = moved
        ELSE \/ GTD[page.spare] = ppn
             \/ InMapGC /\ MovedIn(mgc, ppn)

\* A logical page has one buffer and a map page one slot, as the assertions
\* offset==free_slot (ftl.c:596, 609) have it.
NoDuplicates ==
    /\ \A s, t \in Buffers : buffer[s].lpn = buffer[t].lpn /\ buffer[s].lpn # -1 => s = t
    /\ \A s, t \in Slots : CMT[s].vpn = CMT[t].vpn /\ CMT[s].vpn # -1 => s = t

\* The two kinds of blocks keep to their ends of the bank, each with one empty
\* block, although both collections take theirs from the same table: a map
\* collection in the middle of a data collection, which has not entered its free
\* block in the table yet, does not take it (ftl.c:275, 571, 664).
RegionsApart ==
    LET side(S) == {blk \in S : Block_Status[blk] = "EMPTY"}
        low == 0 .. N_PHY_DATA_BLK - 1
    IN  /\ \A blk \in Blks : Block_Status[blk] = "DATA" => blk \in low
        /\ \A blk \in Blks : Block_Status[blk] = "MAP" => blk \notin low
        /\ Cardinality(side(low)) = 1 /\ Cardinality(side(Blks \ low)) = 1
        /\ InDataGC => gc.free \in side(low)
        /\ InMapGC => mgc.free \in side(Blks \ low)

\* The codes of nand_write are ignored in all four places (ftl.c:296, 410, 634,
\* 676).  They may be: the page is always the next of an erased stretch.
CanWrite(ppn) == WriteCode(nand, BlkOf(ppn), PageOf(ppn)) = "SUCCESS"
ProgramsSucceed ==
    /\ pc = "flush" => CanWrite(Next_Data_PPN)
    /\ pc = "gc" /\ gc.i < PAGES_PER_BLK => CanWrite(Ppn(gc.free, gc.cnt))
    /\ mpc = "evict" => CanWrite(Next_Map_PPN) /\ isValid[Next_Map_PPN] = 1
    /\ InMapGC /\ mgc.i < PAGES_PER_BLK => CanWrite(Ppn(mgc.free, mgc.cnt))

\* Both collections find something to reclaim (ftl.c:283, 663).
CollectionsReclaim ==
    /\ InDataGC => \E page \in Pages : isValid[Ppn(gc.victim, page)] = 0
    /\ InMapGC => \E page \in Pages : isValid[Ppn(mgc.victim, page)] = 0

\* Caching, writing back and collecting map pages do not change the mapping:
\* only the flush of a page and the move of a page do, and only of that page.
MappingIsStable ==
    [][\A l \in Lpns : L2P'[l] # L2P[l] =>
          \/ pc = "flush" /\ pc' = "store" /\ l = buffer[victim].lpn
          \/ pc = "gc_remap" /\ pc' = "gc" /\ l = moved]_vars

\* The sector at lba: in the buffer, else through the mapping.
SectorAt(lba) ==
    LET l == lba \div SECTORS_PER_PAGE
        i == lba % SECTORS_PER_PAGE
    IN  IF Buffered(l) THEN buffer[sim_buffer_L2S(l)].data[i]
        ELSE IF L2P[l] = -1 THEN Blank
        ELSE IF ~Written(L2P[l]) THEN Junk
        ELSE nand.cell[L2P[l]].data[i]
DiskOfFTL == [lba \in 0 .. N_SECTORS - 1 |-> SectorAt(lba)]

\* The sectors of the request on the pages the call has not come to.
TodoOfFTL ==
    IF pc = "idle" THEN {}
    ELSE {s \in SectorsFrom(req.lba, req.nsect) : s \div SECTORS_PER_PAGE >= lpn}

\* ftl_read and ftl_write are a disk: buffer, paged mapping, write-backs and
\* both collections do not show.  Unlike in Lab #2, reads fill their buffers.
Disk == INSTANCE BlockDevice WITH
    disk <- DiskOfFTL, todo <- TodoOfFTL, LastUnset <- FALSE
ImplementsDisk == Disk!Spec

\* The comment at map_garbage_collection (ftl.c:663): it makes an empty page for
\* the map.  So a write-back that needed it has one.
MapGCMakesRoom ==
    mpc = "evict" /\ CMT[victim_slot].dirty => ~AtMapTrigger
=============================================================================
