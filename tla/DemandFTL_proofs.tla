-------------------------- MODULE DemandFTL_proofs --------------------------
(***************************************************************************)
(* DemandFTL proved for every geometry with pages to spare (EnoughRoom),    *)
(* and for every other one as long as no collection starts in vain.  Both   *)
(* ends of the bank are logs in the sense of FlashLog, of the data under    *)
(* L2P and of the map under GTD.  A data collection maps a page a step      *)
(* after it has copied it, and map pages may be written back and collected  *)
(* in between; DataMap and DataGC are the map and the collection as they    *)
(* will be then, so that the data blocks are a log in that state too.       *)
(* The last part proves that the layer implements BlockDevice.              *)
(***************************************************************************)
EXTENDS DemandFTL, FlashLog

DataBlks == 0 .. N_PHY_DATA_BLK - 1
MapBlks  == N_PHY_DATA_BLK .. BLKS_PER_BANK - 1

\* There are pages to spare: of the blocks of either kind that are not empty
\* some page is always out of use when they are full.
EnoughRoom ==
    /\ N_USER_OP_BLOCKS_PB >= 2
    /\ Cardinality(Vpns) < (BLKS_PER_BANK - N_PHY_DATA_BLK - 1) * PAGES_PER_BLK

\* Of a step: there are pages to spare, or if it starts a collection then the
\* victim has a page out of use all the same.
StartsWell == EnoughRoom \/ CollectionsReclaim'

\* The block states, and the blocks of the two collections.
StatusInv ==
    /\ Block_Status \in [Blks -> {"EMPTY", "DATA", "MAP"}]
    /\ {gc, mgc} \subseteq [victim : Blks, free : Blks, i : Int, cnt : Int]
    /\ \E free \in DataBlks : OneEmpty(DataBlks, "DATA", Block_Status, free)
    /\ \E free \in MapBlks : OneEmpty(MapBlks, "MAP", Block_Status, free)
    /\ InDataGC => /\ gc.free \in DataBlks /\ Block_Status[gc.free] = "EMPTY"
                   /\ gc.victim \in DataBlks /\ Block_Status[gc.victim] = "DATA"
    /\ InMapGC => /\ mgc.free \in MapBlks /\ Block_Status[mgc.free] = "EMPTY"
                  /\ mgc.victim \in MapBlks /\ Block_Status[mgc.victim] = "MAP"

\* The chip and the page states.
Content == DataPage \cup MapPages \cup {Erased}
ChipInv ==
    /\ nand \in Chip(Content) /\ Prefix(nand)
    /\ isValid \in [Ppns -> {0, 1}]

\* The mapping: its types, its log, and the cache of map pages.
MapTypes ==
    /\ CMT \in [Slots -> [vpn : Vpns \cup {-1}, dirty : BOOLEAN, data : MapContents]]
    /\ GTD \in [Vpns -> Ppns \cup {-1}]
    /\ is_VPN_first_time \in [Vpns -> BOOLEAN]
    /\ Next_Map_PPN \in EndPpns /\ GC_Trigger_Map_PPN \in EndPpns
    /\ mpc \in {"idle", "gc", "evict"} /\ victim_slot \in Slots /\ mgc \in LocalsOfGC

MapLog ==
    Log(MapBlks, "MAP", Vpns, MapPages, nand.cell, isValid, Block_Status, GTD,
        Next_Map_PPN, GC_Trigger_Map_PPN, InMapGC, mgc)

Unique(cmt) == \A s, t \in Slots : cmt[s].vpn = cmt[t].vpn /\ cmt[s].vpn # -1 => s = t

CacheInv ==
    /\ Unique(CMT)
    /\ \A s \in Slots : CMT[s].vpn # -1 => CMT[s].dirty
    /\ \A vpn \in Vpns : is_VPN_first_time[vpn] <=> GTD[vpn] = -1 /\ \A s \in Slots : CMT[s].vpn # vpn
    /\ mpc # "idle" => \A s \in Slots : CMT[s].vpn # -1
    /\ mpc = "evict" => Next_Map_PPN < GC_Trigger_Map_PPN

MapInv == MapTypes /\ MapLog /\ CacheInv

\* The mapping and the collection as they will be once a page that has been
\* copied is mapped.
DataMap == IF pc = "gc_remap" THEN [L2P EXCEPT ![moved] = Ppn(gc.free, gc.cnt)] ELSE L2P
DataGC  == IF pc = "gc_remap" THEN [gc EXCEPT !.i = @ + 1, !.cnt = @ + 1] ELSE gc
DataLog ==
    Log(DataBlks, "DATA", Lpns, DataPage, nand.cell, isValid, Block_Status, DataMap,
        Next_Data_PPN, GC_Trigger_Data_PPN, InDataGC, DataGC)

RemapInv ==
    pc = "gc_remap" =>
        /\ gc.i < PAGES_PER_BLK
        /\ L2P[moved] = Ppn(gc.victim, gc.i)
        /\ Written(Ppn(gc.victim, gc.i))
        /\ nand.cell[Ppn(gc.victim, gc.i)].spare = moved
        /\ isValid[Ppn(gc.victim, gc.i)] = 1

\* The buffer and the call.
DataTypes ==
    /\ Next_Data_PPN \in EndPpns /\ GC_Trigger_Data_PPN \in EndPpns
    /\ buffer \in [Buffers -> [lpn : Lpns \cup {-1}, data : [Offsets -> DataWord]]]
    /\ req.op \in {"idle", "read", "write"} /\ req.lba \in Nat /\ req.nsect \in Nat
    /\ req.op = "write" => req.buf \in [SectorsFrom(req.lba, req.nsect) -> Word]
    /\ pc \in {"idle", "read", "write", "store", "gc", "gc_remap", "flush"} /\ pp \in Nat
    /\ data \in [Offsets -> DataWord]
    /\ victim \in Buffers /\ gc \in LocalsOfGC /\ moved \in Lpns

BufferInv ==
    /\ \A s, t \in Buffers : buffer[s].lpn = buffer[t].lpn /\ buffer[s].lpn # -1 => s = t
    /\ InDataGC \/ pc = "flush" => ~Buffered(-1)
    /\ pc = "flush" => Next_Data_PPN < GC_Trigger_Data_PPN

CallInv ==
    /\ pc = "idle" <=> req.op = "idle"
    /\ pc = "read" <=> req.op = "read"
    /\ req.op # "idle" => req.lba < N_SECTORS /\ req.lba + req.nsect <= N_SECTORS
    /\ pc \in {"store", "gc", "gc_remap", "flush"} => pp < send_kazu

IndInv ==
    /\ ChipInv /\ StatusInv
    /\ MapInv
    /\ DataTypes /\ DataLog /\ RemapInv /\ BufferInv /\ CallInv

-----------------------------------------------------------------------------
\* The two ends of the bank.
LEMMA Sides ==
    /\ DataBlks \in SUBSET Blks /\ MapBlks \in SUBSET Blks
    /\ \A blk \in Blks : blk \in DataBlks <=> blk \notin MapBlks
    /\ \A x \in DataBlks, y \in MapBlks : x < y
    /\ 0 \in DataBlks /\ N_PHY_DATA_BLK - 1 \in DataBlks /\ 0 # N_PHY_DATA_BLK - 1
    /\ N_PHY_DATA_BLK \in MapBlks /\ BLKS_PER_BANK - 1 \in MapBlks
    /\ N_PHY_DATA_BLK # BLKS_PER_BANK - 1
  BY Geometry DEF DataBlks, MapBlks, Blks

\* Each collection takes the empty block of its own side.
LEMMA FreeBlks ==
    ASSUME StatusInv
    PROVE  /\ get_free_blk_data \in DataBlks /\ Block_Status[get_free_blk_data] = "EMPTY"
           /\ get_free_blk_map \in MapBlks /\ Block_Status[get_free_blk_map] = "EMPTY"
  <1>1. PICK low \in DataBlks : OneEmpty(DataBlks, "DATA", Block_Status, low)
    BY DEF StatusInv
  <1>2. PICK high \in MapBlks : OneEmpty(MapBlks, "MAP", Block_Status, high)
    BY DEF StatusInv
  <1>3. EmptyBlks \in SUBSET Nat /\ low \in EmptyBlks /\ high \in EmptyBlks
    BY <1>1, <1>2, Sides DEF EmptyBlks, OneEmpty, Blks
  <1>4. \A blk \in EmptyBlks : blk \in Blks /\ (blk = low \/ blk = high) /\ Block_Status[blk] = "EMPTY"
    BY <1>1, <1>2, Sides DEF EmptyBlks, OneEmpty
  <1>5. \A blk \in EmptyBlks : blk <= BLKS_PER_BANK
    BY <1>4, Geometry DEF Blks
  <1>6. /\ get_free_blk_data \in EmptyBlks /\ \A k \in EmptyBlks : get_free_blk_data <= k
        /\ get_free_blk_map \in EmptyBlks /\ \A k \in EmptyBlks : k <= get_free_blk_map
    <2>1. BLKS_PER_BANK \in Nat
      BY Geometry
    <2> QED BY <1>3, <1>5, <2>1, LowestHighest DEF get_free_blk_data, get_free_blk_map
  <1>7. low < high /\ low \in Nat /\ high \in Nat
    BY <1>3, Sides
  <1>8. get_free_blk_data = low /\ get_free_blk_map = high
    BY <1>3, <1>4, <1>6, <1>7
  <1> QED BY <1>3, <1>4, <1>8

\* The loops of a collection count.
LEMMA LocalsStep ==
    ASSUME NEW g \in [victim : Blks, free : Blks, i : Int, cnt : Int]
    PROVE  /\ LET h == [g EXCEPT !.i = @ + 1] IN
              /\ h \in [victim : Blks, free : Blks, i : Int, cnt : Int]
              /\ h.victim = g.victim /\ h.free = g.free /\ h.i = g.i + 1 /\ h.cnt = g.cnt
           /\ LET h == [g EXCEPT !.i = @ + 1, !.cnt = @ + 1] IN
              /\ h \in [victim : Blks, free : Blks, i : Int, cnt : Int]
              /\ h.victim = g.victim /\ h.free = g.free /\ h.i = g.i + 1 /\ h.cnt = g.cnt + 1
  <1>1. g.i + 1 \in Int /\ g.cnt + 1 \in Int
    OBVIOUS
  <1> QED BY <1>1

\* A step that leaves the block states alone and starts no collection.
LEMMA StatusFrame ==
    ASSUME StatusInv, Block_Status' = Block_Status,
           {gc', mgc'} \subseteq [victim : Blks, free : Blks, i : Int, cnt : Int],
           InDataGC' => InDataGC /\ gc'.victim = gc.victim /\ gc'.free = gc.free,
           InMapGC' => InMapGC /\ mgc'.victim = mgc.victim /\ mgc'.free = mgc.free
    PROVE  StatusInv'
  BY DEF StatusInv

LEMMA StatusInit == Init => StatusInv
  <1> SUFFICES ASSUME Init PROVE StatusInv
    OBVIOUS
  <1>1. Block_Status = [blk \in Blks |->
            IF blk \in {N_PHY_DATA_BLK - 1, BLKS_PER_BANK - 1} THEN "EMPTY"
            ELSE IF blk < N_PHY_DATA_BLK THEN "DATA" ELSE "MAP"]
    BY DEF Init, InitMap
  <1>2. OneEmpty(DataBlks, "DATA", Block_Status, N_PHY_DATA_BLK - 1)
    BY <1>1, Sides, Geometry DEF OneEmpty, DataBlks
  <1>3. OneEmpty(MapBlks, "MAP", Block_Status, BLKS_PER_BANK - 1)
    BY <1>1, Sides, Geometry DEF OneEmpty, MapBlks
  <1>4. NoGC \in [victim : Blks, free : Blks, i : Int, cnt : Int]
    BY Sides DEF NoGC
  <1>5. gc = NoGC /\ mgc = NoGC /\ ~InDataGC /\ ~InMapGC
    BY DEF Init, InitMap, InDataGC, InMapGC
  <1> QED BY <1>1, <1>2, <1>3, <1>4, <1>5, Sides DEF StatusInv

\* The victim and the empty block a collection starts with.
LEMMA DataStart ==
    ASSUME StatusInv
    PROVE  LET g == CollectionOf("DATA", get_free_blk_data) IN
           /\ g \in [victim : Blks, free : Blks, i : Int, cnt : Int]
           /\ g.i = 0 /\ g.cnt = 0
           /\ g.free \in DataBlks /\ Block_Status[g.free] = "EMPTY"
           /\ g.victim \in DataBlks /\ Block_Status[g.victim] = "DATA"
           /\ \A blk \in Blks :
                 Block_Status[blk] = "DATA" /\ Reclaimable(isValid, blk) => Reclaimable(isValid, g.victim)
  <1>1. PICK low \in DataBlks : OneEmpty(DataBlks, "DATA", Block_Status, low)
    BY DEF StatusInv
  <1>2. PICK some \in DataBlks : Block_Status[some] = "DATA"
    BY <1>1, Sides DEF OneEmpty
  <1>3. /\ GreedyBlk("DATA") \in Blks /\ Block_Status[GreedyBlk("DATA")] = "DATA"
        /\ \A blk \in Blks :
              Block_Status[blk] = "DATA" /\ Reclaimable(isValid, blk) => Reclaimable(isValid, GreedyBlk("DATA"))
    BY <1>2, Sides, GreedyFacts
  <1>4. GreedyBlk("DATA") \in DataBlks
    <2>1. \A blk \in MapBlks : Block_Status[blk] # "DATA"
      BY DEF StatusInv, OneEmpty
    <2> QED BY <1>3, <2>1, Sides
  <1> QED BY <1>3, <1>4, FreeBlks, Sides DEF CollectionOf

LEMMA MapStart ==
    ASSUME StatusInv
    PROVE  LET g == CollectionOf("MAP", get_free_blk_map) IN
           /\ g \in [victim : Blks, free : Blks, i : Int, cnt : Int]
           /\ g.i = 0 /\ g.cnt = 0
           /\ g.free \in MapBlks /\ Block_Status[g.free] = "EMPTY"
           /\ g.victim \in MapBlks /\ Block_Status[g.victim] = "MAP"
           /\ \A blk \in Blks :
                 Block_Status[blk] = "MAP" /\ Reclaimable(isValid, blk) => Reclaimable(isValid, g.victim)
  <1>1. PICK high \in MapBlks : OneEmpty(MapBlks, "MAP", Block_Status, high)
    BY DEF StatusInv
  <1>2. PICK some \in MapBlks : Block_Status[some] = "MAP"
    BY <1>1, Sides DEF OneEmpty
  <1>3. /\ GreedyBlk("MAP") \in Blks /\ Block_Status[GreedyBlk("MAP")] = "MAP"
        /\ \A blk \in Blks :
              Block_Status[blk] = "MAP" /\ Reclaimable(isValid, blk) => Reclaimable(isValid, GreedyBlk("MAP"))
    BY <1>2, Sides, GreedyFacts
  <1>4. GreedyBlk("MAP") \in MapBlks
    <2>1. \A blk \in DataBlks : Block_Status[blk] # "MAP"
      BY DEF StatusInv, OneEmpty
    <2> QED BY <1>3, <2>1, Sides
  <1> QED BY <1>3, <1>4, FreeBlks, Sides DEF CollectionOf

\* The end of a collection swaps the states of its two blocks.
LEMMA Swapped ==
    ASSUME StatusInv, NEW R \in SUBSET Blks, NEW kind \in {"DATA", "MAP"}, NEW free, NEW g,
           OneEmpty(R, kind, Block_Status, free),
           g.victim \in R, Block_Status[g.victim] = kind, g.free \in R, Block_Status[g.free] = "EMPTY",
           Block_Status' = [Block_Status EXCEPT ![g.victim] = "EMPTY", ![g.free] = kind]
    PROVE  /\ Block_Status' \in [Blks -> {"EMPTY", "DATA", "MAP"}]
           /\ g.free = free /\ g.victim # g.free
           /\ \A blk \in Blks : Block_Status'[blk] = IF blk = g.victim THEN "EMPTY"
                                 ELSE IF blk = g.free THEN kind ELSE Block_Status[blk]
           /\ OneEmpty(R, kind, Block_Status', g.victim)
  <1>1. g.free = free /\ g.victim # g.free
    BY DEF OneEmpty
  <1>2. Block_Status \in [Blks -> {"EMPTY", "DATA", "MAP"}]
    BY DEF StatusInv
  <1>3. \A blk \in Blks : Block_Status'[blk] = IF blk = g.victim THEN "EMPTY"
                             ELSE IF blk = g.free THEN kind ELSE Block_Status[blk]
    BY <1>1, <1>2
  <1> QED BY <1>1, <1>2, <1>3 DEF OneEmpty

LEMMA StatusNext == StatusInv /\ [Next]_vars => StatusInv'
  <1> SUFFICES ASSUME StatusInv, [Next]_vars PROVE StatusInv'
    OBVIOUS
  <1> DEFINE Locals == [victim : Blks, free : Blks, i : Int, cnt : Int]
  <1>0. gc \in Locals /\ mgc \in Locals /\ NoGC \in Locals
    BY Sides DEF StatusInv, NoGC
  <1> USE DEF InDataGC, InMapGC
  <1>1. CASE Submit
    BY <1>0, <1>1, StatusFrame DEF Submit, flashVars, mapVars
  <1>2. CASE Return
    BY <1>0, <1>2, StatusFrame DEF Return, flashVars, mapVars
  <1>3. CASE FetchPage
    BY <1>0, <1>3, StatusFrame DEF FetchPage, flashVars, mapVars
  <1>4. CASE PackPage
    BY <1>0, <1>4, StatusFrame DEF PackPage, flashVars, mapVars
  <1>5. CASE Store
    BY <1>0, <1>5, StatusFrame DEF Store, flashVars, mapVars
  <1>6. CASE Flush
    BY <1>0, <1>6, StatusFrame DEF Flush
  <1>7. CASE SkipInvalid
    BY <1>0, <1>7, StatusFrame DEF SkipInvalid, flashVars, mapVars
  <1>8. CASE GCCopy
    BY <1>0, <1>8, StatusFrame DEF GCCopy, mapVars
  <1>9. CASE GCRemap
    <2>1. gc' = [gc EXCEPT !.i = @ + 1, !.cnt = @ + 1]
      BY <1>9 DEF GCRemap
    <2>2. gc' \in Locals /\ gc'.victim = gc.victim /\ gc'.free = gc.free
      BY <1>0, <2>1, LocalsStep
    <2>3. Block_Status' = Block_Status /\ mgc' = mgc /\ mpc' = mpc /\ pc = "gc_remap"
      BY <1>9 DEF GCRemap, flashVars
    <2> QED BY <1>0, <2>2, <2>3, StatusFrame
  <1>10. CASE PickVictim
    <2>1. CASE AtDataTrigger
      <3>1. /\ gc' = CollectionOf("DATA", get_free_blk_data)
            /\ Block_Status' = Block_Status /\ mgc' = mgc /\ mpc' = mpc
        BY <1>10, <2>1 DEF PickVictim, flashVars, mapVars
      <3> QED BY <3>1, DataStart DEF StatusInv
    <2>2. CASE ~AtDataTrigger
      BY <1>0, <1>10, <2>2, StatusFrame DEF PickVictim, flashVars, mapVars
    <2> QED BY <2>1, <2>2
  <1>11. CASE GCFinish
    <2>1. /\ gc.free \in DataBlks /\ Block_Status[gc.free] = "EMPTY"
          /\ gc.victim \in DataBlks /\ Block_Status[gc.victim] = "DATA"
      BY <1>11 DEF StatusInv, GCFinish
    <2>2. /\ Block_Status' = [Block_Status EXCEPT ![gc.victim] = "EMPTY", ![gc.free] = "DATA"]
          /\ gc' = NoGC /\ pc' = "flush" /\ mgc' = mgc /\ mpc' = mpc
      BY <1>11 DEF GCFinish, Retire, mapVars
    <2>3. PICK low \in DataBlks : OneEmpty(DataBlks, "DATA", Block_Status, low)
      BY DEF StatusInv
    <2>4. /\ Block_Status' \in [Blks -> {"EMPTY", "DATA", "MAP"}]
          /\ \A blk \in Blks : Block_Status'[blk] = IF blk = gc.victim THEN "EMPTY"
                                ELSE IF blk = gc.free THEN "DATA" ELSE Block_Status[blk]
          /\ OneEmpty(DataBlks, "DATA", Block_Status', gc.victim)
      BY <2>1, <2>2, <2>3, Sides, Swapped, ZenonT(60)
    <2>5. \A blk \in MapBlks : Block_Status'[blk] = Block_Status[blk]
      BY <2>1, <2>4, Sides
    <2>6. \E high \in MapBlks : OneEmpty(MapBlks, "MAP", Block_Status', high)
      BY <2>5 DEF StatusInv, OneEmpty
    <2>7. ~InDataGC'
      BY <2>2
    <2>8. InMapGC' => /\ mgc'.free \in MapBlks /\ Block_Status'[mgc'.free] = "EMPTY"
                      /\ mgc'.victim \in MapBlks /\ Block_Status'[mgc'.victim] = "MAP"
      BY <2>2, <2>5 DEF StatusInv
    <2> HIDE DEF InDataGC, InMapGC
    <2> QED BY <1>0, <2>1, <2>2, <2>4, <2>6, <2>7, <2>8 DEF StatusInv
  <1>12. CASE LoadMap
    <2>1. PICK l \in Lookups : CacheStep(lpn2vpn(l))
      BY <1>12 DEF LoadMap
    <2> DEFINE vpn == lpn2vpn(l)
    <2>2. gc' = gc /\ pc' = pc
      BY <1>12 DEF LoadMap, callVars
    <2> HIDE DEF vpn
    <2>3. CASE UseFreeSlot(vpn)
      BY <1>0, <2>2, <2>3, StatusFrame DEF UseFreeSlot, flashVars
    <2>4. CASE PickSlot(vpn)
      <3>1. CASE mpc' = "gc"
        <4>1. mgc' = CollectionOf("MAP", get_free_blk_map) /\ Block_Status' = Block_Status
          BY <2>4, <3>1 DEF PickSlot, flashVars
        <4> QED BY <2>2, <4>1, MapStart DEF StatusInv
      <3>2. CASE mpc' # "gc"
        BY <1>0, <2>2, <2>4, <3>2, StatusFrame DEF PickSlot, flashVars
      <3> QED BY <3>1, <3>2
    <2>5. CASE MapGCCopy
      <3>1. mgc' = [mgc EXCEPT !.i = @ + 1] \/ mgc' = [mgc EXCEPT !.i = @ + 1, !.cnt = @ + 1]
        BY <2>5 DEF MapGCCopy
      <3>2. mgc' \in Locals /\ mgc'.victim = mgc.victim /\ mgc'.free = mgc.free
        BY <1>0, <3>1, LocalsStep
      <3>3. Block_Status' = Block_Status /\ mpc' = mpc
        BY <2>5 DEF MapGCCopy
      <3> QED BY <1>0, <2>2, <3>2, <3>3, StatusFrame
    <2>6. CASE EvictSlot
      BY <1>0, <2>2, <2>6, StatusFrame DEF EvictSlot
    <2>7. CASE MapGCFinish
      <3>1. /\ mgc.free \in MapBlks /\ Block_Status[mgc.free] = "EMPTY"
            /\ mgc.victim \in MapBlks /\ Block_Status[mgc.victim] = "MAP"
        BY <2>7 DEF StatusInv, MapGCFinish
      <3>2. /\ Block_Status' = [Block_Status EXCEPT ![mgc.victim] = "EMPTY", ![mgc.free] = "MAP"]
            /\ mgc' = NoGC /\ mpc' = "evict"
        BY <2>7 DEF MapGCFinish, Retire
      <3>3. PICK high \in MapBlks : OneEmpty(MapBlks, "MAP", Block_Status, high)
        BY DEF StatusInv
      <3>4. /\ Block_Status' \in [Blks -> {"EMPTY", "DATA", "MAP"}]
            /\ \A blk \in Blks : Block_Status'[blk] = IF blk = mgc.victim THEN "EMPTY"
                                  ELSE IF blk = mgc.free THEN "MAP" ELSE Block_Status[blk]
            /\ OneEmpty(MapBlks, "MAP", Block_Status', mgc.victim)
        BY <3>1, <3>2, <3>3, Sides, Swapped, ZenonT(60)
      <3>5. \A blk \in DataBlks : Block_Status'[blk] = Block_Status[blk]
        BY <3>1, <3>4, Sides
      <3>6. \E low \in DataBlks : OneEmpty(DataBlks, "DATA", Block_Status', low)
        BY <3>5 DEF StatusInv, OneEmpty
      <3>7. ~InMapGC'
        BY <3>2
      <3>8. InDataGC' => /\ gc'.free \in DataBlks /\ Block_Status'[gc'.free] = "EMPTY"
                         /\ gc'.victim \in DataBlks /\ Block_Status'[gc'.victim] = "DATA"
        BY <2>2, <3>5 DEF StatusInv
      <3> HIDE DEF InDataGC, InMapGC
      <3> QED BY <1>0, <2>2, <3>1, <3>2, <3>4, <3>6, <3>7, <3>8 DEF StatusInv
    <2> QED BY <2>1, <2>3, <2>4, <2>5, <2>6, <2>7 DEF CacheStep, vpn
  <1>13. CASE UNCHANGED vars
    BY <1>0, <1>13, StatusFrame DEF vars, flashVars, mapVars, callVars
  <1> QED BY <1>1, <1>2, <1>3, <1>4, <1>5, <1>6, <1>7, <1>8, <1>9, <1>10, <1>11, <1>12, <1>13
          DEF Next, Step

\* With any geometry, however full the flash is: one empty block on either side,
\* and a collection's victim and target are the blocks it took (ftl.c:275, 571).
THEOREM StatusInvariance == Spec => []StatusInv
  BY StatusInit, StatusNext, PTL DEF Spec

\* Data and map blocks keep to their ends of the bank although both collections
\* take their free block from the same Block_Status, and although a collection of
\* map blocks may run while one of data blocks has not entered its free block yet
\* (get_free_blk_data, get_free_blk_map, ftl.c:275, 571, 664).
THEOREM RegionsStayApart == Spec => []RegionsApart
  <1>1. StatusInv => RegionsApart
    <2> SUFFICES ASSUME StatusInv PROVE RegionsApart
      OBVIOUS
    <2> DEFINE low == 0 .. N_PHY_DATA_BLK - 1
               side(S) == {blk \in S : Block_Status[blk] = "EMPTY"}
    <2>1. low = DataBlks /\ Blks \ low = MapBlks
      BY Sides DEF DataBlks
    <2>2. PICK x \in DataBlks : OneEmpty(DataBlks, "DATA", Block_Status, x)
      BY DEF StatusInv
    <2>3. PICK y \in MapBlks : OneEmpty(MapBlks, "MAP", Block_Status, y)
      BY DEF StatusInv
    <2>4. side(DataBlks) = {x} /\ side(MapBlks) = {y}
      BY <2>2, <2>3 DEF OneEmpty
    <2>5. Cardinality(side(DataBlks)) = 1 /\ Cardinality(side(MapBlks)) = 1
      BY <2>4, FS_Singleton
    <2>6. /\ \A blk \in Blks : Block_Status[blk] = "DATA" => blk \in DataBlks
          /\ \A blk \in Blks : Block_Status[blk] = "MAP" => blk \notin DataBlks
      BY <2>2, <2>3, Sides DEF OneEmpty
    <2>7. /\ InDataGC => gc.free \in side(DataBlks)
          /\ InMapGC => mgc.free \in side(MapBlks)
      BY DEF StatusInv
    <2> QED BY <2>1, <2>5, <2>6, <2>7 DEF RegionsApart
  <1> QED BY <1>1, StatusInvariance, PTL

-----------------------------------------------------------------------------
\* The mapping cache.

LEMMA PageKinds ==
    /\ \A p \in MapPages : p.spare \in Vpns /\ p # Erased /\ p \in Content /\ p.data \in MapContents
    /\ \A p \in DataPage : p.spare \in Lpns /\ p # Erased /\ p \in Content
    /\ Erased \in Content
  BY ErasedIsNoPage DEF MapPages, DataPage, Content

\* The logical pages of a map page have an entry each.
LEMMA LpnFacts ==
    /\ \A l \in Lpns : lpn2vpn(l) \in Vpns /\ EntryOf(l) \in Entries
    /\ \A l, m \in Lpns : lpn2vpn(l) = lpn2vpn(m) /\ EntryOf(l) = EntryOf(m) => l = m
  <1> DEFINE N == N_MAP_ENTRIES_PER_PAGE
             last == N_LPNS_PB - 1
  <1>1. N \in Nat \ {0} /\ N_LPNS_PB \in Nat
    BY Geometry DEF N_LPNS_PB
  <1> HIDE DEF N
  <1>2. ASSUME NEW l \in Lpns
        PROVE  /\ l = (l \div N) * N + (l % N) /\ l % N \in 0 .. N - 1
               /\ l \div N \in 0 .. last \div N
    <2>1. l \in Nat /\ last \in Nat /\ l <= last
      BY <1>1 DEF Lpns
    <2> HIDE DEF last
    <2>2. l \div N <= last \div N /\ last \div N \in Nat
      BY <1>1, <2>1
    <2>3. l = (l \div N) * N + (l % N) /\ l % N \in 0 .. N - 1 /\ l \div N \in Nat
      BY <1>1, <2>1, DivMod
    <2> QED BY <2>2, <2>3
  <1>3. \A l \in Lpns : lpn2vpn(l) \in Vpns /\ EntryOf(l) \in Entries
    BY <1>2 DEF lpn2vpn, EntryOf, Vpns, Entries, N
  <1>4. ASSUME NEW l \in Lpns, NEW m \in Lpns, lpn2vpn(l) = lpn2vpn(m), EntryOf(l) = EntryOf(m)
        PROVE  l = m
    <2>1. l \div N = m \div N /\ l % N = m % N
      BY <1>4 DEF lpn2vpn, EntryOf, N
    <2> QED BY <1>2, <2>1
  <1> QED BY <1>3, <1>4

\* Where no map page has two slots, a map page has the slot that holds it.
LEMMA SlotFacts ==
    ASSUME NEW cmt, Unique(cmt), NEW v
    PROVE  LET held == {slot \in Slots : cmt[slot].vpn = v} IN
           /\ held # {} => Lowest(held) \in Slots /\ cmt[Lowest(held)].vpn = v
           /\ \A s \in Slots : cmt[s].vpn = v => held # {} /\ (v # -1 => Lowest(held) = s)
  <1> DEFINE held == {slot \in Slots : cmt[slot].vpn = v}
  <1>1. held \in SUBSET Nat
    BY Geometry DEF Slots
  <1>2. held # {} => Lowest(held) \in held
    <2> HIDE DEF held
    <2> QED BY <1>1, LowestHighest
  <1> QED BY <1>2 DEF Unique

\* MapPage as a function of the tables it reads.
PageIn(cmt, gtd, cell, v) ==
    LET held == {slot \in Slots : cmt[slot].vpn = v} IN
    IF held # {} THEN cmt[Lowest(held)].data
    ELSE IF gtd[v] >= 0 /\ cell[gtd[v]] # Erased THEN cell[gtd[v]].data
    ELSE Unmapped

LEMMA MapPageIn ==
    \A v : /\ MapPage(v) = PageIn(CMT, GTD, nand.cell, v)
          /\ MapPage(v)' = PageIn(CMT', GTD', nand'.cell, v)
  BY DEF MapPage, PageIn, Cached, SlotOf, SlotsWith, Written

LEMMA PageInFacts ==
    ASSUME NEW cmt, Unique(cmt), NEW gtd, NEW cell, NEW v \in Vpns
    PROVE  /\ \A s \in Slots : cmt[s].vpn = v => PageIn(cmt, gtd, cell, v) = cmt[s].data
           /\ (\A s \in Slots : cmt[s].vpn # v) =>
                 /\ gtd[v] = -1 => PageIn(cmt, gtd, cell, v) = Unmapped
                 /\ gtd[v] \in Ppns /\ cell[gtd[v]] # Erased =>
                       PageIn(cmt, gtd, cell, v) = cell[gtd[v]].data
  <1>1. v # -1
    BY DEF Vpns
  <1>2. \A q \in Ppns : q >= 0
    BY PpnFacts
  <1>3. ASSUME NEW s \in Slots, cmt[s].vpn = v PROVE PageIn(cmt, gtd, cell, v) = cmt[s].data
    BY <1>1, <1>3, SlotFacts DEF PageIn
  <1> QED BY <1>2, <1>3 DEF PageIn

\* What a step of the cache may not do: change the map, or touch the data blocks.
MapKept == \A v \in Vpns : MapPage(v)' = MapPage(v)
DataBlksKept ==
    /\ \A q \in Ppns : BlkOf(q) \in DataBlks =>
          nand'.cell[q] = nand.cell[q] /\ isValid'[q] = isValid[q]
    /\ \A blk \in DataBlks : Block_Status'[blk] = Block_Status[blk]

\* A directory entry leads to a written page of the map blocks.
LEMMA DirectoryFacts ==
    ASSUME MapTypes, MapLog, NEW v \in Vpns, GTD[v] # -1
    PROVE  /\ GTD[v] \in Ppns /\ BlkOf(GTD[v]) \in MapBlks
           /\ Written(GTD[v]) /\ nand.cell[GTD[v]] \in MapPages
           /\ nand.cell[GTD[v]].spare = v /\ isValid[GTD[v]] = 1
  BY DEF MapTypes, MapLog, Log, Table, Contents, Written

\* use_free_slot finds the entries of the page: in flash, or none yet.
LEMMA UseFreeSlotStep ==
    ASSUME ChipInv, StatusInv, MapInv, NEW vpn \in Vpns, UseFreeSlot(vpn)
    PROVE  ChipInv' /\ MapInv' /\ MapKept /\ DataBlksKept
  <1>1. /\ mpc = "idle" /\ (\A s \in Slots : CMT[s].vpn # vpn)
        /\ UNCHANGED <<nand, isValid, Block_Status, GTD, Next_Map_PPN, GC_Trigger_Map_PPN, mpc,
                       victim_slot, mgc>>
    BY DEF UseFreeSlot, flashVars, Cached, SlotsWith
  <1>2. PICK free \in Slots : CMT[free].vpn = -1 /\ free = SlotOf(-1)
    <2>1. Unique(CMT) /\ Cached(-1)
      BY DEF MapInv, CacheInv, UseFreeSlot
    <2> QED BY <2>1, SlotFacts, ZenonT(60) DEF Cached, SlotOf, SlotsWith
  <1>3. PICK entries \in EntriesFor(vpn, free) :
           CMT' = [CMT EXCEPT ![free] = [vpn |-> vpn, dirty |-> TRUE, data |-> entries]]
    BY <1>2 DEF UseFreeSlot, LoadedDirty
  <1>4. entries = MapPage(vpn) /\ entries \in MapContents
    <2>1. CASE GTD[vpn] # -1
      <3>1. /\ GTD[vpn] \in Ppns /\ Written(GTD[vpn])
            /\ nand.cell[GTD[vpn]] \in MapPages
        BY <2>1, DirectoryFacts DEF MapInv
      <3>2. GTD[vpn] >= 0
        BY <3>1, PpnFacts
      <3>3. entries = nand.cell[GTD[vpn]].data
        BY <1>3, <3>1, <3>2 DEF EntriesFor, PagesRead
      <3>4. MapPage(vpn) = nand.cell[GTD[vpn]].data
        BY <1>1, <3>1, PageInFacts, MapPageIn DEF MapInv, CacheInv, Written
      <3> QED BY <3>1, <3>3, <3>4, PageKinds
    <2>2. CASE GTD[vpn] = -1
      <3>1. is_VPN_first_time[vpn]
        BY <1>1, <2>2 DEF MapInv, CacheInv
      <3>2. entries = Unmapped
        BY <1>3, <2>2, <3>1 DEF EntriesFor
      <3>3. MapPage(vpn) = Unmapped
        BY <1>1, <2>2, PageInFacts, MapPageIn DEF MapInv, CacheInv
      <3> QED BY <3>2, <3>3 DEF Unmapped, MapContents
    <2> QED BY <2>1, <2>2
  <1>5. /\ CMT'[free] = [vpn |-> vpn, dirty |-> TRUE, data |-> entries]
        /\ \A s \in Slots : s # free => CMT'[s] = CMT[s]
    BY <1>2, <1>3 DEF MapInv, MapTypes
  <1>6. ~is_VPN_first_time'[vpn] /\ \A v \in Vpns : v # vpn => is_VPN_first_time'[v] = is_VPN_first_time[v]
    <2>1. is_VPN_first_time' = [is_VPN_first_time EXCEPT ![vpn] = @ /\ GTD[vpn] >= 0]
      BY DEF UseFreeSlot
    <2>2. is_VPN_first_time[vpn] => ~(GTD[vpn] >= 0)
      BY DEF MapInv, CacheInv
    <2> QED BY <2>1, <2>2 DEF MapInv, MapTypes
  <1>7. MapTypes'
    <2>1. CMT' \in [Slots -> [vpn : Vpns \cup {-1}, dirty : BOOLEAN, data : MapContents]]
      BY <1>2, <1>3, <1>4 DEF MapInv, MapTypes
    <2>2. is_VPN_first_time' \in [Vpns -> BOOLEAN]
      BY DEF UseFreeSlot, MapInv, MapTypes
    <2> QED BY <1>1, <2>1, <2>2 DEF MapInv, MapTypes
  <1>8. MapLog'
    BY <1>1 DEF MapInv, MapLog, InMapGC
  <1>9. Unique(CMT')
    BY <1>1, <1>2, <1>5 DEF MapInv, CacheInv, Unique
  <1>10. CacheInv'
    <2>1. \A s \in Slots : CMT'[s].vpn # -1 => CMT'[s].dirty
      BY <1>5 DEF MapInv, CacheInv
    <2>2. ASSUME NEW v \in Vpns
          PROVE  is_VPN_first_time'[v] <=> GTD[v] = -1 /\ \A s \in Slots : CMT'[s].vpn # v
      <3>1. v # -1
        BY DEF Vpns
      <3> QED BY <1>2, <1>5, <1>6, <3>1 DEF MapInv, CacheInv
    <2> QED BY <1>1, <1>9, <2>1, <2>2 DEF CacheInv
  <1>11. MapKept
    <2> SUFFICES ASSUME NEW v \in Vpns PROVE MapPage(v)' = MapPage(v)
      BY DEF MapKept
    <2>1. CASE v = vpn
      BY <1>2, <1>4, <1>5, <1>9, <2>1, PageInFacts, MapPageIn
    <2>2. CASE v # vpn /\ \E s \in Slots : CMT[s].vpn = v
      <3>1. PICK s \in Slots : CMT[s].vpn = v
        BY <2>2
      <3>2. s # free /\ CMT'[s] = CMT[s]
        BY <1>2, <1>5, <3>1 DEF Vpns
      <3> QED BY <1>9, <3>1, <3>2, PageInFacts, MapPageIn DEF MapInv, CacheInv
    <2>3. CASE v # vpn /\ \A s \in Slots : CMT[s].vpn # v
      <3>1. \A s \in Slots : CMT'[s].vpn # v
        BY <1>5, <2>3
      <3>2. {s \in Slots : CMT'[s].vpn = v} = {s \in Slots : CMT[s].vpn = v}
        BY <2>3, <3>1
      <3> QED BY <1>1, <2>3, <3>1, <3>2, MapPageIn DEF PageIn
    <2> QED BY <2>1, <2>2, <2>3
  <1> QED BY <1>1, <1>7, <1>8, <1>10, <1>11 DEF MapInv, ChipInv, DataBlksKept

\* The slots and the directory as they are when neither changes.
LEMMA MapSame ==
    ASSUME MapInv, CMT' = CMT, GTD' = GTD,
           \A q \in Ppns : BlkOf(q) \in MapBlks /\ Written(q) => nand'.cell[q] = nand.cell[q]
    PROVE  MapKept
  <1> SUFFICES ASSUME NEW v \in Vpns PROVE MapPage(v)' = MapPage(v)
    BY DEF MapKept
  <1>1. CASE GTD[v] # -1
    <2>1. nand'.cell[GTD[v]] = nand.cell[GTD[v]]
      BY <1>1, DirectoryFacts DEF MapInv
    <2> QED BY <2>1, MapPageIn DEF PageIn
  <1>2. CASE GTD[v] = -1
    <2>1. ~(GTD[v] >= 0)
      BY <1>2
    <2> QED BY <2>1, MapPageIn DEF PageIn
  <1> QED BY <1>1, <1>2

\* make_free_slot: nothing but the victim is chosen.  If the map blocks are full
\* one of their pages is out of use, for there are more of them than map pages.
LEMMA PickSlotStep ==
    ASSUME StartsWell, ChipInv, StatusInv, MapInv, NEW vpn \in Vpns, PickSlot(vpn)
    PROVE  ChipInv' /\ MapInv' /\ MapKept /\ DataBlksKept
  <1>1. /\ mpc = "idle" /\ (\A s \in Slots : CMT[s].vpn # -1)
        /\ victim_slot' \in Slots
        /\ UNCHANGED <<nand, isValid, Block_Status, CMT, GTD, is_VPN_first_time,
                       Next_Map_PPN, GC_Trigger_Map_PPN>>
    BY DEF PickSlot, flashVars, Cached, SlotsWith
  <1>2. CMT[victim_slot'].dirty
    BY <1>1 DEF MapInv, CacheInv
  <1>3. MapKept /\ DataBlksKept
    BY <1>1, MapSame DEF DataBlksKept
  <1>4. Next_Map_PPN \in Nat /\ GC_Trigger_Map_PPN \in Nat /\ Next_Map_PPN <= GC_Trigger_Map_PPN
    BY Geometry DEF MapInv, MapTypes, EndPpns, MapLog, Log, Frontier
  <1>5. CASE AtMapTrigger
    <2> DEFINE g == CollectionOf("MAP", get_free_blk_map)
    <2>1. mpc' = "gc" /\ mgc' = g
      BY <1>2, <1>5 DEF PickSlot
    <2>2. /\ g \in [victim : Blks, free : Blks, i : Int, cnt : Int]
          /\ g.i = 0 /\ g.cnt = 0
          /\ g.free \in MapBlks /\ Block_Status[g.free] = "EMPTY"
          /\ g.victim \in MapBlks /\ Block_Status[g.victim] = "MAP"
          /\ \A blk \in Blks :
                Block_Status[blk] = "MAP" /\ Reclaimable(isValid, blk) => Reclaimable(isValid, g.victim)
      BY MapStart
    <2> HIDE DEF g
    <2>3. Log(MapBlks, "MAP", Vpns, MapPages, nand.cell, isValid, Block_Status, GTD,
              Next_Map_PPN, GC_Trigger_Map_PPN, FALSE, mgc)
      <3>1. InMapGC = FALSE
        BY <1>1 DEF InMapGC
      <3> QED BY <3>1 DEF MapInv, MapLog
    <2>4. EnoughRoom => AnyReclaimable(MapBlks, "MAP", isValid, Block_Status)
      <3> SUFFICES ASSUME EnoughRoom PROVE AnyReclaimable(MapBlks, "MAP", isValid, Block_Status)
        OBVIOUS
      <3>1. Spare(Vpns, N_PHY_DATA_BLK, BLKS_PER_BANK)
        <4>1. lpn2vpn(N_LPNS_PB - 1) \in Int
          BY Geometry DEF lpn2vpn, N_LPNS_PB
        <4> QED BY <4>1, FS_Interval DEF Vpns, EnoughRoom, Spare
      <3>2. PICK free \in MapBlks : OneEmpty(MapBlks, "MAP", Block_Status, free)
        BY DEF StatusInv
      <3>3. Flags(isValid)
        BY DEF ChipInv, Flags
      <3>4. /\ N_PHY_DATA_BLK \in Nat /\ BLKS_PER_BANK \in Nat /\ N_PHY_DATA_BLK < BLKS_PER_BANK
            /\ BLKS_PER_BANK <= BLKS_PER_BANK
        BY Geometry
      <3>5. Next_Map_PPN = GC_Trigger_Map_PPN
        BY <1>5 DEF AtMapTrigger
      <3>8. Keyed(MapPages, Vpns)
        BY PageKinds DEF Keyed
      <3>9. MapBlks = BlksFrom(N_PHY_DATA_BLK, BLKS_PER_BANK)
        BY DEF MapBlks, BlksFrom
      <3> QED BY <1>4, <2>3, <3>1, <3>2, <3>3, <3>4, <3>5, <3>8, <3>9, FullLogHasInvalid
    <2>5. Log(MapBlks, "MAP", Vpns, MapPages, nand.cell, isValid, Block_Status, GTD,
              Next_Map_PPN, GC_Trigger_Map_PPN, TRUE, g)
      <3>1. Reclaimable(isValid, g.victim)
        <4>1. CASE EnoughRoom
          BY <2>2, <2>4, <4>1, Sides DEF AnyReclaimable
        <4>2. CASE CollectionsReclaim'
          <5>1. InMapGC' /\ mgc' = g /\ isValid' = isValid
            BY <1>1, <2>1 DEF InMapGC
          <5> QED BY <4>2, <5>1 DEF CollectionsReclaim, Reclaimable
        <4> QED BY <4>1, <4>2 DEF StartsWell
      <3> QED BY <1>5, <2>2, <2>3, <3>1, Sides, StartLog DEF AtMapTrigger
    <2>6. MapLog'
      <3>1. InMapGC' = TRUE
        BY <2>1 DEF InMapGC
      <3> QED BY <1>1, <2>1, <2>5, <3>1 DEF MapLog
    <2>7. MapTypes'
      <3>1. g \in LocalsOfGC
        BY <2>2, Geometry DEF LocalsOfGC
      <3> QED BY <1>1, <2>1, <3>1 DEF MapInv, MapTypes
    <2>8. CacheInv'
      BY <1>1, <2>1 DEF MapInv, CacheInv
    <2> QED BY <1>1, <1>3, <2>6, <2>7, <2>8 DEF MapInv, ChipInv
  <1>6. CASE ~AtMapTrigger
    <2>1. mpc' = "evict" /\ mgc' = NoGC
      BY <1>6 DEF PickSlot
    <2>2. Next_Map_PPN < GC_Trigger_Map_PPN
      BY <1>4, <1>6 DEF AtMapTrigger
    <2>3. MapTypes'
      <3>1. NoGC \in LocalsOfGC
        BY Geometry, Sides DEF NoGC, LocalsOfGC
      <3> QED BY <1>1, <2>1, <3>1 DEF MapInv, MapTypes
    <2>4. MapLog'
      BY <1>1, <2>1 DEF MapInv, MapLog, InMapGC, Log, Frontier, Table
    <2>5. CacheInv'
      BY <1>1, <2>1, <2>2 DEF MapInv, CacheInv
    <2> QED BY <1>1, <1>3, <2>3, <2>4, <2>5 DEF MapInv, ChipInv
  <1> QED BY <1>5, <1>6

\* The data blocks are other blocks.
LEMMA OtherSide ==
    ASSUME NEW q \in Ppns
    PROVE  BlkOf(q) \in DataBlks <=> BlkOf(q) \notin MapBlks
  BY Sides, PpnFacts

\* original_make_free_slot: the page of the slot becomes the current copy.
LEMMA EvictSlotStep ==
    ASSUME ChipInv, StatusInv, MapInv, EvictSlot
    PROVE  ChipInv' /\ MapInv' /\ MapKept /\ DataBlksKept
  <1> DEFINE vpn == CMT[victim_slot].vpn
             n == Next_Map_PPN
             page == [data |-> CMT[victim_slot].data, spare |-> vpn]
  <1>1. mpc = "evict" /\ victim_slot \in Slots /\ vpn \in Vpns /\ CMT[victim_slot].dirty
    BY DEF EvictSlot, MapInv, MapTypes, CacheInv
  <1>2. /\ isValid' = Superseded(GTD[vpn])
        /\ GTD' = [GTD EXCEPT ![vpn] = n]
        /\ nand' = NandWrite(nand, BlkOf(n), PageOf(n), page)
        /\ Next_Map_PPN' = n + 1
        /\ CMT' = [CMT EXCEPT ![victim_slot].vpn = -1, ![victim_slot].dirty = FALSE]
        /\ mpc' = "idle" /\ victim_slot' = 0
        /\ UNCHANGED <<Block_Status, is_VPN_first_time, GC_Trigger_Map_PPN, mgc>>
    BY <1>1 DEF EvictSlot
  <1>3. page \in MapPages /\ page.spare = vpn
    BY <1>1 DEF MapPages, MapInv, MapTypes
  <1> HIDE DEF vpn, page
  <1>4. /\ n \in Nat /\ GC_Trigger_Map_PPN \in Nat /\ n < GC_Trigger_Map_PPN
        /\ GC_Trigger_Map_PPN \in EndPpns
    BY <1>1, Geometry DEF MapInv, MapTypes, EndPpns, CacheInv
  <1>5. Log(MapBlks, "MAP", Vpns, MapPages, nand.cell, isValid, Block_Status, GTD,
            n, GC_Trigger_Map_PPN, FALSE, mgc)
    <2>1. InMapGC = FALSE
      BY <1>1 DEF InMapGC
    <2> QED BY <2>1 DEF MapInv, MapLog
  <1>6. Flags(isValid)
    BY DEF ChipInv, Flags
  <1>7. Fresh(nand, isValid, MapBlks, n)
    <2>1. nand \in Chip(Content) /\ Prefix(nand) /\ MapBlks \in SUBSET Blks
      BY Sides DEF ChipInv
    <2> HIDE DEF n
    <2> QED BY <1>4, <1>5, <1>6, <2>1, NextWritable
  <1>8. /\ nand' \in Chip(Content) /\ Prefix(nand')
        /\ Update(nand'.cell, nand.cell, Ppns, n, page)
    BY <1>2, <1>3, <1>7, PageKinds, NandWriteFacts DEF ChipInv, Fresh
  <1>9. GTD[vpn] # -1 => GTD[vpn] \in Ppns /\ BlkOf(GTD[vpn]) \in MapBlks /\ GTD[vpn] >= 0
    BY <1>1, DirectoryFacts, PpnFacts DEF MapInv
  <1>10. Update(isValid', isValid, Ppns, GTD[vpn], 0)
    <2>1. \A q \in Ppns : q >= 0
      BY PpnFacts
    <2> QED BY <1>2, <1>9, <2>1 DEF Superseded, ChipInv, Update
  <1>11. Update(GTD', GTD, Vpns, vpn, n)
    BY <1>1, <1>2 DEF MapInv, MapTypes, Update
  <1>12. ChipInv'
    <2>1. isValid' \in [Ppns -> {0, 1}]
      BY <1>2 DEF Superseded, ChipInv
    <2> QED BY <1>8, <2>1 DEF ChipInv
  <1>13. MapLog'
    <2>1. Log(MapBlks, "MAP", Vpns, MapPages, nand'.cell, isValid', Block_Status, GTD',
              n + 1, GC_Trigger_Map_PPN, FALSE, mgc)
      <3>1. MapBlks \in SUBSET Blks /\ Keyed(MapPages, Vpns)
        BY PageKinds, Sides DEF Keyed
      <3> HIDE DEF n
      <3> QED BY <1>1, <1>3, <1>4, <1>5, <1>6, <1>8, <1>10, <1>11, <3>1, AppendLog
    <2>2. InMapGC' = FALSE
      BY <1>2 DEF InMapGC
    <2> QED BY <1>2, <2>1, <2>2 DEF MapLog
  <1>14. /\ CMT'[victim_slot].vpn = -1 /\ CMT'[victim_slot].data = CMT[victim_slot].data
         /\ \A s \in Slots : s # victim_slot => CMT'[s] = CMT[s]
         /\ CMT' \in [Slots -> [vpn : Vpns \cup {-1}, dirty : BOOLEAN, data : MapContents]]
    BY <1>1, <1>2 DEF MapInv, MapTypes
  <1>15. MapTypes'
    <2>1. GTD' \in [Vpns -> Ppns \cup {-1}]
      BY <1>2, <1>7 DEF MapInv, MapTypes, Fresh
    <2>2. n + 1 \in EndPpns
      BY <1>4, Geometry DEF EndPpns
    <2>3. 0 \in Slots
      BY Geometry DEF Slots
    <2> QED BY <1>2, <1>14, <2>1, <2>2, <2>3 DEF MapInv, MapTypes
  <1>16. \A s \in Slots : CMT[s].vpn = vpn => s = victim_slot
    BY <1>1 DEF MapInv, CacheInv, Unique, vpn
  <1>17. vpn # -1 /\ n # -1
    BY <1>1, <1>7, PpnFacts DEF Vpns, Fresh
  <1>18. CacheInv'
    <2>1. Unique(CMT')
      BY <1>14 DEF MapInv, CacheInv, Unique
    <2>2. \A s \in Slots : CMT'[s].vpn # -1 => CMT'[s].dirty
      BY <1>14 DEF MapInv, CacheInv
    <2>3. ASSUME NEW v \in Vpns
          PROVE  is_VPN_first_time[v] <=> GTD'[v] = -1 /\ \A s \in Slots : CMT'[s].vpn # v
      <3>1. is_VPN_first_time[v] <=> GTD[v] = -1 /\ \A s \in Slots : CMT[s].vpn # v
        BY DEF MapInv, CacheInv
      <3>2. CASE v = vpn
        BY <1>1, <1>11, <1>17, <3>1, <3>2 DEF vpn, Update
      <3>3. CASE v # vpn
        <4>1. v # -1
          BY DEF Vpns
        <4> QED BY <1>1, <1>11, <1>14, <3>1, <3>3, <4>1 DEF vpn, Update
      <3> QED BY <3>2, <3>3
    <2> QED BY <1>2, <2>1, <2>2, <2>3 DEF CacheInv
  <1>19. MapKept
    <2> SUFFICES ASSUME NEW v \in Vpns PROVE MapPage(v)' = MapPage(v)
      BY DEF MapKept
    <2>1. Unique(CMT) /\ Unique(CMT') /\ v # -1
      BY <1>18 DEF MapInv, CacheInv, Vpns
    <2>2. CASE v = vpn
      <3>1. MapPage(v) = CMT[victim_slot].data
        BY <1>1, <2>1, <2>2, PageInFacts, MapPageIn DEF vpn
      <3>2. \A s \in Slots : CMT'[s].vpn # v
        BY <1>14, <1>16, <1>17, <2>2
      <3>3. GTD'[v] \in Ppns /\ nand'.cell[GTD'[v]] = page /\ page # Erased
        BY <1>3, <1>7, <1>8, <1>11, <2>2, PageKinds DEF Update, Fresh
      <3>4. MapPage(v)' = page.data
        BY <2>1, <3>2, <3>3, PageInFacts, MapPageIn
      <3> QED BY <3>1, <3>4 DEF page
    <2>3. CASE v # vpn /\ \E s \in Slots : CMT[s].vpn = v
      <3>1. PICK s \in Slots : CMT[s].vpn = v
        BY <2>3
      <3>2. s # victim_slot /\ CMT'[s] = CMT[s]
        BY <1>14, <2>3, <3>1 DEF vpn
      <3> QED BY <2>1, <3>1, <3>2, PageInFacts, MapPageIn
    <2>4. CASE v # vpn /\ \A s \in Slots : CMT[s].vpn # v
      <3>1. \A s \in Slots : CMT'[s].vpn # v
        BY <1>14, <2>1, <2>4
      <3>2. GTD'[v] = GTD[v]
        BY <1>11, <2>4 DEF Update
      <3>3. CASE GTD[v] = -1
        BY <2>1, <2>4, <3>1, <3>2, <3>3, PageInFacts, MapPageIn
      <3>4. CASE GTD[v] # -1
        <4>1. GTD[v] \in Ppns /\ nand.cell[GTD[v]] # Erased
          BY <3>4, DirectoryFacts DEF MapInv, Written
        <4>2. nand'.cell[GTD[v]] = nand.cell[GTD[v]]
          BY <1>7, <1>8, <4>1 DEF Update, Fresh
        <4> QED BY <2>1, <2>4, <3>1, <3>2, <4>1, <4>2, PageInFacts, MapPageIn
      <3> QED BY <3>3, <3>4
    <2> QED BY <2>2, <2>3, <2>4
  <1>20. DataBlksKept
    <2>1. ASSUME NEW q \in Ppns, BlkOf(q) \in DataBlks
          PROVE  q # n /\ q # GTD[vpn]
      <3>1. BlkOf(q) \notin MapBlks
        BY <2>1, OtherSide
      <3>2. q # -1
        BY PpnFacts
      <3> QED BY <1>7, <1>9, <3>1, <3>2 DEF Fresh
    <2> QED BY <1>2, <1>8, <1>10, <2>1 DEF DataBlksKept, Update
  <1> QED BY <1>12, <1>13, <1>15, <1>18, <1>19, <1>20 DEF MapInv

\* The empty block of a kind is the one a collection copies to.
LEMMA FreeIsEmpty ==
    ASSUME StatusInv
    PROVE  /\ InMapGC => OneEmpty(MapBlks, "MAP", Block_Status, mgc.free)
           /\ InDataGC => OneEmpty(DataBlks, "DATA", Block_Status, gc.free)
  BY DEF StatusInv, OneEmpty

\* What the loops of a collection count, from their types and the log.
LEMMA LocalsBound ==
    ASSUME NEW g \in [victim : Blks, free : Blks, i : Int, cnt : Int],
           NEW R \in SUBSET Blks, NEW kind, NEW keys, NEW pages,
           NEW cell, NEW valid, NEW status, NEW table, NEW next, NEW end,
           Log(R, kind, keys, pages, cell, valid, status, table, next, end, TRUE, g)
    PROVE  g \in LocalsOfGC
  <1>1. g.i \in 0 .. PAGES_PER_BLK /\ g.cnt \in 0 .. g.i
    BY CollectingFacts
  <1>2. g.cnt \in 0 .. PAGES_PER_BLK
    BY <1>1, Geometry
  <1> QED BY <1>1, <1>2 DEF LocalsOfGC

\* map_garbage_collection, a page: the copy carries what the map page holds,
\* from the cache if it is cached.
LEMMA MapGCCopyStep ==
    ASSUME ChipInv, StatusInv, MapInv, MapGCCopy
    PROVE  ChipInv' /\ MapInv' /\ MapKept /\ DataBlksKept
  <1> DEFINE src == Ppn(mgc.victim, mgc.i)
             dst == Ppn(mgc.free, mgc.cnt)
  <1>1. /\ mpc = "gc" /\ mpc' = "gc" /\ mgc.i < PAGES_PER_BLK
        /\ UNCHANGED <<isValid, Block_Status, CMT, is_VPN_first_time,
                       Next_Map_PPN, GC_Trigger_Map_PPN, victim_slot>>
    BY DEF MapGCCopy
  <1>2. Log(MapBlks, "MAP", Vpns, MapPages, nand.cell, isValid, Block_Status, GTD,
            Next_Map_PPN, GC_Trigger_Map_PPN, TRUE, mgc)
    <2>1. InMapGC = TRUE
      BY <1>1 DEF InMapGC
    <2> QED BY <2>1 DEF MapInv, MapLog
  <1>3. mgc \in [victim : Blks, free : Blks, i : Int, cnt : Int]
    BY DEF StatusInv
  <1>4. /\ mgc.i \in Nat /\ mgc.i \in Pages /\ mgc.victim \in Blks
        /\ src \in Ppns /\ BlkOf(src) = mgc.victim /\ PageOf(src) = mgc.i
    <2>1. mgc.i \in Nat /\ mgc.victim \in Blks
      BY <1>2, CollectingFacts, Sides
    <2>2. mgc.i \in Pages
      BY <1>1, <2>1, Geometry DEF Pages
    <2> QED BY <2>1, <2>2, PpnFacts
  <1> HIDE DEF src, dst
  <1>5. MapBlks \in SUBSET Blks /\ Flags(isValid) /\ Keyed(MapPages, Vpns)
    BY Sides, PageKinds DEF ChipInv, Flags, Keyed
  <1>6. CASE isValid[src] = 0
    <2>1. nand' = nand /\ GTD' = GTD /\ mgc' = [mgc EXCEPT !.i = @ + 1]
      BY <1>6 DEF MapGCCopy, src
    <2>2. /\ mgc' \in [victim : Blks, free : Blks, i : Int, cnt : Int]
          /\ Advanced(mgc', mgc, 0)
      <3>1. /\ mgc' \in [victim : Blks, free : Blks, i : Int, cnt : Int]
            /\ mgc'.victim = mgc.victim /\ mgc'.free = mgc.free
            /\ mgc'.i = mgc.i + 1 /\ mgc'.cnt = mgc.cnt
        BY <1>3, <2>1, LocalsStep
      <3>2. mgc.cnt + 0 = mgc.cnt
        BY <1>3
      <3> QED BY <3>1, <3>2 DEF Advanced
    <2>3. Log(MapBlks, "MAP", Vpns, MapPages, nand.cell, isValid, Block_Status, GTD,
              Next_Map_PPN, GC_Trigger_Map_PPN, TRUE, mgc')
      BY <1>1, <1>2, <1>5, <1>6, <2>2, SkipLog DEF src
    <2>4. mgc' \in LocalsOfGC
      BY <1>5, <2>2, <2>3, LocalsBound
    <2>5. MapTypes' /\ CacheInv'
      BY <1>1, <2>1, <2>4 DEF MapInv, MapTypes, CacheInv
    <2>6. MapLog'
      <3>1. InMapGC' = TRUE
        BY <1>1 DEF InMapGC
      <3> QED BY <1>1, <2>1, <2>3, <3>1 DEF MapLog
    <2>7. MapKept /\ DataBlksKept
      BY <1>1, <2>1, MapSame DEF DataBlksKept
    <2> QED BY <1>1, <2>1, <2>5, <2>6, <2>7 DEF MapInv, ChipInv
  <1>7. CASE isValid[src] # 0
    <2> DEFINE v == nand.cell[src].spare
               page == CacheFirst(nand.cell[src])
    <2>1. isValid[src] = 1
      BY <1>4, <1>5, <1>7 DEF Flags
    <2>2. Written(src) /\ nand.cell[src] \in MapPages /\ v \in Vpns /\ GTD[v] = src
      <3>1. /\ mgc.victim \in MapBlks /\ Block_Status[mgc.victim] = "MAP"
            /\ Next_Map_PPN = GC_Trigger_Map_PPN
        BY <1>2 DEF Log, Collecting
      <3>2. Next_Map_PPN \in Nat /\ src \in Nat
        BY <1>4, PpnFacts, Geometry DEF MapInv, MapTypes, EndPpns
      <3>3. nand.cell[src] # Erased
        BY <1>2, <1>4, <3>1, <3>2 DEF Log, Frontier
      <3>4. nand.cell[src] \in MapPages
        BY <1>2, <1>4, <3>1, <3>3 DEF Log, Contents
      <3>5. ~Passed(mgc, src)
        BY <1>4 DEF Passed
      <3> QED BY <1>2, <1>4, <2>1, <3>1, <3>3, <3>4, <3>5, PageKinds DEF Log, Table, Written
    <2>3. page \in MapPages /\ page.spare = v /\ page # Erased /\ page \in Content
      <3>1. CASE Cached(v)
        <4>1. CMT[SlotOf(v)].data \in MapContents
          <5>1. Unique(CMT)
            BY DEF MapInv, CacheInv
          <5>2. SlotOf(v) \in Slots
            BY <3>1, <5>1, SlotFacts DEF Cached, SlotOf, SlotsWith
          <5> QED BY <5>2 DEF MapInv, MapTypes
        <4> QED BY <2>2, <3>1, <4>1, PageKinds DEF CacheFirst, MapPages
      <3>2. CASE ~Cached(v)
        BY <2>2, <3>2, PageKinds DEF CacheFirst
      <3> QED BY <3>1, <3>2
    <2>4. /\ nand' = NandWrite(nand, mgc.free, mgc.cnt, page)
          /\ GTD' = [GTD EXCEPT ![v] = dst]
          /\ mgc' = [mgc EXCEPT !.i = @ + 1, !.cnt = @ + 1]
      BY <1>7, <2>2 DEF MapGCCopy, src, dst, PagesRead, MovedEntry
    <2>5. Fresh(nand, isValid, MapBlks, dst) /\ BlkOf(dst) = mgc.free /\ PageOf(dst) = mgc.cnt
      BY <1>2, <1>5, CopyWritable DEF ChipInv, dst
    <2> HIDE DEF page, v
    <2>6. /\ nand' \in Chip(Content) /\ Prefix(nand')
          /\ Update(nand'.cell, nand.cell, Ppns, dst, page)
      BY <2>3, <2>4, <2>5, NandWriteFacts DEF ChipInv, Fresh
    <2>7. Update(GTD', GTD, Vpns, v, dst)
      BY <2>2, <2>4 DEF MapInv, MapTypes, Update
    <2>8. /\ mgc' \in [victim : Blks, free : Blks, i : Int, cnt : Int]
          /\ Advanced(mgc', mgc, 1)
      BY <1>3, <2>4, LocalsStep DEF Advanced
    <2>9. Log(MapBlks, "MAP", Vpns, MapPages, nand'.cell, isValid, Block_Status, GTD',
              Next_Map_PPN, GC_Trigger_Map_PPN, TRUE, mgc')
      <3>1. Next_Map_PPN \in Nat
        BY Geometry DEF MapInv, MapTypes, EndPpns
      <3>2. OneEmpty(MapBlks, "MAP", Block_Status, mgc.free)
        BY <1>1, FreeIsEmpty DEF InMapGC
      <3>3. page.spare = nand.cell[Ppn(mgc.victim, mgc.i)].spare
        BY <2>3 DEF v, src
      <3>4. Update(nand'.cell, nand.cell, Ppns, Ppn(mgc.free, mgc.cnt), page)
        BY <2>6 DEF dst
      <3>5. Update(GTD', GTD, Vpns, page.spare, Ppn(mgc.free, mgc.cnt))
        BY <2>3, <2>7 DEF dst
      <3>6. isValid[Ppn(mgc.victim, mgc.i)] = 1
        BY <2>1 DEF src
      <3> QED BY <1>1, <1>2, <1>5, <2>3, <2>8, <3>1, <3>2, <3>3, <3>4, <3>5, <3>6, CopyLog
    <2>10. mgc' \in LocalsOfGC
      BY <1>5, <2>8, <2>9, LocalsBound
    <2>11. dst \in Ppns /\ dst # -1 /\ nand.cell[dst] = Erased /\ nand'.cell[dst] = page
      BY <2>5, <2>6, PpnFacts DEF Fresh, Update
    <2>12. MapTypes'
      <3>1. GTD' \in [Vpns -> Ppns \cup {-1}]
        BY <2>4, <2>11 DEF MapInv, MapTypes
      <3> QED BY <1>1, <2>10, <3>1 DEF MapInv, MapTypes
    <2>13. MapLog'
      <3>1. InMapGC' = TRUE
        BY <1>1 DEF InMapGC
      <3> QED BY <1>1, <2>9, <3>1 DEF MapLog
    <2>14. \A w \in Vpns : GTD'[w] = -1 <=> GTD[w] = -1
      <3>1. src # -1
        BY <1>4, PpnFacts
      <3> QED BY <2>2, <2>7, <2>11, <3>1 DEF Update
    <2>15. CacheInv'
      BY <1>1, <2>14 DEF MapInv, CacheInv
    <2>16. MapKept
      <3> SUFFICES ASSUME NEW w \in Vpns PROVE MapPage(w)' = MapPage(w)
        BY DEF MapKept
      <3>1. Unique(CMT) /\ CMT' = CMT
        BY <1>1 DEF MapInv, CacheInv
      <3>2. CASE \E s \in Slots : CMT[s].vpn = w
        BY <3>1, <3>2, PageInFacts, MapPageIn
      <3>3. CASE w = v /\ \A s \in Slots : CMT[s].vpn # w
        <4>1. page = nand.cell[src]
          BY <3>3 DEF page, CacheFirst, Cached, SlotsWith, v
        <4>2. MapPage(w) = nand.cell[src].data
          BY <1>4, <2>2, <3>1, <3>3, PageInFacts, MapPageIn DEF Written
        <4>3. GTD'[w] = dst
          BY <2>7, <3>3 DEF Update
        <4>4. MapPage(w)' = page.data
          BY <2>3, <2>11, <3>1, <3>3, <4>3, PageInFacts, MapPageIn
        <4> QED BY <4>1, <4>2, <4>4
      <3>4. CASE w # v /\ \A s \in Slots : CMT[s].vpn # w
        <4>1. GTD'[w] = GTD[w]
          BY <2>7, <3>4 DEF Update
        <4>2. CASE GTD[w] = -1
          BY <3>1, <3>4, <4>1, <4>2, PageInFacts, MapPageIn
        <4>3. CASE GTD[w] # -1
          <5>1. GTD[w] \in Ppns /\ nand.cell[GTD[w]] # Erased
            BY <4>3, DirectoryFacts DEF MapInv, Written
          <5>2. nand'.cell[GTD[w]] = nand.cell[GTD[w]]
            BY <2>6, <2>11, <5>1 DEF Update
          <5> QED BY <3>1, <3>4, <4>1, <5>1, <5>2, PageInFacts, MapPageIn
        <4> QED BY <4>2, <4>3
      <3> QED BY <3>2, <3>3, <3>4
    <2>17. DataBlksKept
      <3>1. ASSUME NEW q \in Ppns, BlkOf(q) \in DataBlks PROVE q # dst
        BY <2>5, <3>1, OtherSide DEF Fresh
      <3> QED BY <1>1, <2>6, <3>1 DEF DataBlksKept, Update
    <2> QED BY <1>1, <2>6, <2>12, <2>13, <2>15, <2>16, <2>17 DEF MapInv, ChipInv
  <1> QED BY <1>6, <1>7

\* The end of map_garbage_collection: the victim held nothing the directory
\* leads to.
LEMMA MapGCFinishStep ==
    ASSUME ChipInv, StatusInv, MapInv, MapGCFinish
    PROVE  ChipInv' /\ MapInv' /\ MapKept /\ DataBlksKept
  <1>1. /\ mpc = "gc" /\ mpc' = "evict" /\ mgc.i = PAGES_PER_BLK /\ mgc' = NoGC
        /\ Next_Map_PPN' = Ppn(mgc.free, mgc.cnt)
        /\ GC_Trigger_Map_PPN' = Ppn(mgc.free + 1, 0)
        /\ isValid' = Refreshed(mgc.victim)
        /\ nand' = NandErase(nand, mgc.victim)
        /\ Block_Status' = [Block_Status EXCEPT ![mgc.victim] = "EMPTY", ![mgc.free] = "MAP"]
        /\ UNCHANGED <<CMT, GTD, is_VPN_first_time, victim_slot>>
    BY DEF MapGCFinish, Retire
  <1>2. Log(MapBlks, "MAP", Vpns, MapPages, nand.cell, isValid, Block_Status, GTD,
            Next_Map_PPN, GC_Trigger_Map_PPN, TRUE, mgc)
    <2>1. InMapGC = TRUE
      BY <1>1 DEF InMapGC
    <2> QED BY <2>1 DEF MapInv, MapLog
  <1>3. /\ mgc.victim \in MapBlks /\ mgc.victim \in Blks /\ Block_Status[mgc.victim] = "MAP"
        /\ mgc.free \in MapBlks /\ mgc.free \in Blks /\ Block_Status[mgc.free] = "EMPTY"
    BY <1>1, Sides DEF StatusInv, InMapGC
  <1>4. OneEmpty(MapBlks, "MAP", Block_Status, mgc.free)
    BY <1>1, FreeIsEmpty DEF InMapGC
  <1>5. \A blk \in Blks : Block_Status'[blk] = IF blk = mgc.victim THEN "EMPTY"
                            ELSE IF blk = mgc.free THEN "MAP" ELSE Block_Status[blk]
    BY <1>1, <1>3, <1>4, Sides, Swapped, ZenonT(60)
  <1>6. /\ nand' \in Chip(Content) /\ Prefix(nand')
        /\ Wiped(nand'.cell, nand.cell, mgc.victim, Erased)
    BY <1>1, <1>3, PageKinds, NandEraseFacts DEF ChipInv
  <1>7. Wiped(isValid', isValid, mgc.victim, 1)
    BY <1>1 DEF Refreshed, Wiped
  <1>8. ChipInv'
    <2>1. isValid' \in [Ppns -> {0, 1}]
      BY <1>1 DEF Refreshed, ChipInv
    <2> QED BY <1>6, <2>1 DEF ChipInv
  <1>9. MapBlks \in SUBSET Blks /\ Keyed(MapPages, Vpns) /\ Next_Map_PPN \in Nat
    BY Sides, PageKinds, Geometry DEF Keyed, MapInv, MapTypes, EndPpns
  <1>10. /\ Log(MapBlks, "MAP", Vpns, MapPages, nand'.cell, isValid', Block_Status', GTD,
                 Ppn(mgc.free, mgc.cnt), Ppn(mgc.free, PAGES_PER_BLK), FALSE, NoGC)
         /\ Ppn(mgc.free, mgc.cnt) < Ppn(mgc.free, PAGES_PER_BLK)
    <2>1. Exchanged(Block_Status', Block_Status, MapBlks, "MAP", mgc)
      BY <1>5, Sides DEF Exchanged
    <2> QED BY <1>1, <1>2, <1>4, <1>6, <1>7, <1>9, <2>1, FinishLog
  <1>11. Ppn(mgc.free + 1, 0) = Ppn(mgc.free, PAGES_PER_BLK)
    BY <1>3, BlockInterval
  <1>12. Next_Map_PPN' \in EndPpns /\ GC_Trigger_Map_PPN' \in EndPpns
    <2>1. mgc.cnt \in Nat /\ mgc.cnt < PAGES_PER_BLK /\ PAGES_PER_BLK \in Nat
      BY <1>2, <1>9, CollectingFacts, Geometry
    <2> DEFINE F == mgc.free * PAGES_PER_BLK
               top == BLKS_PER_BANK * PAGES_PER_BLK
    <2>2. /\ F \in Nat /\ F + PAGES_PER_BLK <= top /\ top \in Nat
          /\ Ppn(mgc.free, mgc.cnt) = F + mgc.cnt
          /\ Ppn(mgc.free, PAGES_PER_BLK) = F + PAGES_PER_BLK
      BY <1>3, <2>1, BlockInterval, Geometry
    <2>3. EndPpns = 0 .. top
      BY DEF EndPpns
    <2> HIDE DEF F, top
    <2> QED BY <1>1, <1>11, <2>1, <2>2, <2>3
  <1>13. MapTypes'
    <2>1. NoGC \in LocalsOfGC
      BY Geometry, Sides DEF NoGC, LocalsOfGC
    <2> QED BY <1>1, <1>12, <2>1 DEF MapInv, MapTypes
  <1>14. MapLog'
    <2>1. InMapGC' = FALSE
      BY <1>1 DEF InMapGC
    <2> QED BY <1>1, <1>10, <1>11, <2>1 DEF MapLog
  <1>15. CacheInv'
    BY <1>1, <1>10, <1>11 DEF MapInv, CacheInv
  <1>16. MapKept
    <2> SUFFICES ASSUME NEW v \in Vpns PROVE MapPage(v)' = MapPage(v)
      BY DEF MapKept
    <2>1. CASE GTD[v] # -1
      <3>1. GTD[v] \in Ppns /\ ~Passed(mgc, GTD[v])
        BY <1>2, <2>1 DEF Log, Table
      <3>2. BlkOf(GTD[v]) # mgc.victim
        BY <1>1, <3>1, PpnFacts DEF Passed
      <3>3. nand'.cell[GTD[v]] = nand.cell[GTD[v]]
        BY <1>6, <3>1, <3>2 DEF Wiped
      <3> QED BY <1>1, <3>3, MapPageIn DEF PageIn
    <2>2. CASE GTD[v] = -1
      <3>1. ~(GTD[v] >= 0)
        BY <2>2
      <3> QED BY <1>1, <3>1, MapPageIn DEF PageIn
    <2> QED BY <2>1, <2>2
  <1>17. DataBlksKept
    <2>1. ASSUME NEW q \in Ppns, BlkOf(q) \in DataBlks PROVE BlkOf(q) # mgc.victim
      BY <1>3, <2>1, OtherSide
    <2>2. \A blk \in DataBlks : blk \in Blks /\ blk # mgc.victim /\ blk # mgc.free
      BY <1>3, Sides
    <2> QED BY <1>5, <1>6, <1>7, <2>1, <2>2 DEF DataBlksKept, Wiped
  <1> QED BY <1>8, <1>13, <1>14, <1>15, <1>16, <1>17 DEF MapInv

\* What any step of the cache does.
LEMMA CacheStepKeeps ==
    ASSUME StartsWell, ChipInv, StatusInv, MapInv, NEW vpn \in Vpns, CacheStep(vpn)
    PROVE  ChipInv' /\ MapInv' /\ MapKept /\ DataBlksKept
  BY UseFreeSlotStep, PickSlotStep, MapGCCopyStep, MapGCFinishStep, EvictSlotStep DEF CacheStep

-----------------------------------------------------------------------------
\* The map as the data blocks see it.

\* What a step of the data blocks leaves alone.
MapBlksKept ==
    /\ \A q \in Ppns : BlkOf(q) \in MapBlks =>
          nand'.cell[q] = nand.cell[q] /\ isValid'[q] = isValid[q]
    /\ \A blk \in MapBlks : Block_Status'[blk] = Block_Status[blk]

\* lpn2ppn of a page whose map page is cached.
LEMMA CachedEntry ==
    ASSUME MapInv, NEW l \in Lpns, Cached(lpn2vpn(l))
    PROVE  LET s == SlotOf(lpn2vpn(l)) IN
           /\ s \in Slots /\ CMT[s].vpn = lpn2vpn(l) /\ CMT[s].data = MapPage(lpn2vpn(l))
           /\ lpn2ppn(l) = L2P[l]
           /\ lpn2ppn(l) \in Ppns \cup {-1}
           /\ ~is_VPN_first_time[lpn2vpn(l)]
  <1> DEFINE v == lpn2vpn(l)
             s == SlotOf(v)
  <1>1. v \in Vpns /\ EntryOf(l) \in Entries /\ Unique(CMT)
    BY LpnFacts DEF MapInv, CacheInv
  <1>2. s \in Slots /\ CMT[s].vpn = v
    <2>1. Cached(v)
      OBVIOUS
    <2> HIDE DEF v
    <2> DEFINE held == {slot \in Slots : CMT[slot].vpn = v}
    <2>2. held # {} /\ s = Lowest(held)
      BY <2>1 DEF Cached, SlotOf, SlotsWith
    <2>3. Lowest(held) \in Slots /\ CMT[Lowest(held)].vpn = v
      BY <1>1, <2>2, SlotFacts
    <2> QED BY <2>2, <2>3
  <1>3. CMT[s].data = MapPage(v)
    BY DEF MapPage
  <1>4. CMT[s].data \in MapContents
    BY <1>2 DEF MapInv, MapTypes
  <1>5. lpn2ppn(l) = CMT[s].data[EntryOf(l)]
    BY DEF lpn2ppn
  <1>6. L2P[l] = MapPage(v)[EntryOf(l)]
    BY DEF L2P
  <1>7. ~is_VPN_first_time[v]
    BY <1>1, <1>2 DEF MapInv, CacheInv
  <1> HIDE DEF s, v
  <1>8. CMT[s].data[EntryOf(l)] \in Ppns \cup {-1}
    BY <1>1, <1>4 DEF MapContents
  <1> QED BY <1>2, <1>3, <1>5, <1>6, <1>7, <1>8 DEF s, v

\* The map is the same where no map page changes.
LEMMA KeptMap == MapKept => L2P' = L2P
  <1> SUFFICES ASSUME MapKept PROVE L2P' = L2P
    OBVIOUS
  <1>1. \A l \in Lpns : MapPage(lpn2vpn(l))' = MapPage(lpn2vpn(l))
    BY LpnFacts DEF MapKept
  <1>2. L2P' = [l \in Lpns |-> MapPage(lpn2vpn(l))'[EntryOf(l)]]
    BY DEF L2P
  <1> QED BY <1>1, <1>2 DEF L2P

\* A step that leaves the map and its blocks alone.
LEMMA MapFrame ==
    ASSUME MapInv, MapBlksKept, mapVars' = mapVars
    PROVE  MapInv' /\ L2P' = L2P
  <1>1. UNCHANGED <<CMT, GTD, is_VPN_first_time, Next_Map_PPN, GC_Trigger_Map_PPN,
                    mpc, victim_slot, mgc>>
    BY DEF mapVars
  <1>2. MapLog'
    <2>1. MapBlks \in SUBSET Blks /\ Keyed(MapPages, Vpns)
      BY Sides, PageKinds DEF Keyed
    <2>2. /\ \A q \in Ppns : BlkOf(q) \in MapBlks =>
                nand'.cell[q] = nand.cell[q] /\ isValid'[q] = isValid[q]
          /\ \A blk \in MapBlks : Block_Status'[blk] = Block_Status[blk]
      BY DEF MapBlksKept
    <2>3. Log(MapBlks, "MAP", Vpns, MapPages, nand.cell, isValid, Block_Status, GTD,
              Next_Map_PPN, GC_Trigger_Map_PPN, InMapGC, mgc)
      BY DEF MapInv, MapLog
    <2>4. Log(MapBlks, "MAP", Vpns, MapPages, nand'.cell, isValid', Block_Status', GTD,
              Next_Map_PPN, GC_Trigger_Map_PPN, InMapGC, mgc)
      BY <2>1, <2>2, <2>3, FrameLog
    <2> QED BY <1>1, <2>4 DEF MapLog, InMapGC
  <1>3. MapTypes' /\ CacheInv'
    BY <1>1 DEF MapInv, MapTypes, CacheInv
  <1>4. MapKept
    BY <1>1, MapSame DEF MapBlksKept
  <1> QED BY <1>2, <1>3, <1>4, KeptMap DEF MapInv

\* update_L2P with the map page cached changes the map for one page.
LEMMA UpdateMap ==
    ASSUME MapInv, MapBlksKept, NEW l \in Lpns, NEW ppn \in Ppns,
           mpc = "idle", Cached(lpn2vpn(l)), update_L2P(l, ppn),
           UNCHANGED <<GTD, Next_Map_PPN, GC_Trigger_Map_PPN, mpc, victim_slot, mgc>>
    PROVE  MapInv' /\ Update(L2P', L2P, Lpns, l, ppn)
  <1> DEFINE v == lpn2vpn(l)
             s == SlotOf(v)
             new == [CMT[s].data EXCEPT ![EntryOf(l)] = ppn]
  <1>1. v \in Vpns /\ EntryOf(l) \in Entries /\ Unique(CMT) /\ v # -1
    BY LpnFacts DEF MapInv, CacheInv, Vpns
  <1>2. /\ s \in Slots /\ CMT[s].vpn = v /\ CMT[s].data = MapPage(v)
        /\ ~is_VPN_first_time[v]
    BY CachedEntry
  <1>3. CMT' = [CMT EXCEPT ![s] = [vpn |-> v, dirty |-> TRUE, data |-> new]]
    BY <1>2 DEF update_L2P
  <1>4. is_VPN_first_time' = is_VPN_first_time
    <2>1. is_VPN_first_time' = [is_VPN_first_time EXCEPT ![v] = FALSE]
      BY DEF update_L2P
    <2> QED BY <1>1, <1>2, <2>1 DEF MapInv, MapTypes
  <1>5. new \in MapContents
    <2>1. CMT[s].data \in MapContents
      BY <1>2 DEF MapInv, MapTypes
    <2> HIDE DEF s
    <2> QED BY <1>1, <2>1 DEF MapContents
  <1> HIDE DEF v, s, new
  <1>6. /\ CMT'[s] = [vpn |-> v, dirty |-> TRUE, data |-> new]
        /\ \A t \in Slots : t # s => CMT'[t] = CMT[t]
        /\ \A t \in Slots : CMT'[t].vpn = CMT[t].vpn
        /\ CMT' \in [Slots -> [vpn : Vpns \cup {-1}, dirty : BOOLEAN, data : MapContents]]
    BY <1>1, <1>2, <1>3, <1>5 DEF MapInv, MapTypes
  <1>7. MapTypes'
    BY <1>4, <1>6 DEF MapInv, MapTypes
  <1>8. MapLog'
    <2>1. MapBlks \in SUBSET Blks /\ Keyed(MapPages, Vpns)
      BY Sides, PageKinds DEF Keyed
    <2>2. /\ \A q \in Ppns : BlkOf(q) \in MapBlks =>
                nand'.cell[q] = nand.cell[q] /\ isValid'[q] = isValid[q]
          /\ \A blk \in MapBlks : Block_Status'[blk] = Block_Status[blk]
      BY DEF MapBlksKept
    <2>3. Log(MapBlks, "MAP", Vpns, MapPages, nand.cell, isValid, Block_Status, GTD,
              Next_Map_PPN, GC_Trigger_Map_PPN, InMapGC, mgc)
      BY DEF MapInv, MapLog
    <2>4. Log(MapBlks, "MAP", Vpns, MapPages, nand'.cell, isValid', Block_Status', GTD,
              Next_Map_PPN, GC_Trigger_Map_PPN, InMapGC, mgc)
      BY <2>1, <2>2, <2>3, FrameLog
    <2> QED BY <2>4 DEF MapLog, InMapGC
  <1>9. CacheInv'
    <2>1. Unique(CMT')
      BY <1>1, <1>6 DEF Unique
    <2>2. \A t \in Slots : CMT'[t].vpn # -1 => CMT'[t].dirty
      BY <1>6 DEF MapInv, CacheInv
    <2> QED BY <1>4, <1>6, <2>1, <2>2 DEF MapInv, CacheInv
  <1>10. ASSUME NEW w \in Vpns
         PROVE  MapPage(w)' = IF w = v THEN new ELSE MapPage(w)
    <2>1. Unique(CMT')
      BY <1>9 DEF CacheInv
    <2>2. CASE w = v
      BY <1>2, <1>6, <2>1, <2>2, PageInFacts, MapPageIn
    <2>3. CASE w # v /\ \E t \in Slots : CMT[t].vpn = w
      <3>1. PICK t \in Slots : CMT[t].vpn = w
        BY <2>3
      <3>2. CMT'[t] = CMT[t]
        BY <1>2, <1>6, <2>3, <3>1
      <3> QED BY <1>1, <2>1, <2>3, <3>1, <3>2, PageInFacts, MapPageIn
    <2>4. CASE w # v /\ \A t \in Slots : CMT[t].vpn # w
      <3>1. \A t \in Slots : CMT'[t].vpn # w
        BY <1>6, <2>4
      <3>2. CASE GTD[w] = -1
        BY <1>1, <2>1, <2>4, <3>1, <3>2, PageInFacts, MapPageIn
      <3>3. CASE GTD[w] # -1
        <4>1. GTD[w] \in Ppns /\ nand.cell[GTD[w]] # Erased /\ BlkOf(GTD[w]) \in MapBlks
          BY <3>3, DirectoryFacts DEF MapInv, Written
        <4>2. nand'.cell[GTD[w]] = nand.cell[GTD[w]]
          BY <4>1 DEF MapBlksKept
        <4> QED BY <1>1, <2>1, <2>4, <3>1, <4>1, <4>2, PageInFacts, MapPageIn
      <3> QED BY <3>2, <3>3
    <2> QED BY <2>2, <2>3, <2>4
  <1>11. Update(L2P', L2P, Lpns, l, ppn)
    <2> SUFFICES ASSUME NEW m \in Lpns PROVE L2P'[m] = IF m = l THEN ppn ELSE L2P[m]
      BY DEF Update
    <2>1. lpn2vpn(m) \in Vpns /\ EntryOf(m) \in Entries
      BY LpnFacts
    <2>2. L2P'[m] = MapPage(lpn2vpn(m))'[EntryOf(m)] /\ L2P[m] = MapPage(lpn2vpn(m))[EntryOf(m)]
      BY DEF L2P
    <2>3. \A e \in Entries : new[e] = IF e = EntryOf(l) THEN ppn ELSE MapPage(v)[e]
      <3>1. CMT[s].data \in MapContents
        BY <1>2 DEF MapInv, MapTypes
      <3> QED BY <1>1, <1>2, <3>1 DEF MapContents, new
    <2>4. CASE lpn2vpn(m) = v
      <3>1. EntryOf(m) = EntryOf(l) => m = l
        BY <2>4, LpnFacts DEF v
      <3> QED BY <1>10, <2>1, <2>2, <2>3, <2>4, <3>1 DEF v
    <2>5. CASE lpn2vpn(m) # v
      BY <1>10, <2>1, <2>2, <2>5 DEF v
    <2> QED BY <2>4, <2>5
  <1> QED BY <1>7, <1>8, <1>9, <1>11 DEF MapInv

-----------------------------------------------------------------------------
\* The steps that leave the chip and the mapping alone.

LEMMA QuietStep ==
    ASSUME ChipInv, MapInv, DataLog,
           UNCHANGED <<flashVars, mapVars, Next_Data_PPN, GC_Trigger_Data_PPN>>,
           pc \notin {"gc", "gc_remap"}, pc' \notin {"gc", "gc_remap"}
    PROVE  ChipInv' /\ MapInv' /\ DataLog' /\ RemapInv' /\ L2P' = L2P
  <1>1. MapInv' /\ L2P' = L2P
    BY MapFrame DEF MapBlksKept, flashVars
  <1>2. DataLog'
    <2>1. DataMap = L2P /\ DataMap' = L2P' /\ InDataGC = FALSE /\ InDataGC' = FALSE
      BY DEF DataMap, InDataGC
    <2> QED BY <1>1, <2>1 DEF DataLog, flashVars, Log, Frontier, Table
  <1> QED BY <1>1, <1>2 DEF ChipInv, RemapInv, flashVars

\* The page of a call is a logical page.
LEMMA LpnType ==
    ASSUME DataTypes, CallInv, req.op # "idle"
    PROVE  /\ lpn \in Nat
           /\ pp < send_kazu => lpn \in Lpns
  <1> DEFINE last == req.lba + req.nsect - 1
  <1>1. pp \in Nat /\ req.lba \in Nat /\ req.nsect \in Nat
    BY DEF DataTypes
  <1>2. /\ req.lba < N_SECTORS /\ req.lba + req.nsect <= N_SECTORS
        /\ SECTORS_PER_PAGE \in Nat \ {0} /\ N_LPNS_PB \in Nat
    BY DemandAssumption, Geometry DEF CallInv, DemandAssumption, N_LPNS_PB
  <1>3. req.lba \div SECTORS_PER_PAGE \in Nat
    BY <1>1, <1>2, DivMod
  <1>4. lpn \in Nat
    BY <1>1, <1>3 DEF lpn
  <1>5. ASSUME pp < send_kazu PROVE lpn \in Lpns
    <2>1. lpn <= last \div SECTORS_PER_PAGE
      <3>1. last \div SECTORS_PER_PAGE \in Int
        BY <1>1, <1>2
      <3> QED BY <1>1, <1>3, <1>5, <3>1 DEF lpn, send_kazu
    <2>2. CASE last = -1
      <3>1. (-1) \div SECTORS_PER_PAGE = -1
        BY <1>2
      <3> QED BY <1>4, <2>1, <2>2, <3>1
    <2>3. CASE last # -1
      <3>1. last \in 0 .. N_LPNS_PB * SECTORS_PER_PAGE - 1
        BY <1>1, <1>2, <2>3 DEF N_SECTORS
      <3>2. last \div SECTORS_PER_PAGE \in 0 .. N_LPNS_PB - 1
        <4> HIDE DEF last
        <4> QED BY <1>2, <3>1, DivMod
      <3> QED BY <1>2, <1>4, <2>1, <3>2 DEF Lpns
    <2> QED BY <2>2, <2>3
  <1> QED BY <1>4, <1>5

\* sim_buffer_L2S finds the buffer of a page that has one.
LEMMA BufferFacts ==
    ASSUME NEW l, Buffered(l)
    PROVE  sim_buffer_L2S(l) \in Buffers /\ buffer[sim_buffer_L2S(l)].lpn = l
  <1> DEFINE held == {slot \in Buffers : buffer[slot].lpn = l}
  <1>1. held \in SUBSET Nat /\ held # {} /\ sim_buffer_L2S(l) = Lowest(held)
    BY DEF Buffered, BuffersWith, sim_buffer_L2S, Buffers
  <1>2. Lowest(held) \in held
    <2> HIDE DEF held
    <2> QED BY <1>1, LowestHighest
  <1> QED BY <1>1, <1>2

\* What a page holds when the buffer or the mapping is asked for it.
LEMMA OldContentsType ==
    ASSUME ChipInv, MapInv, DataTypes, DataLog, pc # "gc_remap", NEW l \in Lpns,
           Buffered(l) \/ Cached(lpn2vpn(l))
    PROVE  OldContents(l) \in [Offsets -> DataWord]
  <1>1. CASE Buffered(l)
    <2>1. sim_buffer_L2S(l) \in Buffers
      BY <1>1, BufferFacts
    <2>2. buffer[sim_buffer_L2S(l)].data \in [Offsets -> DataWord]
      BY <2>1 DEF DataTypes
    <2> QED BY <1>1, <2>2 DEF OldContents
  <1>2. CASE ~Buffered(l) /\ lpn2ppn(l) = -1
    BY <1>2 DEF OldContents, DataWord
  <1>3. CASE ~Buffered(l) /\ lpn2ppn(l) # -1
    <2> DEFINE p == lpn2ppn(l)
    <2>1. p \in Ppns /\ p = L2P[l] /\ p = DataMap[l]
      BY <1>3, CachedEntry DEF DataMap
    <2> HIDE DEF p
    <2>2. BlkOf(p) \in DataBlks /\ nand.cell[p] # Erased
      <3>1. p # -1
        BY <2>1, PpnFacts
      <3> QED BY <2>1, <3>1 DEF DataLog, Log, Table
    <2>3. nand.cell[p] \in DataPage
      BY <2>1, <2>2 DEF DataLog, Log, Contents
    <2>4. BlkOf(p) \in Blks /\ PageOf(p) \in Pages /\ Ppn(BlkOf(p), PageOf(p)) = p
      BY <2>1, PpnFacts
    <2>5. ReadPage(p, data) = nand.cell[p].data
      BY <2>2, <2>4 DEF ReadPage, NandRead, ReadCode
    <2>6. nand.cell[p].data \in [Offsets -> DataWord]
      BY <2>3 DEF DataPage
    <2> QED BY <1>3, <2>5, <2>6 DEF OldContents, p
  <1> QED BY <1>1, <1>2, <1>3

DataInv == DataTypes /\ DataLog /\ RemapInv /\ BufferInv /\ CallInv

LEMMA SubmitStep ==
    ASSUME ChipInv, MapInv, DataInv, Submit
    PROVE  ChipInv' /\ MapInv' /\ DataInv' /\ L2P' = L2P
  <1>1. PICK lba \in 0 .. N_SECTORS - 1, nsect \in 0 .. MaxSect :
           /\ lba + nsect <= N_SECTORS
           /\ \/ /\ req' = [op |-> "read", lba |-> lba, nsect |-> nsect, buf |-> <<>>]
                 /\ pc' = "read"
              \/ \E buf \in [SectorsFrom(lba, nsect) -> Word] :
                 /\ req' = [op |-> "write", lba |-> lba, nsect |-> nsect, buf |-> buf]
                 /\ pc' = "write"
    BY DEF Submit
  <1>2. N_SECTORS \in Nat /\ lba \in Nat /\ nsect \in Nat /\ lba < N_SECTORS
    <2>1. N_SECTORS \in Nat /\ MaxSect \in Nat
      BY DemandAssumption, Geometry DEF DemandAssumption, N_SECTORS, N_LPNS_PB
    <2> QED BY <2>1
  <1>3. /\ UNCHANGED <<flashVars, mapVars, dataVars, pp, data, victim, gc, moved>>
        /\ pc = "idle"
    BY DEF Submit
  <1>4. /\ req'.op \in {"read", "write"} /\ req'.lba = lba /\ req'.nsect = nsect
        /\ req'.op = "write" => req'.buf \in [SectorsFrom(lba, nsect) -> Word]
        /\ pc' = req'.op
    BY <1>1
  <1>5. ChipInv' /\ MapInv' /\ DataLog' /\ RemapInv' /\ L2P' = L2P
    BY <1>3, <1>4, QuietStep DEF DataInv, dataVars
  <1>6. DataTypes'
    BY <1>2, <1>3, <1>4 DEF DataInv, DataTypes, dataVars
  <1>7. BufferInv'
    BY <1>3, <1>4 DEF DataInv, BufferInv, dataVars, InDataGC
  <1>8. CallInv'
    BY <1>1, <1>2, <1>4 DEF CallInv
  <1> QED BY <1>5, <1>6, <1>7, <1>8 DEF DataInv

LEMMA ReturnStep ==
    ASSUME ChipInv, MapInv, DataInv, Return
    PROVE  ChipInv' /\ MapInv' /\ DataInv' /\ L2P' = L2P
  <1>1. /\ UNCHANGED <<flashVars, mapVars, dataVars, victim, gc, moved>>
        /\ pc \in {"read", "write"} /\ pc' = "idle" /\ req' = Idle /\ pp' = 0 /\ data' = JunkPage
    BY DEF Return
  <1>2. ChipInv' /\ MapInv' /\ DataLog' /\ RemapInv' /\ L2P' = L2P
    BY <1>1, QuietStep DEF DataInv, dataVars
  <1>3. DataTypes'
    BY <1>1 DEF DataInv, DataTypes, dataVars, Idle, JunkPage, DataWord
  <1>4. BufferInv' /\ CallInv'
    BY <1>1 DEF DataInv, BufferInv, CallInv, dataVars, InDataGC, Idle
  <1> QED BY <1>2, <1>3, <1>4 DEF DataInv

LEMMA FetchPageStep ==
    ASSUME ChipInv, MapInv, DataInv, FetchPage
    PROVE  ChipInv' /\ MapInv' /\ DataInv' /\ L2P' = L2P
  <1>1. /\ UNCHANGED <<flashVars, mapVars, dataVars, req, pc, victim, gc, moved>>
        /\ pc = "read" /\ pp < send_kazu /\ MapReady /\ pp' = pp + 1
        /\ data' = OldContents(lpn)
    BY DEF FetchPage, OldContents
  <1>2. req.op = "read" /\ lpn \in Lpns
    BY <1>1, LpnType DEF DataInv, CallInv
  <1>3. Buffered(lpn) \/ Cached(lpn2vpn(lpn))
    BY <1>1 DEF MapReady, Lookups
  <1>4. data' \in [Offsets -> DataWord]
    BY <1>1, <1>2, <1>3, OldContentsType DEF DataInv
  <1>5. ChipInv' /\ MapInv' /\ DataLog' /\ RemapInv' /\ L2P' = L2P
    BY <1>1, QuietStep DEF DataInv, dataVars
  <1>6. DataTypes'
    BY <1>1, <1>4 DEF DataInv, DataTypes, dataVars
  <1>7. BufferInv' /\ CallInv'
    BY <1>1 DEF DataInv, BufferInv, CallInv, dataVars, InDataGC
  <1> QED BY <1>5, <1>6, <1>7 DEF DataInv

LEMMA PackPageStep ==
    ASSUME ChipInv, MapInv, DataInv, PackPage
    PROVE  ChipInv' /\ MapInv' /\ DataInv' /\ L2P' = L2P
  <1> DEFINE old == OldContents(lpn)
  <1>1. /\ UNCHANGED <<flashVars, mapVars, dataVars, req, pp, victim, gc, moved>>
        /\ pc = "write" /\ pc' = "store" /\ pp < send_kazu /\ MapReady
        /\ data' = [i \in Offsets |-> IF InRequest(i) THEN req.buf[LbaAt(i)] ELSE old[i]]
    BY DEF PackPage
  <1>2. req.op = "write" /\ lpn \in Lpns
    <2>1. req.op = "write"
      BY <1>1 DEF DataInv, DataTypes, CallInv
    <2> QED BY <1>1, <2>1, LpnType DEF DataInv
  <1>3. Cached(lpn2vpn(lpn))
    BY <1>1 DEF MapReady, Lookups
  <1>4. old \in [Offsets -> DataWord]
    BY <1>1, <1>2, <1>3, OldContentsType DEF DataInv
  <1> HIDE DEF old
  <1>5. \A i \in Offsets : InRequest(i) => req.buf[LbaAt(i)] \in DataWord
    BY <1>2 DEF DataInv, DataTypes, InRequest, DataWord
  <1>6. data' \in [Offsets -> DataWord]
    BY <1>1, <1>4, <1>5
  <1>7. ChipInv' /\ MapInv' /\ DataLog' /\ RemapInv' /\ L2P' = L2P
    BY <1>1, QuietStep DEF DataInv, dataVars
  <1>8. DataTypes'
    BY <1>1, <1>6 DEF DataInv, DataTypes, dataVars
  <1>9. BufferInv' /\ CallInv'
    <2>1. send_kazu' = send_kazu
      BY <1>1 DEF send_kazu
    <2> QED BY <1>1, <1>2, <2>1 DEF DataInv, BufferInv, CallInv, dataVars, InDataGC
  <1> QED BY <1>7, <1>8, <1>9 DEF DataInv

LEMMA StoreStep ==
    ASSUME ChipInv, MapInv, DataInv, Store
    PROVE  ChipInv' /\ MapInv' /\ DataInv' /\ L2P' = L2P
  <1>1. /\ UNCHANGED <<flashVars, mapVars, Next_Data_PPN, GC_Trigger_Data_PPN,
                       req, data, victim, gc, moved>>
        /\ pc = "store" /\ pc' = "write" /\ pp' = pp + 1
        /\ Buffered(lpn) \/ Buffered(-1)
        /\ buffer' = [buffer EXCEPT ![StoreSlot] = [lpn |-> lpn, data |-> data]]
    BY DEF Store
  <1>2. req.op = "write" /\ lpn \in Lpns
    <2>1. req.op = "write" /\ pp < send_kazu
      BY <1>1 DEF DataInv, DataTypes, CallInv
    <2> QED BY <1>1, <2>1, LpnType DEF DataInv
  <1>3. /\ StoreSlot \in Buffers
        /\ buffer[StoreSlot].lpn = lpn \/ ~Buffered(lpn)
    BY <1>1, BufferFacts DEF StoreSlot
  <1>4. ChipInv' /\ MapInv' /\ DataLog' /\ RemapInv' /\ L2P' = L2P
    BY <1>1, QuietStep DEF DataInv
  <1>5. DataTypes'
    BY <1>1, <1>2, <1>3 DEF DataInv, DataTypes
  <1>6. BufferInv'
    <2>1. /\ buffer'[StoreSlot].lpn = lpn
          /\ \A s \in Buffers : s # StoreSlot => buffer'[s] = buffer[s]
      BY <1>1, <1>3 DEF DataInv, DataTypes
    <2>2. ASSUME NEW s \in Buffers, buffer[s].lpn = lpn PROVE s = StoreSlot
      <3>1. Buffered(lpn)
        BY <2>2 DEF Buffered, BuffersWith
      <3>2. lpn # -1
        BY <1>2 DEF Lpns
      <3> QED BY <1>3, <2>2, <3>1, <3>2 DEF DataInv, BufferInv
    <2>3. \A s, t \in Buffers : buffer'[s].lpn = buffer'[t].lpn /\ buffer'[s].lpn # -1 => s = t
      BY <2>1, <2>2 DEF DataInv, BufferInv
    <2> QED BY <1>1, <2>3 DEF BufferInv, InDataGC
  <1>7. CallInv'
    BY <1>1, <1>2 DEF DataInv, CallInv
  <1> QED BY <1>4, <1>5, <1>6, <1>7 DEF DataInv

-----------------------------------------------------------------------------
\* The flush of a page and the collection of data blocks.

\* The data blocks have more pages than there are logical pages.
LEMMA DataSpare == EnoughRoom => Spare(Lpns, 0, N_PHY_DATA_BLK)
  <1> SUFFICES ASSUME EnoughRoom PROVE Spare(Lpns, 0, N_PHY_DATA_BLK)
    OBVIOUS
  <1> DEFINE U == N_USER_BLOCKS_PB
             P == PAGES_PER_BLK
  <1>1. /\ U \in Nat \ {0} /\ P \in Nat \ {0} /\ N_PHY_DATA_BLK \in Nat
        /\ U + 1 <= N_PHY_DATA_BLK - 0 - 1
    BY Geometry DEF EnoughRoom
  <1> HIDE DEF U, P
  <1>2. U * P \in Nat /\ U * P + P <= (N_PHY_DATA_BLK - 0 - 1) * P
    BY <1>1, Products
  <1>3. IsFiniteSet(Lpns) /\ Cardinality(Lpns) = U * P
    <2> DEFINE n == U * P
    <2>1. Lpns = 0 .. n - 1
      BY DEF Lpns, N_LPNS_PB, U, P
    <2> HIDE DEF n
    <2>2. n \in Nat
      BY <1>2 DEF n
    <2>3. IsFiniteSet(Lpns) /\ Cardinality(Lpns) = n
      BY <2>1, <2>2, FS_Interval
    <2> QED BY <2>3 DEF n
  <1>4. Cardinality(Lpns) < (N_PHY_DATA_BLK - 0 - 1) * P
    <2> DEFINE m == U * P
               k == (N_PHY_DATA_BLK - 0 - 1) * P
    <2>1. m \in Nat /\ m + P <= k /\ k \in Int
      BY <1>1, <1>2
    <2> HIDE DEF m, k
    <2>2. m < k
      BY <1>1, <2>1
    <2> QED BY <1>3, <2>2 DEF m, k
  <1> QED BY <1>3, <1>4 DEF Spare, P

LEMMA DataSide ==
    /\ DataBlks \in SUBSET Blks /\ Keyed(DataPage, Lpns)
    /\ DataBlks = BlksFrom(0, N_PHY_DATA_BLK)
  BY Sides, PageKinds DEF Keyed, DataBlks, BlksFrom

\* Any two locals do while no collection runs.
LEMMA IdleLog ==
    ASSUME NEW R, NEW kind, NEW keys, NEW pages, NEW cell, NEW valid, NEW status,
           NEW table, NEW next, NEW end, NEW g, NEW g2,
           Log(R, kind, keys, pages, cell, valid, status, table, next, end, FALSE, g)
    PROVE  Log(R, kind, keys, pages, cell, valid, status, table, next, end, FALSE, g2)
  BY DEF Log, Frontier, Table

\* write_through_lpn with no empty buffer: if the data blocks are full one of
\* their pages is out of use.
LEMMA PickVictimStep ==
    ASSUME StartsWell, ChipInv, StatusInv, MapInv, DataInv, PickVictim
    PROVE  ChipInv' /\ MapInv' /\ DataInv' /\ L2P' = L2P
  <1>1. /\ UNCHANGED <<flashVars, mapVars, dataVars, req, pp, data, moved, rbuf>>
        /\ pc = "store" /\ victim' \in Buffers /\ ~Buffered(-1)
    BY DEF PickVictim
  <1>2. Next_Data_PPN \in Nat /\ GC_Trigger_Data_PPN \in Nat /\ Next_Data_PPN <= GC_Trigger_Data_PPN
    BY Geometry DEF DataInv, DataTypes, EndPpns, DataLog, Log, Frontier
  <1>3. Log(DataBlks, "DATA", Lpns, DataPage, nand.cell, isValid, Block_Status, L2P,
            Next_Data_PPN, GC_Trigger_Data_PPN, FALSE, gc)
    <2>1. InDataGC = FALSE /\ DataMap = L2P /\ DataGC = gc
      BY <1>1 DEF InDataGC, DataMap, DataGC
    <2> QED BY <2>1 DEF DataInv, DataLog
  <1>4. ~Buffered(-1)' /\ send_kazu' = send_kazu
    BY <1>1 DEF dataVars, Buffered, BuffersWith, send_kazu
  <1>5. MapInv' /\ L2P' = L2P
    BY <1>1, MapFrame DEF MapBlksKept, flashVars
  <1>6. CASE AtDataTrigger
    <2> DEFINE g == CollectionOf("DATA", get_free_blk_data)
    <2>1. pc' = "gc" /\ gc' = g
      BY <1>6 DEF PickVictim
    <2>2. /\ g \in [victim : Blks, free : Blks, i : Int, cnt : Int]
          /\ g.i = 0 /\ g.cnt = 0
          /\ g.free \in DataBlks /\ Block_Status[g.free] = "EMPTY"
          /\ g.victim \in DataBlks /\ Block_Status[g.victim] = "DATA"
          /\ \A blk \in Blks :
                Block_Status[blk] = "DATA" /\ Reclaimable(isValid, blk) => Reclaimable(isValid, g.victim)
      BY DataStart
    <2> HIDE DEF g
    <2>3. EnoughRoom => AnyReclaimable(DataBlks, "DATA", isValid, Block_Status)
      <3> SUFFICES ASSUME EnoughRoom PROVE AnyReclaimable(DataBlks, "DATA", isValid, Block_Status)
        OBVIOUS
      <3>1. Spare(Lpns, 0, N_PHY_DATA_BLK)
        BY DataSpare
      <3>2. PICK free \in DataBlks : OneEmpty(DataBlks, "DATA", Block_Status, free)
        BY DEF StatusInv
      <3>3. Flags(isValid)
        BY DEF ChipInv, Flags
      <3>4. N_PHY_DATA_BLK \in Nat /\ 0 < N_PHY_DATA_BLK /\ N_PHY_DATA_BLK <= BLKS_PER_BANK
        BY Geometry
      <3>5. Next_Data_PPN = GC_Trigger_Data_PPN
        BY <1>6 DEF AtDataTrigger
      <3> QED BY <1>2, <1>3, <3>1, <3>2, <3>3, <3>4, <3>5, DataSide, FullLogHasInvalid
    <2>4. Log(DataBlks, "DATA", Lpns, DataPage, nand.cell, isValid, Block_Status, L2P,
              Next_Data_PPN, GC_Trigger_Data_PPN, TRUE, g)
      <3>1. Reclaimable(isValid, g.victim)
        <4>1. CASE EnoughRoom
          BY <2>2, <2>3, <4>1, Sides DEF AnyReclaimable
        <4>2. CASE CollectionsReclaim'
          <5>1. InDataGC' /\ gc' = g /\ isValid' = isValid
            BY <1>1, <2>1 DEF InDataGC, flashVars
          <5> QED BY <4>2, <5>1 DEF CollectionsReclaim, Reclaimable
        <4> QED BY <4>1, <4>2 DEF StartsWell
      <3> QED BY <1>3, <1>6, <2>2, <3>1, Sides, StartLog DEF AtDataTrigger
    <2>5. DataLog'
      <3>1. InDataGC' = TRUE /\ DataMap' = L2P' /\ DataGC' = g
        BY <2>1 DEF InDataGC, DataMap, DataGC
      <3> QED BY <1>1, <1>5, <2>4, <3>1 DEF DataLog, flashVars, dataVars
    <2>6. DataTypes'
      <3>1. g \in LocalsOfGC
        BY <2>2, Geometry DEF LocalsOfGC
      <3> QED BY <1>1, <2>1, <3>1 DEF DataInv, DataTypes, dataVars
    <2>7. BufferInv' /\ CallInv' /\ RemapInv'
      BY <1>1, <1>4, <2>1 DEF DataInv, BufferInv, CallInv, RemapInv, dataVars
    <2> QED BY <1>1, <1>5, <2>5, <2>6, <2>7 DEF DataInv, ChipInv, flashVars
  <1>7. CASE ~AtDataTrigger
    <2>1. pc' = "flush" /\ gc' = gc
      BY <1>7 DEF PickVictim
    <2>2. Next_Data_PPN < GC_Trigger_Data_PPN
      BY <1>2, <1>7 DEF AtDataTrigger
    <2>3. ChipInv' /\ DataLog' /\ RemapInv'
      BY <1>1, <2>1, QuietStep DEF DataInv, dataVars
    <2>4. DataTypes'
      BY <1>1, <2>1 DEF DataInv, DataTypes, dataVars
    <2>5. BufferInv' /\ CallInv'
      BY <1>1, <1>4, <2>1, <2>2 DEF DataInv, BufferInv, CallInv, dataVars
    <2> QED BY <1>5, <2>3, <2>4, <2>5 DEF DataInv
  <1> QED BY <1>6, <1>7

\* flush: the page becomes the current copy.
LEMMA FlushStep ==
    ASSUME ChipInv, StatusInv, MapInv, DataInv, Flush
    PROVE  /\ ChipInv' /\ MapInv' /\ DataInv'
           /\ \A m \in Lpns : m # buffer[victim].lpn => L2P'[m] = L2P[m]
           /\ buffer[victim].lpn \in Lpns /\ Fresh(nand, isValid, DataBlks, Next_Data_PPN)
           /\ Update(L2P', L2P, Lpns, buffer[victim].lpn, Next_Data_PPN)
           /\ Update(nand'.cell, nand.cell, Ppns, Next_Data_PPN,
                     [data |-> buffer[victim].data, spare |-> buffer[victim].lpn])
  <1> DEFINE l == buffer[victim].lpn
             n == Next_Data_PPN
             page == [data |-> buffer[victim].data, spare |-> l]
  <1>1. /\ pc = "flush" /\ pc' = "store" /\ mpc = "idle" /\ Cached(lpn2vpn(l))
        /\ isValid' = Superseded(lpn2ppn(l))
        /\ update_L2P(l, n)
        /\ nand' = NandWrite(nand, BlkOf(n), PageOf(n), page)
        /\ Next_Data_PPN' = n + 1
        /\ buffer' = [buffer EXCEPT ![victim].lpn = -1]
        /\ victim' = 0
        /\ UNCHANGED <<Block_Status, GTD, Next_Map_PPN, GC_Trigger_Map_PPN, mpc, victim_slot, mgc>>
        /\ UNCHANGED <<GC_Trigger_Data_PPN, req, pp, data, gc, moved>>
    BY DEF Flush, MapReady, Lookups
  <1>2. l \in Lpns
    <2>1. victim \in Buffers /\ ~Buffered(-1)
      BY <1>1 DEF DataInv, DataTypes, BufferInv
    <2>2. l # -1
      BY <2>1 DEF Buffered, BuffersWith
    <2> QED BY <2>1, <2>2 DEF DataInv, DataTypes
  <1>3. page \in DataPage /\ page.spare = l
    BY <1>2 DEF DataInv, DataTypes, DataPage
  <1> HIDE DEF l, page
  <1>4. /\ n \in Nat /\ GC_Trigger_Data_PPN \in Nat /\ n < GC_Trigger_Data_PPN
        /\ n + 1 \in EndPpns
    BY <1>1, Geometry DEF DataInv, DataTypes, EndPpns, BufferInv
  <1>5. Log(DataBlks, "DATA", Lpns, DataPage, nand.cell, isValid, Block_Status, L2P,
            n, GC_Trigger_Data_PPN, FALSE, gc)
    <2>1. InDataGC = FALSE /\ DataMap = L2P /\ DataGC = gc
      BY <1>1 DEF InDataGC, DataMap, DataGC
    <2> QED BY <2>1 DEF DataInv, DataLog
  <1>6. Flags(isValid)
    BY DEF ChipInv, Flags
  <1>7. Fresh(nand, isValid, DataBlks, n)
    BY <1>4, <1>5, <1>6, DataSide, NextWritable DEF ChipInv
  <1>8. /\ nand' \in Chip(Content) /\ Prefix(nand')
        /\ Update(nand'.cell, nand.cell, Ppns, n, page)
    BY <1>1, <1>3, <1>7, PageKinds, NandWriteFacts DEF ChipInv, Fresh
  <1>9. /\ lpn2ppn(l) = L2P[l] /\ L2P[l] \in Ppns \cup {-1}
        /\ L2P[l] # -1 => L2P[l] \in Ppns /\ BlkOf(L2P[l]) \in DataBlks /\ L2P[l] >= 0
    <2>1. lpn2ppn(l) = L2P[l] /\ L2P[l] \in Ppns \cup {-1}
      BY <1>1, <1>2, CachedEntry
    <2>2. L2P[l] # -1 => BlkOf(L2P[l]) \in DataBlks
      BY <1>2, <1>5 DEF Log, Table
    <2> QED BY <2>1, <2>2, PpnFacts
  <1>10. Update(isValid', isValid, Ppns, L2P[l], 0)
    <2>1. \A q \in Ppns : q >= 0
      BY PpnFacts
    <2> QED BY <1>1, <1>9, <2>1 DEF Superseded, ChipInv, Update
  <1>11. ChipInv'
    <2>1. isValid' \in [Ppns -> {0, 1}]
      BY <1>1 DEF Superseded, ChipInv
    <2> QED BY <1>8, <2>1 DEF ChipInv
  <1>12. MapBlksKept
    <2>1. ASSUME NEW q \in Ppns, BlkOf(q) \in MapBlks
          PROVE  q # n /\ q # L2P[l]
      <3>1. BlkOf(q) \notin DataBlks /\ q # -1
        BY <2>1, OtherSide, PpnFacts
      <3> QED BY <1>7, <1>9, <3>1 DEF Fresh
    <2> QED BY <1>1, <1>8, <1>10, <2>1 DEF MapBlksKept, Update
  <1>13. MapInv' /\ Update(L2P', L2P, Lpns, l, n)
    <2>1. n \in Ppns
      BY <1>7 DEF Fresh
    <2> QED BY <1>1, <1>2, <1>12, <2>1, UpdateMap
  <1>14. DataLog'
    <2>1. Log(DataBlks, "DATA", Lpns, DataPage, nand'.cell, isValid', Block_Status, L2P',
              n + 1, GC_Trigger_Data_PPN, FALSE, gc)
      <3> HIDE DEF n
      <3> QED BY <1>2, <1>3, <1>4, <1>5, <1>6, <1>8, <1>10, <1>13, DataSide, AppendLog
    <2>2. InDataGC' = FALSE /\ DataMap' = L2P' /\ DataGC' = gc
      BY <1>1 DEF InDataGC, DataMap, DataGC
    <2> QED BY <1>1, <2>1, <2>2 DEF DataLog
  <1>15. /\ buffer'[victim].lpn = -1
         /\ \A s \in Buffers : s # victim => buffer'[s] = buffer[s]
         /\ buffer' \in [Buffers -> [lpn : Lpns \cup {-1}, data : [Offsets -> DataWord]]]
    BY <1>1 DEF DataInv, DataTypes
  <1>16. DataTypes'
    <2>1. 0 \in Buffers
      BY DemandAssumption DEF DemandAssumption, Buffers
    <2> QED BY <1>1, <1>4, <1>15, <2>1 DEF DataInv, DataTypes
  <1>17. BufferInv'
    <2>1. \A s, t \in Buffers : buffer'[s].lpn = buffer'[t].lpn /\ buffer'[s].lpn # -1 => s = t
      BY <1>15 DEF DataInv, BufferInv
    <2> QED BY <1>1, <2>1 DEF BufferInv, InDataGC
  <1>18. CallInv' /\ RemapInv'
    <2>1. send_kazu' = send_kazu
      BY <1>1 DEF send_kazu
    <2> QED BY <1>1, <2>1 DEF DataInv, CallInv, RemapInv
  <1>19. \A m \in Lpns : m # buffer[victim].lpn => L2P'[m] = L2P[m]
    BY <1>13 DEF Update, l
  <1>20. /\ buffer[victim].lpn \in Lpns /\ Fresh(nand, isValid, DataBlks, Next_Data_PPN)
         /\ Update(L2P', L2P, Lpns, buffer[victim].lpn, Next_Data_PPN)
         /\ Update(nand'.cell, nand.cell, Ppns, Next_Data_PPN,
                   [data |-> buffer[victim].data, spare |-> buffer[victim].lpn])
    BY <1>2, <1>7, <1>8, <1>13 DEF l, page
  <1> QED BY <1>11, <1>13, <1>14, <1>16, <1>17, <1>18, <1>19, <1>20 DEF DataInv

\* The collection in full, before a page it has copied is mapped and after.
LEMMA DataCollection ==
    ASSUME StatusInv, DataInv, InDataGC
    PROVE  /\ Log(DataBlks, "DATA", Lpns, DataPage, nand.cell, isValid, Block_Status, DataMap,
                  Next_Data_PPN, GC_Trigger_Data_PPN, TRUE, DataGC)
           /\ gc \in [victim : Blks, free : Blks, i : Int, cnt : Int]
           /\ DataGC.victim = gc.victim /\ DataGC.free = gc.free
           /\ gc.victim \in DataBlks /\ gc.victim \in Blks /\ Block_Status[gc.victim] = "DATA"
           /\ gc.free \in DataBlks /\ gc.free \in Blks /\ Block_Status[gc.free] = "EMPTY"
           /\ OneEmpty(DataBlks, "DATA", Block_Status, gc.free)
           /\ Next_Data_PPN \in Nat /\ Next_Data_PPN = GC_Trigger_Data_PPN
  <1>1. InDataGC = TRUE
    BY DEF InDataGC
  <1>2. Log(DataBlks, "DATA", Lpns, DataPage, nand.cell, isValid, Block_Status, DataMap,
            Next_Data_PPN, GC_Trigger_Data_PPN, TRUE, DataGC)
    BY <1>1 DEF DataInv, DataLog
  <1>3. gc \in [victim : Blks, free : Blks, i : Int, cnt : Int]
    BY DEF StatusInv
  <1>4. DataGC.victim = gc.victim /\ DataGC.free = gc.free
    BY <1>3 DEF DataGC
  <1>5. /\ gc.victim \in DataBlks /\ Block_Status[gc.victim] = "DATA"
        /\ gc.free \in DataBlks /\ Block_Status[gc.free] = "EMPTY"
    BY DEF StatusInv
  <1>6. OneEmpty(DataBlks, "DATA", Block_Status, gc.free)
    BY FreeIsEmpty
  <1>7. Next_Data_PPN \in Nat /\ Next_Data_PPN = GC_Trigger_Data_PPN
    BY <1>2, Geometry DEF DataInv, DataTypes, EndPpns, Log, Collecting
  <1> QED BY <1>2, <1>3, <1>4, <1>5, <1>6, <1>7, Sides

\* garbage_collection passes an invalid page.
LEMMA SkipInvalidStep ==
    ASSUME ChipInv, StatusInv, MapInv, DataInv, SkipInvalid
    PROVE  ChipInv' /\ MapInv' /\ DataInv' /\ L2P' = L2P
  <1>1. /\ pc = "gc" /\ pc' = "gc" /\ gc.i < PAGES_PER_BLK
        /\ isValid[Ppn(gc.victim, gc.i)] = 0
        /\ gc' = [gc EXCEPT !.i = @ + 1]
        /\ UNCHANGED <<flashVars, mapVars, dataVars, req, pp, data, victim, moved>>
    BY DEF SkipInvalid
  <1>2. MapInv' /\ L2P' = L2P
    BY <1>1, MapFrame DEF MapBlksKept, flashVars
  <1>3. InDataGC /\ DataMap = L2P /\ DataGC = gc
    BY <1>1 DEF InDataGC, DataMap, DataGC
  <1>4. /\ gc' \in [victim : Blks, free : Blks, i : Int, cnt : Int]
        /\ Advanced(gc', gc, 0)
    <2>1. gc \in [victim : Blks, free : Blks, i : Int, cnt : Int]
      BY <1>3, DataCollection
    <2>2. /\ gc' \in [victim : Blks, free : Blks, i : Int, cnt : Int]
          /\ gc'.victim = gc.victim /\ gc'.free = gc.free
          /\ gc'.i = gc.i + 1 /\ gc'.cnt = gc.cnt
      BY <1>1, <2>1, LocalsStep
    <2>3. gc.cnt + 0 = gc.cnt
      BY <2>1
    <2> QED BY <2>2, <2>3 DEF Advanced
  <1>5. Log(DataBlks, "DATA", Lpns, DataPage, nand.cell, isValid, Block_Status, L2P,
            Next_Data_PPN, GC_Trigger_Data_PPN, TRUE, gc')
    <2>1. Log(DataBlks, "DATA", Lpns, DataPage, nand.cell, isValid, Block_Status, L2P,
              Next_Data_PPN, GC_Trigger_Data_PPN, TRUE, gc)
      BY <1>3, DataCollection
    <2> QED BY <1>1, <1>4, <2>1, DataSide, SkipLog
  <1>6. gc' \in LocalsOfGC
    BY <1>4, <1>5, DataSide, LocalsBound
  <1>7. DataLog'
    <2>1. InDataGC' = TRUE /\ DataMap' = L2P' /\ DataGC' = gc'
      BY <1>1 DEF InDataGC, DataMap, DataGC
    <2> QED BY <1>1, <1>2, <1>5, <2>1 DEF DataLog, flashVars, dataVars
  <1>8. DataTypes'
    BY <1>1, <1>6 DEF DataInv, DataTypes, dataVars
  <1>9. BufferInv' /\ CallInv' /\ RemapInv'
    <2>1. send_kazu' = send_kazu /\ (Buffered(-1)' <=> Buffered(-1))
      BY <1>1 DEF send_kazu, Buffered, BuffersWith, dataVars
    <2> QED BY <1>1, <2>1 DEF DataInv, BufferInv, CallInv, RemapInv, dataVars, InDataGC
  <1> QED BY <1>1, <1>2, <1>7, <1>8, <1>9 DEF DataInv, ChipInv, flashVars

\* garbage_collection copies a page: the current copy of the page it carries,
\* which is mapped to the copy in the next step.
LEMMA GCCopyStep ==
    ASSUME ChipInv, StatusInv, MapInv, DataInv, GCCopy
    PROVE  /\ ChipInv' /\ MapInv' /\ DataInv' /\ L2P' = L2P
           /\ Fresh(nand, isValid, DataBlks, Ppn(gc.free, gc.cnt))
           /\ Update(nand'.cell, nand.cell, Ppns, Ppn(gc.free, gc.cnt), nand.cell[L2P[moved']])
  <1> DEFINE src == Ppn(gc.victim, gc.i)
             dst == Ppn(gc.free, gc.cnt)
             page == nand.cell[src]
             next == [gc EXCEPT !.i = @ + 1, !.cnt = @ + 1]
  <1>1. /\ pc = "gc" /\ pc' = "gc_remap" /\ gc.i < PAGES_PER_BLK /\ isValid[src] = 1
        /\ UNCHANGED <<isValid, Block_Status, mapVars, dataVars>>
        /\ UNCHANGED <<req, pp, data, victim, gc>>
    BY DEF GCCopy
  <1>2. InDataGC /\ DataMap = L2P /\ DataGC = gc
    BY <1>1 DEF InDataGC, DataMap, DataGC
  <1>3. /\ Log(DataBlks, "DATA", Lpns, DataPage, nand.cell, isValid, Block_Status, L2P,
               Next_Data_PPN, GC_Trigger_Data_PPN, TRUE, gc)
        /\ gc \in [victim : Blks, free : Blks, i : Int, cnt : Int]
        /\ gc.victim \in DataBlks /\ gc.victim \in Blks /\ Block_Status[gc.victim] = "DATA"
        /\ OneEmpty(DataBlks, "DATA", Block_Status, gc.free)
        /\ Next_Data_PPN \in Nat /\ Next_Data_PPN = GC_Trigger_Data_PPN
    BY <1>2, DataCollection
  <1>4. /\ gc.i \in Nat /\ gc.i \in Pages
        /\ src \in Ppns /\ BlkOf(src) = gc.victim /\ PageOf(src) = gc.i
    <2>1. gc.i \in Nat
      BY <1>3, DataSide, CollectingFacts
    <2>2. gc.i \in Pages
      BY <1>1, <2>1, Geometry DEF Pages
    <2> QED BY <1>3, <2>1, <2>2, PpnFacts
  <1> HIDE DEF src, dst, page, next
  <1>5. page # Erased /\ page \in DataPage /\ L2P[page.spare] = src
    <2>1. src \in Nat
      BY <1>4, PpnFacts
    <2>2. page # Erased
      BY <1>3, <1>4, <2>1 DEF Log, Frontier, page
    <2>3. page \in DataPage
      BY <1>3, <1>4, <2>2 DEF Log, Contents, page
    <2>4. ~Passed(gc, src)
      BY <1>4 DEF Passed
    <2> QED BY <1>1, <1>3, <1>4, <2>2, <2>3, <2>4 DEF Log, Table, page
  <1>6. /\ nand' = NandWrite(nand, gc.free, gc.cnt, page)
        /\ moved' = page.spare /\ moved' \in Lpns
    BY <1>5, PageKinds DEF GCCopy, PagesRead, Written, src, page
  <1>7. Fresh(nand, isValid, DataBlks, dst) /\ BlkOf(dst) = gc.free /\ PageOf(dst) = gc.cnt
    <2>1. Flags(isValid)
      BY DEF ChipInv, Flags
    <2>2. /\ Fresh(nand, isValid, DataBlks, Ppn(gc.free, gc.cnt))
          /\ BlkOf(Ppn(gc.free, gc.cnt)) = gc.free /\ PageOf(Ppn(gc.free, gc.cnt)) = gc.cnt
      <3>1. nand \in Chip(Content) /\ Prefix(nand)
        BY DEF ChipInv
      <3>2. Log(DataBlks, "DATA", Lpns, DataPage, nand.cell, isValid, Block_Status, L2P,
                Next_Data_PPN, GC_Trigger_Data_PPN, TRUE, gc)
        BY <1>3
      <3>3. DataBlks \in SUBSET Blks
        BY DataSide
      <3> QED BY <2>1, <3>1, <3>2, <3>3, CopyWritable
    <2> QED BY <2>2 DEF dst
  <1>8. /\ nand' \in Chip(Content) /\ Prefix(nand')
        /\ Update(nand'.cell, nand.cell, Ppns, dst, page)
    BY <1>5, <1>6, <1>7, PageKinds, NandWriteFacts DEF ChipInv, Fresh
  <1>9. MapBlksKept
    <2>1. ASSUME NEW q \in Ppns, BlkOf(q) \in MapBlks PROVE q # dst
      BY <1>7, <2>1, OtherSide DEF Fresh
    <2> QED BY <1>1, <1>8, <2>1 DEF MapBlksKept, Update
  <1>10. MapInv' /\ L2P' = L2P
    BY <1>1, <1>9, MapFrame
  <1>11. /\ DataGC' = next /\ InDataGC' = TRUE
         /\ next \in [victim : Blks, free : Blks, i : Int, cnt : Int]
         /\ Advanced(next, gc, 1)
    <2>1. DataGC' = next /\ InDataGC' = TRUE
      BY <1>1 DEF DataGC, InDataGC, next
    <2> QED BY <1>3, <2>1, LocalsStep DEF Advanced, next
  <1>12. Update(DataMap', L2P, Lpns, page.spare, dst)
    <2>1. DataMap' = [L2P EXCEPT ![moved'] = dst]
      BY <1>1, <1>10 DEF DataMap, dst
    <2> QED BY <1>6, <2>1 DEF Update, L2P
  <1>13. DataLog'
    <2>1. Flags(isValid)
      BY DEF ChipInv, Flags
    <2>2. page.spare = nand.cell[Ppn(gc.victim, gc.i)].spare
      BY DEF page, src
    <2>3. Update(nand'.cell, nand.cell, Ppns, Ppn(gc.free, gc.cnt), page)
      BY <1>8 DEF dst
    <2>4. Update(DataMap', L2P, Lpns, page.spare, Ppn(gc.free, gc.cnt))
      BY <1>12 DEF dst
    <2>5. isValid[Ppn(gc.victim, gc.i)] = 1
      BY <1>1 DEF src
    <2>6. Log(DataBlks, "DATA", Lpns, DataPage, nand'.cell, isValid, Block_Status, DataMap',
              Next_Data_PPN, GC_Trigger_Data_PPN, TRUE, next)
      BY <1>1, <1>3, <1>5, <1>11, <2>1, <2>2, <2>3, <2>4, <2>5, DataSide, CopyLog
    <2> QED BY <1>1, <1>11, <2>6 DEF DataLog, dataVars
  <1>14. DataTypes'
    BY <1>1, <1>6 DEF DataInv, DataTypes, dataVars
  <1>15. RemapInv'
    <2>1. src # dst
      BY <1>5, <1>7 DEF Fresh, page
    <2>2. nand'.cell[src] = page
      BY <1>4, <1>8, <2>1 DEF Update, page
    <2> QED BY <1>1, <1>5, <1>6, <1>10, <2>2 DEF RemapInv, Written, src
  <1>16. BufferInv' /\ CallInv'
    <2>1. send_kazu' = send_kazu /\ (Buffered(-1)' <=> Buffered(-1))
      BY <1>1 DEF send_kazu, Buffered, BuffersWith, dataVars
    <2> QED BY <1>1, <2>1 DEF DataInv, BufferInv, CallInv, dataVars, InDataGC
  <1>17. /\ Fresh(nand, isValid, DataBlks, Ppn(gc.free, gc.cnt))
         /\ Update(nand'.cell, nand.cell, Ppns, Ppn(gc.free, gc.cnt), nand.cell[L2P[moved']])
    <2>1. nand.cell[L2P[moved']] = page
      BY <1>5, <1>6 DEF page
    <2> QED BY <1>7, <1>8, <2>1 DEF dst
  <1> QED BY <1>1, <1>8, <1>10, <1>13, <1>14, <1>15, <1>16, <1>17 DEF DataInv, ChipInv

\* The page that was copied is mapped to its copy.
LEMMA GCRemapStep ==
    ASSUME ChipInv, StatusInv, MapInv, DataInv, GCRemap
    PROVE  /\ ChipInv' /\ MapInv' /\ DataInv'
           /\ \A m \in Lpns : m # moved => L2P'[m] = L2P[m]
           /\ Ppn(gc.free, gc.cnt) \in Ppns
           /\ Update(L2P', L2P, Lpns, moved, Ppn(gc.free, gc.cnt))
  <1> DEFINE dst == Ppn(gc.free, gc.cnt)
  <1>1. /\ pc = "gc_remap" /\ pc' = "gc" /\ mpc = "idle" /\ Cached(lpn2vpn(moved))
        /\ update_L2P(moved, dst)
        /\ gc' = [gc EXCEPT !.i = @ + 1, !.cnt = @ + 1]
        /\ moved' = 0
        /\ UNCHANGED <<flashVars, GTD, Next_Map_PPN, GC_Trigger_Map_PPN, mpc, victim_slot, mgc>>
        /\ UNCHANGED <<dataVars, req, pp, data, victim>>
    BY DEF GCRemap, MapReady, Lookups
  <1>2. InDataGC /\ InDataGC' = TRUE /\ DataGC' = gc' /\ DataGC = gc' /\ DataMap' = L2P'
    BY <1>1 DEF InDataGC, DataGC, DataMap
  <1>3. /\ Log(DataBlks, "DATA", Lpns, DataPage, nand.cell, isValid, Block_Status, DataMap,
               Next_Data_PPN, GC_Trigger_Data_PPN, TRUE, gc')
        /\ gc \in [victim : Blks, free : Blks, i : Int, cnt : Int]
    BY <1>2, DataCollection
  <1>4. moved \in Lpns
    BY DEF DataInv, DataTypes
  <1>5. Update(DataMap, L2P, Lpns, moved, dst)
    <2>1. DataMap = [L2P EXCEPT ![moved] = dst]
      BY <1>1 DEF DataMap
    <2> QED BY <2>1 DEF Update, L2P
  <1>6. dst \in Ppns
    <2>1. DataMap[moved] = dst
      BY <1>4, <1>5 DEF Update
    <2>2. gc.free \in Blks /\ gc.cnt \in Nat
      BY DEF DataInv, DataTypes, LocalsOfGC
    <2>3. dst # -1
      BY <2>2, Geometry DEF Ppn, Blks
    <2> HIDE DEF dst
    <2> QED BY <1>3, <1>4, <2>1, <2>3 DEF Log, Table
  <1> HIDE DEF dst
  <1>7. MapInv' /\ Update(L2P', L2P, Lpns, moved, dst)
    BY <1>1, <1>4, <1>6, UpdateMap DEF MapBlksKept, flashVars
  <1>8. gc' \in [victim : Blks, free : Blks, i : Int, cnt : Int]
    BY <1>1, <1>3, LocalsStep
  <1>9. gc' \in LocalsOfGC
    BY <1>3, <1>8, DataSide, LocalsBound
  <1>10. DataLog'
    <2>1. \A m \in Lpns : L2P'[m] = DataMap[m]
      BY <1>5, <1>7 DEF Update
    <2>2. Log(DataBlks, "DATA", Lpns, DataPage, nand.cell, isValid, Block_Status, L2P',
              Next_Data_PPN, GC_Trigger_Data_PPN, TRUE, gc')
      BY <1>3, <2>1, DataSide, FrameLog
    <2> QED BY <1>1, <1>2, <2>2 DEF DataLog, flashVars, dataVars
  <1>11. DataTypes'
    <2>1. 0 \in Lpns
      <3>1. N_LPNS_PB \in Nat
        BY Geometry DEF N_LPNS_PB
      <3> QED BY <1>4, <3>1 DEF Lpns
    <2> QED BY <1>1, <1>9, <2>1 DEF DataInv, DataTypes, dataVars
  <1>12. BufferInv' /\ CallInv' /\ RemapInv'
    <2>1. send_kazu' = send_kazu /\ (Buffered(-1)' <=> Buffered(-1))
      BY <1>1 DEF send_kazu, Buffered, BuffersWith, dataVars
    <2> QED BY <1>1, <2>1 DEF DataInv, BufferInv, CallInv, RemapInv, dataVars, InDataGC
  <1>13. \A m \in Lpns : m # moved => L2P'[m] = L2P[m]
    BY <1>7 DEF Update
  <1>14. Ppn(gc.free, gc.cnt) \in Ppns /\ Update(L2P', L2P, Lpns, moved, Ppn(gc.free, gc.cnt))
    BY <1>6, <1>7 DEF dst
  <1> QED BY <1>1, <1>7, <1>10, <1>11, <1>12, <1>13, <1>14 DEF DataInv, ChipInv, flashVars

\* The end of garbage_collection: the victim held nothing the mapping leads to.
LEMMA GCFinishStep ==
    ASSUME ChipInv, StatusInv, MapInv, DataInv, GCFinish
    PROVE  /\ ChipInv' /\ MapInv' /\ DataInv' /\ L2P' = L2P
           /\ \A l \in Lpns : L2P[l] # -1 => L2P[l] \in Ppns /\ BlkOf(L2P[l]) # gc.victim
           /\ Wiped(nand'.cell, nand.cell, gc.victim, Erased)
  <1>1. /\ pc = "gc" /\ pc' = "flush" /\ gc.i = PAGES_PER_BLK /\ gc' = NoGC
        /\ Next_Data_PPN' = Ppn(gc.free, gc.cnt)
        /\ GC_Trigger_Data_PPN' = Ppn(gc.free, PAGES_PER_BLK)
        /\ isValid' = Refreshed(gc.victim)
        /\ nand' = NandErase(nand, gc.victim)
        /\ Block_Status' = [Block_Status EXCEPT ![gc.victim] = "EMPTY", ![gc.free] = "DATA"]
        /\ UNCHANGED <<mapVars, buffer, req, pp, data, victim, moved>>
    BY DEF GCFinish, Retire
  <1>2. InDataGC /\ DataMap = L2P /\ DataGC = gc
    BY <1>1 DEF InDataGC, DataMap, DataGC
  <1>3. /\ Log(DataBlks, "DATA", Lpns, DataPage, nand.cell, isValid, Block_Status, L2P,
               Next_Data_PPN, GC_Trigger_Data_PPN, TRUE, gc)
        /\ gc.victim \in DataBlks /\ gc.victim \in Blks /\ Block_Status[gc.victim] = "DATA"
        /\ gc.free \in DataBlks /\ gc.free \in Blks /\ Block_Status[gc.free] = "EMPTY"
        /\ OneEmpty(DataBlks, "DATA", Block_Status, gc.free)
        /\ Next_Data_PPN \in Nat
    BY <1>2, DataCollection
  <1>4. \A blk \in Blks : Block_Status'[blk] = IF blk = gc.victim THEN "EMPTY"
                            ELSE IF blk = gc.free THEN "DATA" ELSE Block_Status[blk]
    BY <1>1, <1>3, Sides, Swapped, ZenonT(60)
  <1>5. /\ nand' \in Chip(Content) /\ Prefix(nand')
        /\ Wiped(nand'.cell, nand.cell, gc.victim, Erased)
    BY <1>1, <1>3, PageKinds, NandEraseFacts DEF ChipInv
  <1>6. Wiped(isValid', isValid, gc.victim, 1)
    BY <1>1 DEF Refreshed, Wiped
  <1>7. ChipInv'
    <2>1. isValid' \in [Ppns -> {0, 1}]
      BY <1>1 DEF Refreshed, ChipInv
    <2> QED BY <1>5, <2>1 DEF ChipInv
  <1>8. MapBlksKept
    <2>1. ASSUME NEW q \in Ppns, BlkOf(q) \in MapBlks PROVE BlkOf(q) # gc.victim
      BY <1>3, <2>1, OtherSide
    <2>2. \A blk \in MapBlks : blk \in Blks /\ blk # gc.victim /\ blk # gc.free
      BY <1>3, Sides
    <2> QED BY <1>4, <1>5, <1>6, <2>1, <2>2 DEF MapBlksKept, Wiped
  <1>9. MapInv' /\ L2P' = L2P
    BY <1>1, <1>8, MapFrame
  <1>10. /\ Log(DataBlks, "DATA", Lpns, DataPage, nand'.cell, isValid', Block_Status', L2P,
                Ppn(gc.free, gc.cnt), Ppn(gc.free, PAGES_PER_BLK), FALSE, NoGC)
         /\ Ppn(gc.free, gc.cnt) < Ppn(gc.free, PAGES_PER_BLK)
    <2>1. Exchanged(Block_Status', Block_Status, DataBlks, "DATA", gc)
      BY <1>4, Sides DEF Exchanged
    <2> QED BY <1>1, <1>3, <1>5, <1>6, <2>1, DataSide, FinishLog
  <1>11. Next_Data_PPN' \in EndPpns /\ GC_Trigger_Data_PPN' \in EndPpns
    <2>1. gc.cnt \in Nat /\ gc.cnt < PAGES_PER_BLK /\ PAGES_PER_BLK \in Nat
      BY <1>3, DataSide, CollectingFacts, Geometry
    <2> DEFINE F == gc.free * PAGES_PER_BLK
               top == BLKS_PER_BANK * PAGES_PER_BLK
    <2>2. /\ F \in Nat /\ F + PAGES_PER_BLK <= top /\ top \in Nat
          /\ Ppn(gc.free, gc.cnt) = F + gc.cnt
          /\ Ppn(gc.free, PAGES_PER_BLK) = F + PAGES_PER_BLK
      BY <1>3, <2>1, BlockInterval, Geometry
    <2>3. EndPpns = 0 .. top
      BY DEF EndPpns
    <2> HIDE DEF F, top
    <2> QED BY <1>1, <2>1, <2>2, <2>3
  <1>12. DataTypes'
    <2>1. NoGC \in LocalsOfGC
      BY Geometry, Sides DEF NoGC, LocalsOfGC
    <2> QED BY <1>1, <1>11, <2>1 DEF DataInv, DataTypes
  <1>13. DataLog'
    <2>1. InDataGC' = FALSE /\ DataMap' = L2P' /\ DataGC' = gc'
      BY <1>1 DEF InDataGC, DataMap, DataGC
    <2> QED BY <1>1, <1>9, <1>10, <2>1 DEF DataLog
  <1>14. BufferInv' /\ CallInv' /\ RemapInv'
    <2>1. send_kazu' = send_kazu /\ (Buffered(-1)' <=> Buffered(-1))
      BY <1>1 DEF send_kazu, Buffered, BuffersWith
    <2> QED BY <1>1, <1>10, <2>1 DEF DataInv, BufferInv, CallInv, RemapInv, InDataGC
  <1>15. ASSUME NEW l \in Lpns, L2P[l] # -1
         PROVE  L2P[l] \in Ppns /\ BlkOf(L2P[l]) # gc.victim
    <2>1. L2P[l] \in Ppns /\ ~Passed(gc, L2P[l])
      BY <1>3, <1>15 DEF Log, Table
    <2>2. PageOf(L2P[l]) < gc.i
      BY <1>1, <2>1, PpnFacts
    <2> QED BY <2>1, <2>2 DEF Passed
  <1> QED BY <1>5, <1>7, <1>9, <1>12, <1>13, <1>14, <1>15 DEF DataInv

\* A step of the cache does not touch the data, not even between the copy of a
\* page and its mapping.
LEMMA LoadMapStep ==
    ASSUME StartsWell, ChipInv, StatusInv, MapInv, DataInv, LoadMap
    PROVE  ChipInv' /\ MapInv' /\ DataInv' /\ L2P' = L2P /\ DataBlksKept
  <1>1. PICK l \in Lookups : CacheStep(lpn2vpn(l))
    BY DEF LoadMap
  <1>2. /\ UNCHANGED <<dataVars, callVars>>
        /\ UNCHANGED <<Next_Data_PPN, GC_Trigger_Data_PPN, buffer, req, pc, pp, data, victim, gc, moved>>
    BY DEF LoadMap, dataVars, callVars
  <1>3. l \in Lpns
    <2>1. pc \in {"read", "write"} /\ pp < send_kazu => req.op # "idle"
      BY DEF DataInv, DataTypes, CallInv
    <2>2. pc \in {"read", "write"} /\ pp < send_kazu => lpn \in Lpns
      BY <2>1, LpnType DEF DataInv
    <2>3. moved \in Lpns
      BY DEF DataInv, DataTypes
    <2>4. pc = "flush" => buffer[victim].lpn \in Lpns
      <3> SUFFICES ASSUME pc = "flush" PROVE buffer[victim].lpn \in Lpns
        OBVIOUS
      <3>1. victim \in Buffers /\ ~Buffered(-1)
        BY DEF DataInv, DataTypes, BufferInv
      <3>2. buffer[victim].lpn # -1
        BY <3>1 DEF Buffered, BuffersWith
      <3> QED BY <3>1, <3>2 DEF DataInv, DataTypes
    <2> QED BY <2>2, <2>3, <2>4 DEF Lookups
  <1>4. ChipInv' /\ MapInv' /\ MapKept /\ DataBlksKept
    <2>1. lpn2vpn(l) \in Vpns
      BY <1>3, LpnFacts
    <2> QED BY <1>1, <2>1, CacheStepKeeps
  <1>5. L2P' = L2P
    BY <1>4, KeptMap
  <1>6. InDataGC' = InDataGC /\ DataMap' = DataMap /\ DataGC' = DataGC
    BY <1>2, <1>5 DEF InDataGC, DataMap, DataGC
  <1>7. DataLog'
    <2>1. Log(DataBlks, "DATA", Lpns, DataPage, nand.cell, isValid, Block_Status, DataMap,
              Next_Data_PPN, GC_Trigger_Data_PPN, InDataGC, DataGC)
      BY DEF DataInv, DataLog
    <2>2. /\ \A q \in Ppns : BlkOf(q) \in DataBlks =>
                nand'.cell[q] = nand.cell[q] /\ isValid'[q] = isValid[q]
          /\ \A blk \in DataBlks : Block_Status'[blk] = Block_Status[blk]
      BY <1>4 DEF DataBlksKept
    <2>3. Log(DataBlks, "DATA", Lpns, DataPage, nand'.cell, isValid', Block_Status', DataMap,
              Next_Data_PPN, GC_Trigger_Data_PPN, InDataGC, DataGC)
      BY <2>1, <2>2, DataSide, FrameLog
    <2> QED BY <1>2, <1>6, <2>3 DEF DataLog
  <1>8. RemapInv'
    <2> SUFFICES ASSUME pc = "gc_remap"
                 PROVE  /\ gc.i < PAGES_PER_BLK
                        /\ L2P'[moved] = Ppn(gc.victim, gc.i)
                        /\ nand'.cell[Ppn(gc.victim, gc.i)] # Erased
                        /\ nand'.cell[Ppn(gc.victim, gc.i)].spare = moved
                        /\ isValid'[Ppn(gc.victim, gc.i)] = 1
      BY <1>2 DEF RemapInv, Written
    <2> DEFINE src == Ppn(gc.victim, gc.i)
    <2>1. /\ gc.i < PAGES_PER_BLK /\ L2P[moved] = src /\ nand.cell[src] # Erased
          /\ nand.cell[src].spare = moved /\ isValid[src] = 1
      BY DEF DataInv, RemapInv, Written
    <2>2. src \in Ppns /\ BlkOf(src) \in DataBlks
      <3>1. gc.victim \in Blks /\ gc.victim \in DataBlks
        BY DataCollection DEF InDataGC
      <3>2. gc.i \in Pages
        BY <2>1, Geometry DEF DataInv, DataTypes, LocalsOfGC, Pages
      <3> QED BY <3>1, <3>2, PpnFacts
    <2> HIDE DEF src
    <2>3. nand'.cell[src] = nand.cell[src] /\ isValid'[src] = isValid[src]
      BY <1>4, <2>2 DEF DataBlksKept
    <2> QED BY <1>5, <2>1, <2>3 DEF src
  <1>9. DataTypes' /\ BufferInv' /\ CallInv'
    <2>1. send_kazu' = send_kazu /\ (Buffered(-1)' <=> Buffered(-1))
      BY <1>2 DEF send_kazu, Buffered, BuffersWith
    <2> QED BY <1>2, <2>1 DEF DataInv, DataTypes, BufferInv, CallInv, InDataGC
  <1> QED BY <1>4, <1>5, <1>7, <1>8, <1>9 DEF DataInv

-----------------------------------------------------------------------------
\* The inductive invariant.

\* Nothing is mapped at first.
LEMMA InitMapping ==
    ASSUME Init, NEW l \in Lpns
    PROVE  L2P[l] = -1
  <1>1. lpn2vpn(l) \in Vpns /\ EntryOf(l) \in Entries
    BY LpnFacts
  <1>2. MapPage(lpn2vpn(l)) = Unmapped
    <2> DEFINE v == lpn2vpn(l)
    <2>1. v \in Vpns /\ v # -1
      BY <1>1 DEF Vpns
    <2> HIDE DEF v
    <2>2. (\A s \in Slots : CMT[s].vpn = -1) /\ GTD[v] = -1
      BY <2>1 DEF Init, InitMap
    <2>3. Unique(CMT) /\ \A s \in Slots : CMT[s].vpn # v
      BY <2>1, <2>2 DEF Unique
    <2>4. MapPage(v) = Unmapped
      BY <2>1, <2>2, <2>3, PageInFacts, MapPageIn
    <2> QED BY <2>4 DEF v
  <1> QED BY <1>1, <1>2 DEF L2P, Unmapped

LEMMA InitInv == Init => IndInv
  <1> SUFFICES ASSUME Init PROVE IndInv
    OBVIOUS
  <1>1. StatusInv
    BY StatusInit
  <1>2. /\ nand = EmptyBank /\ isValid = [ppn \in Ppns |-> 1]
        /\ CMT = [slot \in Slots |-> [vpn |-> -1, dirty |-> FALSE, data |-> Unmapped]]
        /\ GTD = [vpn \in Vpns |-> -1]
        /\ is_VPN_first_time = [vpn \in Vpns |-> TRUE]
        /\ Next_Map_PPN = Ppn(N_PHY_DATA_BLK, 0) /\ GC_Trigger_Map_PPN = Ppn(BLKS_PER_BANK - 1, 0)
        /\ mpc = "idle" /\ victim_slot = 0 /\ mgc = NoGC
        /\ Next_Data_PPN = 0 /\ GC_Trigger_Data_PPN = Ppn(N_PHY_DATA_BLK - 1, 0)
        /\ buffer = [slot \in Buffers |-> [lpn |-> -1, data |-> JunkPage]]
        /\ req = Idle /\ pc = "idle" /\ pp = 0 /\ data = JunkPage
        /\ victim = 0 /\ gc = NoGC /\ moved = 0
    BY DEF Init, InitMap
  <1>3. ChipInv
    <2>1. \A q \in Ppns : nand.cell[q] = Erased
      BY <1>2 DEF EmptyBank
    <2>2. \A q \in Ppns : nand.blk_index[BlkOf(q)] = 0 /\ ~(PageOf(q) < 0)
      BY <1>2, PpnFacts DEF EmptyBank
    <2>3. nand \in Chip(Content)
      BY <1>2, PageKinds, Geometry DEF EmptyBank, Chip
    <2> QED BY <1>2, <2>1, <2>2, <2>3 DEF ChipInv, Prefix
  <1>4. \A q \in Ppns : nand.cell[q] = Erased /\ isValid[q] = 1
    BY <1>2 DEF EmptyBank
  <1>5. /\ OneEmpty(DataBlks, "DATA", Block_Status, N_PHY_DATA_BLK - 1)
        /\ OneEmpty(MapBlks, "MAP", Block_Status, BLKS_PER_BANK - 1)
    <2>1. Block_Status = [blk \in Blks |->
              IF blk \in {N_PHY_DATA_BLK - 1, BLKS_PER_BANK - 1} THEN "EMPTY"
              ELSE IF blk < N_PHY_DATA_BLK THEN "DATA" ELSE "MAP"]
      BY DEF Init, InitMap
    <2> QED BY <2>1, Sides, Geometry DEF OneEmpty, DataBlks, MapBlks
  <1>6. Ppn(N_PHY_DATA_BLK, 0) \in EndPpns /\ Ppn(BLKS_PER_BANK - 1, 0) \in EndPpns
        /\ Ppn(N_PHY_DATA_BLK - 1, 0) \in EndPpns /\ Ppn(0, 0) = 0 /\ 0 \in EndPpns
    <2>1. /\ N_PHY_DATA_BLK \in Blks /\ BLKS_PER_BANK - 1 \in Blks
          /\ N_PHY_DATA_BLK - 1 \in Blks /\ 0 \in Blks /\ 0 \in Pages
      BY Geometry DEF Blks, Pages
    <2>2. \A q \in Ppns : q \in EndPpns
      BY Geometry DEF Ppns, EndPpns
    <2>3. Ppn(0, 0) = 0
      BY Geometry DEF Ppn
    <2> QED BY <2>1, <2>2, <2>3, PpnFacts
  <1>7. NoGC \in LocalsOfGC /\ 0 \in Slots /\ 0 \in Buffers /\ 0 \in Lpns
    <2>1. N_LPNS_PB \in Nat \ {0}
      BY Geometry DEF N_LPNS_PB
    <2> QED BY <2>1, Geometry, DemandAssumption, Sides
            DEF NoGC, LocalsOfGC, Slots, Buffers, Lpns, DemandAssumption
  <1>8. MapTypes
    <2>1. Unmapped \in MapContents
      BY DEF Unmapped, MapContents
    <2>2. /\ CMT \in [Slots -> [vpn : Vpns \cup {-1}, dirty : BOOLEAN, data : MapContents]]
          /\ GTD \in [Vpns -> Ppns \cup {-1}]
          /\ is_VPN_first_time \in [Vpns -> BOOLEAN]
      BY <1>2, <2>1
    <2> QED BY <1>2, <1>6, <1>7, <2>2 DEF MapTypes
  <1>9. CacheInv
    <2>1. \A s \in Slots : CMT[s].vpn = -1
      BY <1>2
    <2>2. ASSUME NEW vpn \in Vpns
          PROVE  is_VPN_first_time[vpn] /\ GTD[vpn] = -1 /\ vpn # -1
      BY <1>2 DEF Vpns
    <2> QED BY <1>2, <2>1, <2>2 DEF CacheInv, Unique
  <1>10. MapLog
    <2>1. MapBlks = BlksFrom(N_PHY_DATA_BLK, BLKS_PER_BANK)
      BY DEF MapBlks, BlksFrom
    <2>2. /\ N_PHY_DATA_BLK \in Nat /\ BLKS_PER_BANK \in Nat /\ N_PHY_DATA_BLK < BLKS_PER_BANK
          /\ BLKS_PER_BANK <= BLKS_PER_BANK
      BY Geometry
    <2>3. \A v \in Vpns : GTD[v] = -1
      BY <1>2
    <2>4. Log(MapBlks, "MAP", Vpns, MapPages, nand.cell, isValid, Block_Status, GTD,
              Ppn(N_PHY_DATA_BLK, 0), Ppn(BLKS_PER_BANK - 1, 0), FALSE, mgc)
      BY <1>4, <1>5, <2>1, <2>2, <2>3, EmptyLog
    <2>5. InMapGC = FALSE
      BY <1>2 DEF InMapGC
    <2> QED BY <1>2, <2>4, <2>5 DEF MapLog
  <1>11. \A l \in Lpns : L2P[l] = -1
    BY InitMapping
  <1>12. DataLog
    <2>1. N_PHY_DATA_BLK \in Nat /\ 0 < N_PHY_DATA_BLK /\ N_PHY_DATA_BLK <= BLKS_PER_BANK
      BY Geometry
    <2>2. Log(DataBlks, "DATA", Lpns, DataPage, nand.cell, isValid, Block_Status, L2P,
              Ppn(0, 0), Ppn(N_PHY_DATA_BLK - 1, 0), FALSE, gc)
      BY <1>4, <1>5, <1>11, <2>1, DataSide, EmptyLog
    <2>3. InDataGC = FALSE /\ DataMap = L2P /\ DataGC = gc
      BY <1>2 DEF InDataGC, DataMap, DataGC
    <2> QED BY <1>2, <1>6, <2>2, <2>3 DEF DataLog
  <1>13. DataTypes
    <2>1. JunkPage \in [Offsets -> DataWord]
      BY DEF JunkPage, DataWord
    <2>2. req.op = "idle" /\ req.lba = 0 /\ req.nsect = 0
      BY <1>2 DEF Idle
    <2> QED BY <1>2, <1>6, <1>7, <2>1, <2>2 DEF DataTypes
  <1>14. RemapInv /\ BufferInv /\ CallInv
    <2>1. req.op = "idle"
      BY <1>2 DEF Idle
    <2> QED BY <1>2, <2>1 DEF RemapInv, BufferInv, CallInv, InDataGC
  <1> QED BY <1>1, <1>3, <1>8, <1>9, <1>10, <1>12, <1>13, <1>14 DEF IndInv, MapInv

\* Each step keeps the invariant, and changes the map for its own page only.
OwnPageOnly ==
    \A l \in Lpns : L2P'[l] # L2P[l] =>
        \/ pc = "flush" /\ pc' = "store" /\ l = buffer[victim].lpn
        \/ pc = "gc_remap" /\ pc' = "gc" /\ l = moved

LEMMA NextInv ==
    ASSUME StartsWell, IndInv, [Next]_vars
    PROVE  IndInv' /\ OwnPageOnly
  <1>1. ChipInv /\ StatusInv /\ MapInv /\ DataInv
    BY DEF IndInv, DataInv
  <1>2. StatusInv'
    BY <1>1, StatusNext
  <1>3. ChipInv' /\ MapInv' /\ DataInv' /\ OwnPageOnly
    <2>1. CASE Submit
      BY <1>1, <2>1, SubmitStep DEF OwnPageOnly
    <2>2. CASE Return
      BY <1>1, <2>2, ReturnStep DEF OwnPageOnly
    <2>3. CASE FetchPage
      BY <1>1, <2>3, FetchPageStep DEF OwnPageOnly
    <2>4. CASE PackPage
      BY <1>1, <2>4, PackPageStep DEF OwnPageOnly
    <2>5. CASE Store
      BY <1>1, <2>5, StoreStep DEF OwnPageOnly
    <2>6. CASE PickVictim
      BY <1>1, <2>6, PickVictimStep DEF OwnPageOnly
    <2>7. CASE Flush
      <3>1. pc = "flush" /\ pc' = "store"
        BY <2>7 DEF Flush
      <3> QED BY <1>1, <2>7, <3>1, FlushStep DEF OwnPageOnly
    <2>8. CASE SkipInvalid
      BY <1>1, <2>8, SkipInvalidStep DEF OwnPageOnly
    <2>9. CASE GCCopy
      BY <1>1, <2>9, GCCopyStep DEF OwnPageOnly
    <2>10. CASE GCRemap
      <3>1. pc = "gc_remap" /\ pc' = "gc"
        BY <2>10 DEF GCRemap
      <3> QED BY <1>1, <2>10, <3>1, GCRemapStep DEF OwnPageOnly
    <2>11. CASE GCFinish
      BY <1>1, <2>11, GCFinishStep DEF OwnPageOnly
    <2>12. CASE LoadMap
      BY <1>1, <2>12, LoadMapStep DEF OwnPageOnly
    <2>13. CASE UNCHANGED vars
      <3>1. /\ UNCHANGED <<nand, isValid, Block_Status, Next_Data_PPN, GC_Trigger_Data_PPN, buffer,
                           req, pc, pp, data, victim, gc, moved>>
            /\ mapVars' = mapVars
        BY <2>13 DEF vars, flashVars, dataVars, callVars
      <3>2. MapInv' /\ L2P' = L2P
        BY <1>1, <3>1, MapFrame DEF MapBlksKept
      <3>3. InDataGC' = InDataGC /\ DataMap' = DataMap /\ DataGC' = DataGC
        BY <3>1, <3>2 DEF InDataGC, DataMap, DataGC
      <3>4. send_kazu' = send_kazu /\ (Buffered(-1)' <=> Buffered(-1))
        BY <3>1 DEF send_kazu, Buffered, BuffersWith
      <3>5. DataLog' /\ RemapInv'
        BY <1>1, <3>1, <3>2, <3>3 DEF DataInv, DataLog, RemapInv, Written
      <3>6. DataTypes' /\ BufferInv' /\ CallInv'
        BY <1>1, <3>1, <3>3, <3>4 DEF DataInv, DataTypes, BufferInv, CallInv
      <3> QED BY <1>1, <3>1, <3>2, <3>5, <3>6 DEF DataInv, ChipInv, OwnPageOnly
    <2> QED BY <2>1, <2>2, <2>3, <2>4, <2>5, <2>6, <2>7, <2>8, <2>9, <2>10, <2>11, <2>12, <2>13
            DEF Next, Step
  <1> QED BY <1>2, <1>3 DEF IndInv, DataInv

\* With pages to spare, or as long as no collection starts in vain, the tables
\* of ftl.c and the chip hold what the invariant says, at every step of a call.
THEOREM Invariance == ASSUME EnoughRoom PROVE Spec => []IndInv
  <1>1. IndInv /\ [Next]_vars => IndInv'
    BY NextInv DEF StartsWell
  <1> QED BY <1>1, InitInv, PTL DEF Spec

LEMMA InvarianceWhileReclaiming == Spec /\ []CollectionsReclaim => []IndInv
  <1>1. IndInv /\ CollectionsReclaim' /\ [Next]_vars => IndInv'
    BY NextInv DEF StartsWell
  <1> QED BY <1>1, InitInv, PTL DEF Spec

-----------------------------------------------------------------------------
\* What the invariant says of the properties of DemandFTL.

\* The page that is being moved: its copy is mapped next, its source is still
\* mapped.
LEMMA MovingPage ==
    ASSUME StatusInv, DataInv, pc = "gc_remap"
    PROVE  LET src == Ppn(gc.victim, gc.i) IN
           /\ src \in Ppns /\ BlkOf(src) = gc.victim /\ PageOf(src) = gc.i
           /\ BlkOf(src) \in DataBlks
           /\ L2P[moved] = src /\ nand.cell[src] # Erased
           /\ nand.cell[src].spare = moved /\ isValid[src] = 1
           /\ DataGC.victim = gc.victim /\ DataGC.i = gc.i + 1
           /\ DataMap[moved] = Ppn(gc.free, gc.cnt)
           /\ \A l \in Lpns : l # moved => DataMap[l] = L2P[l]
  <1>1. gc \in LocalsOfGC /\ moved \in Lpns
    BY DEF DataInv, DataTypes
  <1>2. gc.i \in Pages /\ gc.victim \in DataBlks /\ gc.victim \in Blks
    <2>1. gc.i \in 0 .. PAGES_PER_BLK /\ gc.i < PAGES_PER_BLK
      BY <1>1 DEF DataInv, RemapInv, LocalsOfGC
    <2> QED BY <2>1, Sides, Geometry DEF StatusInv, InDataGC, Pages
  <1>3. /\ DataGC.victim = gc.victim /\ DataGC.i = gc.i + 1
        /\ DataMap[moved] = Ppn(gc.free, gc.cnt)
        /\ \A l \in Lpns : l # moved => DataMap[l] = L2P[l]
    BY <1>1 DEF DataGC, DataMap, LocalsOfGC, L2P
  <1> QED BY <1>2, <1>3, PpnFacts DEF DataInv, RemapInv, Written

LEMMA MappedPages ==
    ASSUME StatusInv, DataInv, NEW l \in Lpns, L2P[l] # -1
    PROVE  /\ L2P[l] \in Ppns /\ BlkOf(L2P[l]) \in DataBlks
           /\ Written(L2P[l]) /\ nand.cell[L2P[l]] \in DataPage
           /\ nand.cell[L2P[l]].spare = l /\ isValid[L2P[l]] = 1
  <1>1. CASE pc = "gc_remap" /\ l = moved
    <2>1. nand.cell[L2P[l]] \in DataPage
      BY <1>1, MovingPage DEF DataInv, DataLog, Log, Contents
    <2> QED BY <1>1, <2>1, MovingPage DEF Written
  <1>2. CASE ~(pc = "gc_remap" /\ l = moved)
    <2>1. DataMap[l] = L2P[l]
      BY <1>2, MovingPage DEF DataMap
    <2>2. /\ L2P[l] \in Ppns /\ BlkOf(L2P[l]) \in DataBlks
          /\ nand.cell[L2P[l]] # Erased
          /\ nand.cell[L2P[l]].spare = l /\ isValid[L2P[l]] = 1
      BY <2>1 DEF DataInv, DataLog, Log, Table
    <2> QED BY <2>2 DEF DataInv, DataLog, Log, Contents, Written
  <1> QED BY <1>1, <1>2

LEMMA ValidPages ==
    ASSUME StatusInv, DataInv, NEW q \in Ppns, BlkOf(q) \in DataBlks, Written(q), isValid[q] = 1
    PROVE  \/ L2P[nand.cell[q].spare] = q
           \/ InDataGC /\ MovedIn(gc, q)
           \/ pc = "gc_remap" /\ q = Ppn(gc.free, gc.cnt) /\ nand.cell[q].spare = moved
  <1> DEFINE l == nand.cell[q].spare
  <1>1. l \in Lpns
    <2>1. nand.cell[q] \in DataPage
      BY DEF DataInv, DataLog, Log, Contents, Written
    <2> QED BY <2>1, PageKinds
  <1>2. DataMap[l] = q \/ (InDataGC /\ Passed(DataGC, q))
    BY DEF DataInv, DataLog, Log, Table, Written
  <1> HIDE DEF l
  <1>3. CASE pc # "gc_remap"
    BY <1>2, <1>3 DEF DataMap, DataGC, Passed, MovedIn, l
  <1>4. CASE pc = "gc_remap"
    <2>1. CASE DataMap[l] = q
      BY <1>1, <1>4, <2>1, MovingPage DEF l
    <2>2. CASE InDataGC /\ Passed(DataGC, q)
      <3>1. BlkOf(q) = gc.victim /\ PageOf(q) < gc.i + 1
        BY <1>4, <2>2, MovingPage DEF Passed
      <3>2. PageOf(q) < gc.i \/ PageOf(q) = gc.i
        <4>1. PageOf(q) \in Nat /\ gc.i \in Int
          BY PpnFacts DEF StatusInv
        <4> QED BY <3>1, <4>1
      <3>3. CASE PageOf(q) < gc.i
        BY <2>2, <3>1, <3>3 DEF MovedIn
      <3>4. CASE PageOf(q) = gc.i
        <4>1. q = Ppn(gc.victim, gc.i)
          BY <1>4, <3>1, <3>4, MovingPage, SamePage
        <4> QED BY <1>4, <4>1, MovingPage DEF l
      <3> QED BY <3>2, <3>3, <3>4
    <2> QED BY <1>2, <2>1, <2>2
  <1> QED BY <1>3, <1>4

\* The pages that are programmed next, in all four places, are fresh.
LEMMA NextPagesFresh ==
    ASSUME ChipInv, StatusInv, MapInv, DataInv
    PROVE  /\ pc = "flush" => Fresh(nand, isValid, DataBlks, Next_Data_PPN)
           /\ pc = "gc" => /\ Fresh(nand, isValid, DataBlks, Ppn(gc.free, gc.cnt))
           /\ mpc = "evict" => Fresh(nand, isValid, MapBlks, Next_Map_PPN)
           /\ InMapGC => Fresh(nand, isValid, MapBlks, Ppn(mgc.free, mgc.cnt))
  <1>1. /\ nand \in Chip(Content) /\ Prefix(nand) /\ Flags(isValid)
        /\ DataBlks \in SUBSET Blks /\ MapBlks \in SUBSET Blks
    BY Sides DEF ChipInv, Flags
  <1>2. /\ Next_Data_PPN \in Nat /\ GC_Trigger_Data_PPN \in Nat
        /\ Next_Map_PPN \in Nat /\ GC_Trigger_Map_PPN \in Nat
    BY Geometry DEF DataInv, DataTypes, MapInv, MapTypes, EndPpns
  <1>3. ASSUME pc = "flush" PROVE Fresh(nand, isValid, DataBlks, Next_Data_PPN)
    <2>1. InDataGC = FALSE /\ Next_Data_PPN < GC_Trigger_Data_PPN
      BY <1>3 DEF InDataGC, DataInv, BufferInv
    <2>2. Log(DataBlks, "DATA", Lpns, DataPage, nand.cell, isValid, Block_Status, DataMap,
              Next_Data_PPN, GC_Trigger_Data_PPN, FALSE, DataGC)
      BY <2>1 DEF DataInv, DataLog
    <2> QED BY <1>1, <1>2, <2>1, <2>2, NextWritable
  <1>4. ASSUME pc = "gc" PROVE Fresh(nand, isValid, DataBlks, Ppn(gc.free, gc.cnt))
    <2>1. InDataGC = TRUE /\ DataGC = gc /\ "DATA" # "EMPTY"
      BY <1>4 DEF InDataGC, DataGC
    <2>2. Log(DataBlks, "DATA", Lpns, DataPage, nand.cell, isValid, Block_Status, DataMap,
              Next_Data_PPN, GC_Trigger_Data_PPN, TRUE, gc)
      BY <2>1 DEF DataInv, DataLog
    <2> QED BY <1>1, <2>1, <2>2, CopyWritable
  <1>5. ASSUME mpc = "evict" PROVE Fresh(nand, isValid, MapBlks, Next_Map_PPN)
    <2>1. InMapGC = FALSE /\ Next_Map_PPN < GC_Trigger_Map_PPN
      BY <1>5 DEF InMapGC, MapInv, CacheInv
    <2>2. Log(MapBlks, "MAP", Vpns, MapPages, nand.cell, isValid, Block_Status, GTD,
              Next_Map_PPN, GC_Trigger_Map_PPN, FALSE, mgc)
      BY <2>1 DEF MapInv, MapLog
    <2> QED BY <1>1, <1>2, <2>1, <2>2, NextWritable
  <1>6. ASSUME InMapGC PROVE Fresh(nand, isValid, MapBlks, Ppn(mgc.free, mgc.cnt))
    <2>1. InMapGC = TRUE /\ "MAP" # "EMPTY"
      BY <1>6 DEF InMapGC
    <2>2. Log(MapBlks, "MAP", Vpns, MapPages, nand.cell, isValid, Block_Status, GTD,
              Next_Map_PPN, GC_Trigger_Map_PPN, TRUE, mgc)
      BY <2>1 DEF MapInv, MapLog
    <2> QED BY <1>1, <2>1, <2>2, CopyWritable
  <1> QED BY <1>3, <1>4, <1>5, <1>6

LEMMA TypeOKHolds == IndInv => TypeOK
  <1> SUFFICES ASSUME IndInv PROVE TypeOK
    OBVIOUS
  <1>1. /\ nand \in [cell : [Ppns -> DataPage \cup MapPages \cup {Erased}],
                     blk_index : [Blks -> 0 .. PAGES_PER_BLK]]
        /\ isValid \in [Ppns -> {0, 1}]
        /\ Block_Status \in [Blks -> {"EMPTY", "DATA", "MAP"}]
    BY DEF IndInv, ChipInv, Chip, Content, StatusInv
  <1>2. MapTypes /\ DataTypes
    BY DEF IndInv, MapInv
  <1> QED BY <1>1, <1>2 DEF MapTypes, DataTypes, TypeOK

LEMMA MappedPagesAreCurrentHolds == IndInv => MappedPagesAreCurrent
  BY MappedPages DEF IndInv, DataInv, MappedPagesAreCurrent

LEMMA DirectoryIsCurrentHolds == IndInv => DirectoryIsCurrent
  <1> SUFFICES ASSUME IndInv, NEW vpn \in Vpns
               PROVE  /\ GTD[vpn] # -1 => /\ Written(GTD[vpn])
                                          /\ nand.cell[GTD[vpn]] \in MapPages
                                          /\ nand.cell[GTD[vpn]].spare = vpn
                                          /\ isValid[GTD[vpn]] = 1
                      /\ ~is_VPN_first_time[vpn] => Cached(vpn) \/ GTD[vpn] # -1
    BY DEF DirectoryIsCurrent
  <1>1. MapTypes /\ MapLog /\ CacheInv
    BY DEF IndInv, MapInv
  <1>2. ~is_VPN_first_time[vpn] => Cached(vpn) \/ GTD[vpn] # -1
    BY <1>1 DEF CacheInv, Cached, SlotsWith
  <1> QED BY <1>1, <1>2, DirectoryFacts

LEMMA ValidPagesAreCurrentHolds == IndInv => ValidPagesAreCurrent
  <1> SUFFICES ASSUME IndInv, NEW q \in Ppns, Written(q), isValid[q] = 1
               PROVE  IF BlkOf(q) < N_PHY_DATA_BLK
                      THEN \/ L2P[nand.cell[q].spare] = q
                           \/ InDataGC /\ MovedIn(gc, q)
                           \/ /\ pc = "gc_remap" /\ q = Ppn(gc.free, gc.cnt)
                              /\ nand.cell[q].spare = moved
                      ELSE \/ GTD[nand.cell[q].spare] = q
                           \/ InMapGC /\ MovedIn(mgc, q)
    BY DEF ValidPagesAreCurrent
  <1>1. BlkOf(q) \in Blks /\ (BlkOf(q) < N_PHY_DATA_BLK <=> BlkOf(q) \in DataBlks)
    BY PpnFacts, Geometry DEF Blks, DataBlks
  <1>2. CASE BlkOf(q) \in DataBlks
    BY <1>1, <1>2, ValidPages DEF IndInv, DataInv
  <1>3. CASE BlkOf(q) \notin DataBlks
    <2>1. BlkOf(q) \in MapBlks
      BY <1>1, <1>3, Sides
    <2>2. GTD[nand.cell[q].spare] = q \/ (InMapGC /\ Passed(mgc, q))
      BY <2>1 DEF IndInv, MapInv, MapLog, Log, Table, Written
    <2> QED BY <1>1, <1>3, <2>2 DEF Passed, MovedIn
  <1> QED BY <1>2, <1>3

LEMMA NoDuplicatesHolds == IndInv => NoDuplicates
  BY DEF IndInv, BufferInv, MapInv, CacheInv, Unique, NoDuplicates

LEMMA ProgramsSucceedHolds == IndInv => ProgramsSucceed
  <1> SUFFICES ASSUME IndInv PROVE ProgramsSucceed
    OBVIOUS
  <1>1. ChipInv /\ StatusInv /\ MapInv /\ DataInv
    BY DEF IndInv, DataInv
  <1> QED BY <1>1, NextPagesFresh DEF ProgramsSucceed, CanWrite, Fresh

LEMMA CollectionsReclaimHolds == IndInv => CollectionsReclaim
  <1> SUFFICES ASSUME IndInv PROVE CollectionsReclaim
    OBVIOUS
  <1>1. ASSUME InDataGC PROVE \E page \in Pages : isValid[Ppn(gc.victim, page)] = 0
    <2>1. DataGC.victim = gc.victim
      BY <1>1, DataCollection DEF IndInv, DataInv
    <2> QED BY <1>1, <2>1 DEF IndInv, DataLog, Log, Collecting
  <1>2. ASSUME InMapGC PROVE \E page \in Pages : isValid[Ppn(mgc.victim, page)] = 0
    BY <1>2 DEF IndInv, MapInv, MapLog, Log, Collecting
  <1> QED BY <1>1, <1>2 DEF CollectionsReclaim

-----------------------------------------------------------------------------
\* The properties of DemandFTL, for every geometry with pages to spare.

\* The tables of ftl.c:44-58 and the locals of a call keep their types, the
\* frontiers and the counters of both collections stay in the bank.
THEOREM TypeCorrect == ASSUME EnoughRoom PROVE Spec => []TypeOK
  BY TypeOKHolds, Invariance, PTL

\* Whatever is buffered, cached, written back or being moved, the entry that
\* lpn2ppn finds for a logical page leads to a written, valid page that carries
\* it, so that the nand_read of ftl_read and ftl_write reads it (ftl.c:338, 454).
THEOREM MappingSafe == ASSUME EnoughRoom PROVE Spec => []MappedPagesAreCurrent
  BY MappedPagesAreCurrentHolds, Invariance, PTL

\* use_free_slot finds every map page that was ever used, cached or through the
\* directory in flash, in the middle of a write-back and of the collection of
\* map blocks too (ftl.c:622, 655, 680).
THEOREM DirectorySafe == ASSUME EnoughRoom PROVE Spec => []DirectoryIsCurrent
  BY DirectoryIsCurrentHolds, Invariance, PTL

\* No collection brings a superseded page back to life: what isValid has as
\* valid, of the data and of the map, is the current copy, or a page that the
\* collection under way has copied already (ftl.c:283, 409, 622).
THEOREM NoStaleCopies == ASSUME EnoughRoom PROVE Spec => []ValidPagesAreCurrent
  BY ValidPagesAreCurrentHolds, Invariance, PTL

\* A logical page is in one buffer and a map page in one slot at most, as the
\* assertions offset==free_slot expect (ftl.c:596, 609).
THEOREM SlotsUnique == ASSUME EnoughRoom PROVE Spec => []NoDuplicates
  BY NoDuplicatesHolds, Invariance, PTL

\* The codes of nand_write may be ignored in all four places (ftl.c:296, 410,
\* 634, 676): each programs the next page of an erased stretch.
THEOREM ProgramsSafe == ASSUME EnoughRoom PROVE Spec => []ProgramsSucceed
  BY ProgramsSucceedHolds, Invariance, PTL

\* Both collections have a victim with a page that is out of use, so each ends
\* with room for the page that asked for it (ftl.c:283, 663).
THEOREM ReclaimSafe == ASSUME EnoughRoom PROVE Spec => []CollectionsReclaim
  BY CollectionsReclaimHolds, Invariance, PTL

\* The mapping of a page changes when that page is flushed or moved and at no
\* other step: cache misses, write-backs and collections of map blocks leave the
\* map as it is, wherever in a call they happen (update_L2P, ftl.c:602).
THEOREM MapChangesByFlushAndMove == ASSUME EnoughRoom PROVE Spec => MappingIsStable
  <1>1. IndInv /\ [Next]_vars => [OwnPageOnly]_vars
    BY NextInv DEF StartsWell
  <1>2. Spec => [][OwnPageOnly]_vars
    BY <1>1, Invariance, PTL DEF Spec
  <1> QED BY <1>2 DEF MappingIsStable, OwnPageOnly

\* With no assumption on the geometry, which covers the headers that leave the
\* data blocks one page short (N_USER_OP_BLOCKS_PB is 1 with ftl.h): the rest holds for as long as both
\* collections find a page to reclaim (ftl.c:283, 663).  What it takes to lose a
\* page is a collection that starts in vain, and nothing else.
THEOREM SafeWhileReclaiming ==
    Spec /\ []CollectionsReclaim =>
        [](/\ TypeOK /\ MappedPagesAreCurrent /\ DirectoryIsCurrent
           /\ ValidPagesAreCurrent /\ NoDuplicates /\ ProgramsSucceed)
  BY TypeOKHolds, MappedPagesAreCurrentHolds, DirectoryIsCurrentHolds, ValidPagesAreCurrentHolds,
     NoDuplicatesHolds, ProgramsSucceedHolds, InvarianceWhileReclaiming, PTL

-----------------------------------------------------------------------------
\* DemandFTL implements BlockDevice.  A sector is a word of the buffer its page
\* has, else of the page its logical page is mapped to.  A flush takes a page
\* from the one to the other; caching and both collections leave the words alone.
Lbas == 0 .. N_SECTORS - 1

BufferOf(buf, l) == {slot \in Buffers : buf[slot].lpn = l}
FlashWord(map, cell, l, i) == IF map[l] = -1 THEN Blank ELSE cell[map[l]].data[i]
WordIn(buf, map, cell, l, i) ==
    IF BufferOf(buf, l) # {} THEN buf[Lowest(BufferOf(buf, l))].data[i]
    ELSE FlashWord(map, cell, l, i)

WordAt(l, i)   == WordIn(buffer, L2P, nand.cell, l, i)
WordNext(l, i) == WordIn(buffer', L2P', nand'.cell, l, i)
WordsKept == \A l \in Lpns, i \in Offsets : WordNext(l, i) = WordAt(l, i)

Single(buf) == \A s, t \in Buffers : buf[s].lpn = buf[t].lpn /\ buf[s].lpn # -1 => s = t

\* The word of a page with a buffer is in that buffer,
LEMMA BufferedWord ==
    ASSUME NEW buf, Single(buf), NEW map, NEW cell, NEW l \in Lpns, NEW i,
           NEW s \in Buffers, buf[s].lpn = l
    PROVE  WordIn(buf, map, cell, l, i) = buf[s].data[i]
  <1> DEFINE held == BufferOf(buf, l)
  <1>1. held \in SUBSET Nat /\ l # -1
    BY DEF BufferOf, Buffers, Lpns
  <1>2. s \in held
    BY DEF BufferOf
  <1>3. Lowest(held) \in held
    <2> HIDE DEF held
    <2> QED BY <1>1, <1>2, LowestHighest
  <1>4. Lowest(held) \in Buffers /\ buf[Lowest(held)].lpn = l
    BY <1>3 DEF BufferOf
  <1>5. Lowest(held) = s
    BY <1>1, <1>4 DEF Single
  <1> QED BY <1>2, <1>5 DEF WordIn

\* that of another in flash.
LEMMA UnbufferedWord ==
    ASSUME NEW buf, NEW map, NEW cell, NEW l, NEW i, \A s \in Buffers : buf[s].lpn # l
    PROVE  WordIn(buf, map, cell, l, i) = FlashWord(map, cell, l, i)
  BY DEF WordIn, BufferOf

\* The same of the words before and after a step.
LEMMA WordsOf ==
    ASSUME Single(buffer), Single(buffer'), NEW l \in Lpns, NEW i
    PROVE  /\ \A s \in Buffers : buffer[s].lpn = l => WordAt(l, i) = buffer[s].data[i]
           /\ \A s \in Buffers : buffer'[s].lpn = l => WordNext(l, i) = buffer'[s].data[i]
           /\ (\A s \in Buffers : buffer[s].lpn # l) => WordAt(l, i) = FlashWord(L2P, nand.cell, l, i)
           /\ (\A s \in Buffers : buffer'[s].lpn # l) => WordNext(l, i) = FlashWord(L2P', nand'.cell, l, i)
  <1>1. ASSUME NEW s \in Buffers, buffer[s].lpn = l
        PROVE  WordIn(buffer, L2P, nand.cell, l, i) = buffer[s].data[i]
    BY <1>1, BufferedWord
  <1>2. ASSUME NEW s \in Buffers, buffer'[s].lpn = l
        PROVE  WordIn(buffer', L2P', nand'.cell, l, i) = buffer'[s].data[i]
    BY <1>2, BufferedWord
  <1>3. ASSUME \A s \in Buffers : buffer[s].lpn # l
        PROVE  WordIn(buffer, L2P, nand.cell, l, i) = FlashWord(L2P, nand.cell, l, i)
    BY <1>3, UnbufferedWord
  <1>4. ASSUME \A s \in Buffers : buffer'[s].lpn # l
        PROVE  WordIn(buffer', L2P', nand'.cell, l, i) = FlashWord(L2P', nand'.cell, l, i)
    BY <1>4, UnbufferedWord
  <1> QED BY <1>1, <1>2, <1>3, <1>4 DEF WordAt, WordNext

\* A sector is a logical page and a place in that page.
LEMMA Places ==
    ASSUME NEW lba \in Lbas
    PROVE  /\ lba \in Nat /\ lba \div SECTORS_PER_PAGE \in Nat
           /\ lba \div SECTORS_PER_PAGE \in Lpns
           /\ lba % SECTORS_PER_PAGE \in Offsets
           /\ lba = (lba \div SECTORS_PER_PAGE) * SECTORS_PER_PAGE + (lba % SECTORS_PER_PAGE)
  <1>1. SECTORS_PER_PAGE \in Nat \ {0} /\ N_LPNS_PB \in Nat
    BY DemandAssumption, Geometry DEF DemandAssumption, N_LPNS_PB
  <1>2. lba \in 0 .. N_LPNS_PB * SECTORS_PER_PAGE - 1
    BY DEF Lbas, N_SECTORS
  <1>3. lba \div SECTORS_PER_PAGE \in 0 .. N_LPNS_PB - 1
    BY <1>1, <1>2, DivMod
  <1>4. lba \in Nat
    BY <1>2
  <1>5. /\ lba = (lba \div SECTORS_PER_PAGE) * SECTORS_PER_PAGE + (lba % SECTORS_PER_PAGE)
        /\ lba % SECTORS_PER_PAGE \in 0 .. SECTORS_PER_PAGE - 1
        /\ lba \div SECTORS_PER_PAGE \in Nat
    BY <1>1, <1>4, DivMod
  <1> QED BY <1>3, <1>4, <1>5 DEF Lpns, Offsets

\* What SectorAt shows of a sector is its word, before and after a step.
LEMMA SectorIs ==
    ASSUME IndInv, NEW lba \in Lbas
    PROVE  SectorAt(lba) = WordAt(lba \div SECTORS_PER_PAGE, lba % SECTORS_PER_PAGE)
  <1> DEFINE l == lba \div SECTORS_PER_PAGE
  <1>1. l \in Lpns
    BY Places
  <1> HIDE DEF l
  <1>2. L2P[l] # -1 => Written(L2P[l])
    BY <1>1, MappedPages DEF IndInv, DataInv
  <1> QED BY <1>2 DEF SectorAt, WordAt, WordIn, FlashWord, Buffered, BuffersWith, sim_buffer_L2S,
                      BufferOf, l

LEMMA SectorIsNext ==
    ASSUME IndInv', NEW lba \in Lbas
    PROVE  SectorAt(lba)' = WordNext(lba \div SECTORS_PER_PAGE, lba % SECTORS_PER_PAGE)
  <1> DEFINE l == lba \div SECTORS_PER_PAGE
  <1>1. l \in Lpns
    BY Places
  <1> HIDE DEF l
  <1>2. MappedPagesAreCurrent'
    BY MappedPagesAreCurrentHolds, PTL
  <1>3. L2P'[l] # -1 => nand'.cell[L2P'[l]] # Erased
    BY <1>1, <1>2 DEF MappedPagesAreCurrent, Written
  <1> QED BY <1>3 DEF SectorAt, WordNext, WordIn, FlashWord, Buffered, BuffersWith, sim_buffer_L2S,
                      BufferOf, Written, l

\* A step that leaves the words of every logical page alone does not show.
LEMMA SameDisk ==
    ASSUME IndInv, IndInv', WordsKept
    PROVE  DiskOfFTL' = DiskOfFTL
  <1>1. \A lba \in Lbas : SectorAt(lba)' = SectorAt(lba)
    BY SectorIs, SectorIsNext, Places DEF WordsKept
  <1> QED BY <1>1 DEF DiskOfFTL, Lbas

\* A page that has been copied and not been mapped yet is its copy.
SameCopy == pc = "gc_remap" => nand.cell[Ppn(gc.free, gc.cnt)] = nand.cell[L2P[moved]]

\* The words of the pages in flash are the words of all.
LEMMA FlashKept ==
    ASSUME buffer' = buffer,
           \A l \in Lpns, i \in Offsets : FlashWord(L2P', nand'.cell, l, i) = FlashWord(L2P, nand.cell, l, i)
    PROVE  WordsKept
  BY DEF WordsKept, WordNext, WordAt, WordIn

\* The cache and the collection of map blocks.
LEMMA LoadMapWords ==
    ASSUME StartsWell, IndInv, SameCopy, LoadMap
    PROVE  WordsKept /\ SameCopy'
  <1>1. /\ ChipInv /\ StatusInv /\ MapInv /\ DataInv
        /\ UNCHANGED <<buffer, pc, gc, moved>>
    BY DEF IndInv, DataInv, LoadMap, dataVars, callVars
  <1>2. L2P' = L2P /\ DataBlksKept
    BY <1>1, LoadMapStep
  <1>3. \A l \in Lpns : L2P[l] # -1 => nand'.cell[L2P[l]] = nand.cell[L2P[l]]
    BY <1>1, <1>2, MappedPages DEF DataBlksKept
  <1>4. WordsKept
    BY <1>1, <1>2, <1>3, FlashKept DEF FlashWord
  <1>5. ASSUME pc = "gc_remap"
        PROVE  nand'.cell[Ppn(gc.free, gc.cnt)] = nand'.cell[L2P[moved]]
    <2> DEFINE dst == Ppn(gc.free, gc.cnt)
    <2>1. moved \in Lpns /\ DataMap[moved] = dst /\ L2P[moved] \in Ppns
          /\ gc.free \in Blks /\ gc.cnt \in Nat
      BY <1>1, <1>5, MovingPage DEF DataInv, DataTypes, LocalsOfGC
    <2>2. dst # -1
      BY <2>1, Geometry DEF Ppn, Blks
    <2> HIDE DEF dst
    <2>3. dst \in Ppns /\ BlkOf(dst) \in DataBlks
      BY <1>1, <2>1, <2>2 DEF DataInv, DataLog, Log, Table
    <2>4. L2P[moved] # -1
      BY <2>1, PpnFacts
    <2>5. nand'.cell[dst] = nand.cell[dst] /\ nand'.cell[L2P[moved]] = nand.cell[L2P[moved]]
      BY <1>2, <1>3, <2>1, <2>3, <2>4 DEF DataBlksKept
    <2> QED BY <1>5, <2>5 DEF SameCopy, dst
  <1> QED BY <1>1, <1>2, <1>4, <1>5 DEF SameCopy

\* garbage_collection copies a page to a fresh one,
LEMMA GCCopyWords ==
    ASSUME IndInv, GCCopy
    PROVE  WordsKept /\ SameCopy'
  <1> DEFINE dst == Ppn(gc.free, gc.cnt)
             page == nand.cell[L2P[moved']]
  <1>1. /\ ChipInv /\ StatusInv /\ MapInv /\ DataInv
        /\ UNCHANGED <<buffer, gc>> /\ pc' = "gc_remap"
    BY DEF IndInv, DataInv, GCCopy, dataVars
  <1>2. /\ L2P' = L2P /\ DataInv' /\ Fresh(nand, isValid, DataBlks, dst)
        /\ Update(nand'.cell, nand.cell, Ppns, dst, page)
    BY <1>1, GCCopyStep
  <1>3. dst \in Ppns /\ nand.cell[dst] = Erased
    BY <1>2 DEF Fresh
  <1>4. nand'.cell[dst] = page
    BY <1>2, <1>3 DEF Update
  <1>5. \A l \in Lpns : L2P[l] # -1 => L2P[l] \in Ppns /\ L2P[l] # dst
    BY <1>1, <1>3, MappedPages DEF Written
  <1>6. \A l \in Lpns : L2P[l] # -1 => nand'.cell[L2P[l]] = nand.cell[L2P[l]]
    BY <1>2, <1>5 DEF Update
  <1>7. WordsKept
    BY <1>1, <1>2, <1>6, FlashKept DEF FlashWord
  <1>8. moved' \in Lpns
    BY <1>2 DEF DataInv, DataTypes
  <1>9. L2P[moved'] # -1
    <2>1. PICK tmp \in PagesRead(Ppn(gc.victim, gc.i), [data : {JunkPage}, spare : Lpns]) : moved' = tmp.spare
      BY DEF GCCopy
    <2>2. RemapInv'
      BY <1>2 DEF DataInv
    <2>3. L2P'[moved'] = Ppn(gc.victim, gc.i)
      BY <1>1, <2>2 DEF RemapInv
    <2>4. gc.victim \in Nat /\ gc.i \in Nat
      BY <1>1, Geometry DEF DataInv, DataTypes, LocalsOfGC, Blks
    <2> QED BY <1>2, <2>3, <2>4, Geometry DEF Ppn
  <1>10. nand'.cell[L2P[moved']] = page
    BY <1>6, <1>8, <1>9
  <1> QED BY <1>1, <1>2, <1>4, <1>7, <1>10 DEF SameCopy

\* maps it to its copy,
LEMMA GCRemapWords ==
    ASSUME IndInv, SameCopy, GCRemap
    PROVE  WordsKept /\ SameCopy'
  <1> DEFINE dst == Ppn(gc.free, gc.cnt)
  <1>1. /\ ChipInv /\ StatusInv /\ MapInv /\ DataInv
        /\ UNCHANGED <<buffer, nand>> /\ pc = "gc_remap" /\ pc' = "gc"
    BY DEF IndInv, DataInv, GCRemap, dataVars, flashVars
  <1>2. dst \in Ppns /\ Update(L2P', L2P, Lpns, moved, dst)
    BY <1>1, GCRemapStep
  <1>3. nand.cell[dst] = nand.cell[L2P[moved]] /\ moved \in Lpns /\ L2P[moved] \in Ppns
    BY <1>1, MovingPage DEF SameCopy, DataInv, DataTypes
  <1> HIDE DEF dst
  <1>4. dst # -1 /\ L2P[moved] # -1
    BY <1>2, <1>3, PpnFacts
  <1>5. \A l \in Lpns : L2P'[l] = IF l = moved THEN dst ELSE L2P[l]
    BY <1>2 DEF Update
  <1>6. \A l \in Lpns, i \in Offsets :
           FlashWord(L2P', nand'.cell, l, i) = FlashWord(L2P, nand.cell, l, i)
    BY <1>1, <1>3, <1>4, <1>5 DEF FlashWord
  <1> QED BY <1>1, <1>6, FlashKept DEF SameCopy

\* and erases a block that nothing is mapped to.
LEMMA GCFinishWords ==
    ASSUME IndInv, GCFinish
    PROVE  WordsKept /\ SameCopy'
  <1>1. /\ ChipInv /\ StatusInv /\ MapInv /\ DataInv
        /\ buffer' = buffer /\ pc' = "flush"
    BY DEF IndInv, DataInv, GCFinish
  <1>2. /\ L2P' = L2P /\ Wiped(nand'.cell, nand.cell, gc.victim, Erased)
        /\ \A l \in Lpns : L2P[l] # -1 => L2P[l] \in Ppns /\ BlkOf(L2P[l]) # gc.victim
    BY <1>1, GCFinishStep
  <1>3. \A l \in Lpns : L2P[l] # -1 => nand'.cell[L2P[l]] = nand.cell[L2P[l]]
    BY <1>2 DEF Wiped
  <1> QED BY <1>1, <1>2, <1>3, FlashKept DEF FlashWord, SameCopy

\* A flush takes the page of a buffer to flash.
LEMMA FlushWords ==
    ASSUME IndInv, IndInv', Flush
    PROVE  WordsKept /\ SameCopy'
  <1> DEFINE l == buffer[victim].lpn
             n == Next_Data_PPN
             page == [data |-> buffer[victim].data, spare |-> l]
  <1>1. /\ ChipInv /\ StatusInv /\ MapInv /\ DataInv
        /\ buffer' = [buffer EXCEPT ![victim].lpn = -1] /\ pc' = "store"
    BY DEF IndInv, DataInv, Flush
  <1>2. /\ l \in Lpns /\ Fresh(nand, isValid, DataBlks, n)
        /\ Update(L2P', L2P, Lpns, l, n) /\ Update(nand'.cell, nand.cell, Ppns, n, page)
    BY <1>1, FlushStep
  <1>3. n \in Ppns /\ nand.cell[n] = Erased /\ n # -1
    BY <1>2, PpnFacts DEF Fresh
  <1>4. /\ Single(buffer) /\ Single(buffer') /\ victim \in Buffers
        /\ buffer'[victim].lpn = -1
        /\ \A s \in Buffers : s # victim => buffer'[s] = buffer[s]
    BY <1>1 DEF IndInv, BufferInv, Single, DataInv, DataTypes
  <1>5. page.data = buffer[victim].data
    OBVIOUS
  <1>6. buffer[victim].lpn = l
    OBVIOUS
  <1> HIDE DEF l, n, page
  <1>7. /\ \A m \in Lpns : L2P'[m] = IF m = l THEN n ELSE L2P[m]
        /\ \A q \in Ppns : nand'.cell[q] = IF q = n THEN page ELSE nand.cell[q]
    BY <1>2 DEF Update
  <1>8. ASSUME NEW m \in Lpns, NEW i \in Offsets PROVE WordNext(m, i) = WordAt(m, i)
    <2>0. m # -1
      BY DEF Lpns
    <2>1. CASE m = l
      <3>1. WordAt(m, i) = buffer[victim].data[i]
        BY <1>4, <1>6, <2>1, WordsOf
      <3>2. \A s \in Buffers : buffer'[s].lpn # m
        BY <1>4, <1>6, <2>0, <2>1 DEF Single
      <3>3. WordNext(m, i) = FlashWord(L2P', nand'.cell, m, i)
        BY <1>4, <3>2, WordsOf
      <3> QED BY <1>3, <1>5, <1>7, <2>1, <3>1, <3>3 DEF FlashWord
    <2>2. CASE m # l /\ \E s \in Buffers : buffer[s].lpn = m
      <3>1. PICK s \in Buffers : buffer[s].lpn = m
        BY <2>2
      <3>2. s # victim /\ buffer'[s] = buffer[s]
        BY <1>4, <1>6, <2>2, <3>1
      <3>3. WordAt(m, i) = buffer[s].data[i]
        BY <1>4, <3>1, WordsOf
      <3>4. WordNext(m, i) = buffer'[s].data[i]
        BY <1>4, <3>1, <3>2, WordsOf
      <3> QED BY <3>2, <3>3, <3>4
    <2>3. CASE m # l /\ \A s \in Buffers : buffer[s].lpn # m
      <3>1. \A s \in Buffers : buffer'[s].lpn # m
        BY <1>4, <2>0, <2>3
      <3>2. /\ WordAt(m, i) = FlashWord(L2P, nand.cell, m, i)
            /\ WordNext(m, i) = FlashWord(L2P', nand'.cell, m, i)
        BY <1>4, <2>3, <3>1, WordsOf
      <3>3. L2P[m] # -1 => L2P[m] \in Ppns /\ L2P[m] # n
        BY <1>1, <1>3, MappedPages DEF Written
      <3> QED BY <1>7, <2>3, <3>2, <3>3 DEF FlashWord
    <2> QED BY <2>1, <2>2, <2>3
  <1> QED BY <1>1, <1>8 DEF WordsKept, SameCopy

\* write_through_lpn puts the page in its buffer.
LEMMA StoreWords ==
    ASSUME IndInv, IndInv', Store
    PROVE  /\ lpn \in Lpns
           /\ \A m \in Lpns, i \in Offsets :
                 WordNext(m, i) = IF m = lpn THEN data[i] ELSE WordAt(m, i)
  <1>1. /\ ChipInv /\ StatusInv /\ MapInv /\ DataInv
        /\ UNCHANGED <<flashVars, mapVars, Next_Data_PPN, GC_Trigger_Data_PPN>>
        /\ pc = "store" /\ pc' = "write"
        /\ Buffered(lpn) \/ Buffered(-1)
        /\ buffer' = [buffer EXCEPT ![StoreSlot] = [lpn |-> lpn, data |-> data]]
    BY DEF IndInv, DataInv, Store
  <1>2. lpn \in Lpns /\ lpn # -1
    <2>1. req.op # "idle" /\ pp < send_kazu
      BY <1>1 DEF DataInv, CallInv
    <2>2. lpn \in Lpns
      BY <1>1, <2>1, LpnType DEF DataInv
    <2> QED BY <2>2 DEF Lpns
  <1>3. StoreSlot \in Buffers /\ buffer[StoreSlot].lpn \in {lpn, -1}
    BY <1>1, BufferFacts DEF StoreSlot
  <1>4. L2P' = L2P /\ nand' = nand
    BY <1>1, StoreStep DEF flashVars
  <1>5. /\ Single(buffer) /\ Single(buffer')
        /\ buffer'[StoreSlot] = [lpn |-> lpn, data |-> data]
        /\ \A s \in Buffers : s # StoreSlot => buffer'[s] = buffer[s]
    BY <1>1, <1>3 DEF IndInv, BufferInv, Single, DataInv, DataTypes
  <1> DEFINE p == lpn
             k == StoreSlot
  <1>6. /\ p \in Lpns /\ p # -1 /\ k \in Buffers /\ buffer[k].lpn \in {p, -1}
        /\ buffer'[k].lpn = p /\ buffer'[k].data = data
        /\ \A s \in Buffers : s # k => buffer'[s] = buffer[s]
    BY <1>2, <1>3, <1>5
  <1> HIDE DEF p, k
  <1>7. ASSUME NEW m \in Lpns, NEW i \in Offsets
        PROVE  WordNext(m, i) = IF m = p THEN data[i] ELSE WordAt(m, i)
    <2>0. m # -1
      BY DEF Lpns
    <2>1. CASE m = p
      BY <1>5, <1>6, <2>1, WordsOf
    <2>2. CASE m # p /\ \E s \in Buffers : buffer[s].lpn = m
      <3>1. PICK s \in Buffers : buffer[s].lpn = m
        BY <2>2
      <3>2. buffer'[s] = buffer[s]
        BY <1>6, <2>0, <2>2, <3>1
      <3>3. WordAt(m, i) = buffer[s].data[i]
        BY <1>5, <3>1, WordsOf
      <3>4. WordNext(m, i) = buffer'[s].data[i]
        BY <1>5, <3>1, <3>2, WordsOf
      <3> QED BY <2>2, <3>2, <3>3, <3>4
    <2>3. CASE m # p /\ \A s \in Buffers : buffer[s].lpn # m
      <3>1. \A s \in Buffers : buffer'[s].lpn # m
        BY <1>6, <2>3
      <3>2. /\ WordAt(m, i) = FlashWord(L2P, nand.cell, m, i)
            /\ WordNext(m, i) = FlashWord(L2P', nand'.cell, m, i)
        BY <1>5, <2>3, <3>1, WordsOf
      <3> QED BY <1>4, <2>3, <3>2
    <2> QED BY <2>1, <2>2, <2>3
  <1> QED BY <1>2, <1>7 DEF p

-----------------------------------------------------------------------------
\* What the call in progress has ready: the page it packed, whatever has been
\* flushed, cached and moved since, and the buffer it fills.
Packed(i) == IF InRequest(i) THEN req.buf[LbaAt(i)] ELSE WordAt(lpn, i)

HostInv ==
    /\ pc = "idle" => pp = 0
    /\ pc = "read" => DOMAIN rbuf = SectorsFrom(req.lba, req.nsect)
    /\ pc \in {"store", "gc", "gc_remap", "flush"} => \A i \in Offsets : data[i] = Packed(i)
    /\ SameCopy

\* HostInv holds at first.
LEMMA InitHost == Init => HostInv
  BY DEF Init, HostInv, SameCopy

\* What the buffer or the mapping finds for a page are its words.
LEMMA OldContentsAre ==
    ASSUME IndInv, NEW l \in Lpns, Buffered(l) \/ Cached(lpn2vpn(l))
    PROVE  \A i \in Offsets : OldContents(l)[i] = WordAt(l, i)
  <1>1. CASE Buffered(l)
    BY <1>1 DEF OldContents, WordAt, WordIn, BufferOf, Buffered, BuffersWith, sim_buffer_L2S
  <1>2. CASE ~Buffered(l)
    <2>1. \A i \in Offsets : WordAt(l, i) = FlashWord(L2P, nand.cell, l, i)
      BY <1>2 DEF WordAt, WordIn, BufferOf, Buffered, BuffersWith
    <2>2. lpn2ppn(l) = L2P[l]
      BY <1>2, CachedEntry DEF IndInv
    <2>3. CASE L2P[l] = -1
      BY <1>2, <2>1, <2>2, <2>3 DEF OldContents, FlashWord
    <2>4. CASE L2P[l] # -1
      <3> DEFINE q == L2P[l]
      <3>1. q \in Ppns /\ nand.cell[q] # Erased
        BY <2>4, MappedPages DEF IndInv, DataInv, Written
      <3> HIDE DEF q
      <3>2. BlkOf(q) \in Blks /\ PageOf(q) \in Pages /\ Ppn(BlkOf(q), PageOf(q)) = q
        BY <3>1, PpnFacts
      <3>3. ReadPage(q, data) = nand.cell[q].data
        BY <3>1, <3>2 DEF ReadPage, NandRead, ReadCode
      <3> QED BY <1>2, <2>1, <2>2, <2>4, <3>3 DEF OldContents, FlashWord, q
    <2> QED BY <2>3, <2>4
  <1> QED BY <1>1, <1>2

\* The page of a call that is under way is a logical page.
LEMMA CallPage ==
    ASSUME IndInv, pp < send_kazu, req.op # "idle"
    PROVE  lpn \in Lpns
  BY LpnType DEF IndInv

\* Packing makes the page HostInv describes (ftl.c:447-494).
LEMMA PackPageHost == ASSUME IndInv, HostInv, PackPage PROVE HostInv'
  <1>1. /\ pc = "write" /\ pp < send_kazu /\ MapReady /\ pc' = "store"
        /\ data' = [i \in Offsets |-> IF InRequest(i) THEN req.buf[LbaAt(i)]
                                     ELSE OldContents(lpn)[i]]
        /\ UNCHANGED <<flashVars, mapVars, dataVars, req, pp>>
    BY DEF PackPage
  <1>2. req.op # "idle"
    BY <1>1 DEF IndInv, CallInv
  <1>3. lpn \in Lpns
    BY <1>1, <1>2, CallPage
  <1>4. Cached(lpn2vpn(lpn))
    BY <1>1 DEF MapReady, Lookups
  <1>5. \A i \in Offsets : OldContents(lpn)[i] = WordAt(lpn, i)
    BY <1>3, <1>4, OldContentsAre
  <1>6. \A i \in Offsets : data'[i] = Packed(i)
    BY <1>1, <1>5 DEF Packed
  <1>7. buffer' = buffer /\ nand' = nand /\ L2P' = L2P
    BY <1>1 DEF dataVars, flashVars, mapVars, L2P, MapPage, Cached, SlotOf, SlotsWith, Written
  <1>8. \A i \in Offsets : Packed(i)' = Packed(i)
    BY <1>1, <1>7 DEF Packed, InRequest, LbaAt, lpn, WordAt
  <1> QED BY <1>1, <1>6, <1>8 DEF HostInv, SameCopy

\* What goes on below leaves the page that waits for it as it is.
LEMMA KeepsHost ==
    ASSUME IndInv, HostInv, UNCHANGED <<req, pp, data, rbuf>>, WordsKept, SameCopy',
           pc' = "idle" => pc = "idle", pc' = "read" => pc = "read",
           pc' \in {"store", "gc", "gc_remap", "flush"} => pc \in {"store", "gc", "gc_remap", "flush"}
    PROVE  HostInv'
  <1>1. ASSUME pc' \in {"store", "gc", "gc_remap", "flush"}
        PROVE  \A i \in Offsets : data'[i] = Packed(i)'
    <2>1. pc \in {"store", "gc", "gc_remap", "flush"}
      BY <1>1
    <2>2. req.op # "idle" /\ pp < send_kazu
      BY <2>1 DEF IndInv, CallInv
    <2>3. lpn \in Lpns /\ lpn' = lpn
      BY <2>2, CallPage DEF lpn
    <2>4. \A i \in Offsets : WordAt(lpn, i)' = WordNext(lpn, i)
      BY <2>3 DEF WordAt, WordNext
    <2>5. \A i \in Offsets : Packed(i)' = Packed(i)
      BY <2>3, <2>4 DEF Packed, InRequest, LbaAt, WordsKept
    <2> QED BY <2>1, <2>5 DEF HostInv
  <1> QED BY <1>1 DEF HostInv

\* A step that leaves the buffer, the mapping and the chip alone.
LEMMA QuietWords ==
    ASSUME UNCHANGED <<flashVars, mapVars, buffer>>
    PROVE  WordsKept
  <1>1. L2P' = L2P /\ nand' = nand
    BY DEF flashVars, mapVars, L2P, MapPage, Cached, SlotOf, SlotsWith, Written
  <1> QED BY <1>1 DEF WordsKept, WordAt, WordNext

\* The steps below a call.
Below == PickVictim \/ SkipInvalid \/ GCCopy \/ GCRemap \/ GCFinish \/ Flush \/ LoadMap

LEMMA BelowWords ==
    ASSUME StartsWell, IndInv, HostInv, IndInv', Below
    PROVE  /\ WordsKept /\ SameCopy' /\ UNCHANGED <<req, pp, data, rbuf>>
           /\ pc # "idle" /\ pc' # "idle" /\ (pc' = "read" => pc = "read")
           /\ pc' \in {"store", "gc", "gc_remap", "flush"} => pc \in {"store", "gc", "gc_remap", "flush"}
  <1>1. CASE PickVictim
    <2>1. /\ UNCHANGED <<flashVars, mapVars, buffer, req, pp, data, rbuf>>
          /\ pc = "store" /\ pc' \in {"gc", "flush"}
      BY <1>1 DEF PickVictim, dataVars
    <2> QED BY <2>1, QuietWords DEF SameCopy
  <1>2. CASE SkipInvalid
    <2>1. /\ UNCHANGED <<flashVars, mapVars, buffer, req, pp, data, rbuf, pc>> /\ pc = "gc"
      BY <1>2 DEF SkipInvalid, dataVars
    <2> QED BY <2>1, QuietWords DEF SameCopy
  <1>3. CASE GCCopy
    <2>1. UNCHANGED <<req, pp, data, rbuf>> /\ pc = "gc" /\ pc' = "gc_remap"
      BY <1>3 DEF GCCopy
    <2> QED BY <1>3, <2>1, GCCopyWords
  <1>4. CASE GCRemap
    <2>1. UNCHANGED <<req, pp, data, rbuf>> /\ pc = "gc_remap" /\ pc' = "gc"
      BY <1>4 DEF GCRemap
    <2> QED BY <1>4, <2>1, GCRemapWords DEF HostInv
  <1>5. CASE GCFinish
    <2>1. UNCHANGED <<req, pp, data, rbuf>> /\ pc = "gc" /\ pc' = "flush"
      BY <1>5 DEF GCFinish
    <2> QED BY <1>5, <2>1, GCFinishWords
  <1>6. CASE Flush
    <2>1. UNCHANGED <<req, pp, data, rbuf>> /\ pc = "flush" /\ pc' = "store"
      BY <1>6 DEF Flush
    <2> QED BY <1>6, <2>1, FlushWords
  <1>7. CASE LoadMap
    <2>1. UNCHANGED <<req, pp, data, rbuf, pc>>
      BY <1>7 DEF LoadMap, callVars
    <2>2. pc # "idle"
      BY <1>7 DEF LoadMap, Lookups
    <2> QED BY <1>7, <2>1, <2>2, LoadMapWords DEF HostInv
  <1> QED BY <1>1, <1>2, <1>3, <1>4, <1>5, <1>6, <1>7 DEF Below

\* HostInv is kept by every step.
LEMMA StepHost ==
    ASSUME StartsWell, IndInv, HostInv, IndInv', [Next]_vars
    PROVE  HostInv'
  <1>1. CASE Submit
    <2>1. pc = "idle" /\ pp' = pp /\ pc' \in {"read", "write"}
      BY <1>1 DEF Submit
    <2>2. pc' = "read" => DOMAIN rbuf' = SectorsFrom(req'.lba, req'.nsect)
      BY <1>1 DEF Submit
    <2> QED BY <2>1, <2>2 DEF HostInv, SameCopy
  <1>2. CASE FetchPage
    <2>1. DOMAIN rbuf' = DOMAIN rbuf /\ UNCHANGED <<req, pc>> /\ pc = "read"
      BY <1>2 DEF FetchPage
    <2> QED BY <2>1 DEF HostInv, SameCopy
  <1>3. CASE PackPage
    BY <1>3, PackPageHost
  <1>4. CASE Store \/ Return
    BY <1>4 DEF Store, Return, HostInv, SameCopy
  <1>5. CASE Below
    BY <1>5, BelowWords, KeepsHost
  <1>6. CASE UNCHANGED vars
    <2>1. /\ UNCHANGED <<flashVars, mapVars, buffer>>
          /\ UNCHANGED <<req, pc, pp, data, rbuf, gc, moved, nand>>
      BY <1>6 DEF vars, callVars, dataVars, flashVars
    <2>2. L2P' = L2P
      BY <2>1 DEF flashVars, mapVars, L2P, MapPage, Cached, SlotOf, SlotsWith, Written
    <2>3. WordsKept /\ SameCopy'
      BY <2>1, <2>2, QuietWords DEF HostInv, SameCopy
    <2> QED BY <2>1, <2>3, KeepsHost
  <1> QED BY <1>1, <1>2, <1>3, <1>4, <1>5, <1>6 DEF Next, Step, Below

-----------------------------------------------------------------------------
\* Each step of the layer is one of the disk, or none.
OnPage == {s \in SectorsFrom(req.lba, req.nsect) : s \div SECTORS_PER_PAGE = lpn}

\* The sectors of a request lie on the disk; those of the page the call is on
\* are the words of that page.
LEMMA RequestSectors ==
    ASSUME IndInv, req.op # "idle"
    PROVE  /\ SectorsFrom(req.lba, req.nsect) \subseteq Lbas
           /\ \A s \in SectorsFrom(req.lba, req.nsect) : s \div SECTORS_PER_PAGE \in Nat
           /\ lpn \in Nat
  <1>1. /\ req.lba \in Nat /\ req.nsect \in Nat
        /\ req.lba + req.nsect <= N_SECTORS /\ N_SECTORS \in Nat
    <2>1. N_SECTORS \in Nat
      BY DemandAssumption, Geometry DEF DemandAssumption, N_SECTORS, N_LPNS_PB
    <2> QED BY <2>1 DEF IndInv, DataTypes, CallInv
  <1>2. SectorsFrom(req.lba, req.nsect) \subseteq Lbas
    BY <1>1 DEF SectorsFrom, Lbas
  <1> QED BY <1>2, Places, LpnType DEF IndInv

LEMMA PageSectors ==
    ASSUME NEW s \in Lbas, s \div SECTORS_PER_PAGE = lpn
    PROVE  s = LbaAt(s % SECTORS_PER_PAGE) /\ s % SECTORS_PER_PAGE \in Offsets
  BY Places DEF LbaAt

\* What is left to do, when a page has been dealt with.
LEMMA TodoShrinks ==
    ASSUME IndInv, req.op # "idle", req' = req, pp' = pp + 1, pc # "idle", pc' # "idle"
    PROVE  TodoOfFTL' = TodoOfFTL \ OnPage /\ OnPage \subseteq TodoOfFTL
  <1>1. lpn \in Nat /\ lpn' = lpn + 1
    <2>1. req.lba \in Nat /\ pp \in Nat /\ SECTORS_PER_PAGE \in Nat \ {0}
      BY DemandAssumption DEF IndInv, DataTypes, DemandAssumption
    <2>2. lpn \in Nat /\ req.lba \div SECTORS_PER_PAGE \in Nat
      BY <2>1, RequestSectors, DivMod
    <2> QED BY <2>1, <2>2 DEF lpn
  <1>2. \A s \in SectorsFrom(req.lba, req.nsect) : s \div SECTORS_PER_PAGE \in Nat
    BY RequestSectors
  <1> QED BY <1>1, <1>2 DEF TodoOfFTL, OnPage

\* A call begins as the disk's does.
LEMMA SubmitIs == ASSUME IndInv, HostInv, IndInv', Submit PROVE Disk!Submit
  <1>1. PICK lba \in 0 .. N_SECTORS - 1, nsect \in 0 .. MaxSect :
           /\ lba + nsect <= N_SECTORS
           /\ \/ /\ req' = [op |-> "read", lba |-> lba, nsect |-> nsect, buf |-> <<>>]
                 /\ pc' = "read"
                 /\ rbuf' = [s \in SectorsFrom(lba, nsect) |-> Junk]
              \/ \E buf \in [SectorsFrom(lba, nsect) -> Word] :
                 /\ req' = [op |-> "write", lba |-> lba, nsect |-> nsect, buf |-> buf]
                 /\ pc' = "write"
                 /\ rbuf' = <<>>
    BY DEF Submit
  <1>2. pc = "idle" /\ pp' = 0 /\ UNCHANGED <<flashVars, mapVars, buffer>> /\ req.op = "idle"
    BY DEF Submit, HostInv, IndInv, CallInv, dataVars
  <1>3. DiskOfFTL' = DiskOfFTL
    BY <1>2, QuietWords, SameDisk
  <1>4. TodoOfFTL' = SectorsFrom(lba, nsect)
    <2>1. req'.lba = lba /\ req'.nsect = nsect /\ pc' # "idle"
      BY <1>1
    <2>2. lba \in Nat /\ nsect \in Nat /\ SECTORS_PER_PAGE \in Nat \ {0}
      BY DemandAssumption, Geometry DEF DemandAssumption, N_SECTORS, N_LPNS_PB
    <2>3. lpn' = lba \div SECTORS_PER_PAGE /\ lba \div SECTORS_PER_PAGE \in Nat
      <3>1. lpn' = 0 + lba \div SECTORS_PER_PAGE
        BY <1>2, <2>1 DEF lpn
      <3>2. lba \div SECTORS_PER_PAGE \in Nat
        BY <2>2, DivMod
      <3> QED BY <3>1, <3>2
    <2>4. \A s \in SectorsFrom(lba, nsect) : s \div SECTORS_PER_PAGE >= lba \div SECTORS_PER_PAGE
      <3> TAKE s \in SectorsFrom(lba, nsect)
      <3>1. s \in Nat /\ s >= lba
        BY <2>2 DEF SectorsFrom
      <3> QED BY <2>2, <3>1
    <2> QED BY <2>1, <2>3, <2>4 DEF TodoOfFTL
  <1> QED BY <1>1, <1>2, <1>3, <1>4 DEF Disk!Submit, Disk!Lbas, Disk!SectorsFrom, SectorsFrom

\* A call that returns has no sector left to do.
LEMMA ReturnIs == ASSUME IndInv, HostInv, IndInv', Return PROVE Disk!Return
  <1>1. /\ pc \in {"read", "write"} /\ pp = send_kazu /\ UNCHANGED <<flashVars, mapVars, buffer>>
        /\ req' = Idle /\ rbuf' = <<>> /\ pc' = "idle"
    BY DEF Return, dataVars
  <1>2. req.op # "idle"
    BY <1>1 DEF IndInv, CallInv
  <1>3. DiskOfFTL' = DiskOfFTL
    BY <1>1, QuietWords, SameDisk
  <1>4. TodoOfFTL = {}
    <2> DEFINE last == req.lba + req.nsect - 1
    <2>1. req.lba \in Nat /\ req.nsect \in Nat /\ SECTORS_PER_PAGE \in Nat \ {0}
      BY DemandAssumption DEF IndInv, DataTypes, DemandAssumption
    <2> HIDE DEF last
    <2>2. req.lba \div SECTORS_PER_PAGE \in Nat /\ last \div SECTORS_PER_PAGE \in Int
      <3>1. req.lba \div SECTORS_PER_PAGE \in Nat
        BY <2>1, DivMod
      <3>2. last \in Int
        BY <2>1 DEF last
      <3>3. last \div SECTORS_PER_PAGE \in Int
        BY <2>1, <3>2
      <3> QED BY <3>1, <3>3
    <2>3. lpn = last \div SECTORS_PER_PAGE + 1
      BY <1>1, <2>1, <2>2 DEF lpn, send_kazu, last
    <2>4. ASSUME NEW s \in SectorsFrom(req.lba, req.nsect)
          PROVE  s \div SECTORS_PER_PAGE <= last \div SECTORS_PER_PAGE
      <3>1. s \in Nat /\ last \in Nat /\ s <= last
        BY <2>1 DEF SectorsFrom, last
      <3> QED BY <2>1, <3>1
    <2>5. \A s \in SectorsFrom(req.lba, req.nsect) : s \div SECTORS_PER_PAGE \in Nat
      BY <1>2, RequestSectors
    <2> QED BY <2>2, <2>3, <2>4, <2>5 DEF TodoOfFTL
  <1>5. TodoOfFTL' = {}
    BY <1>1 DEF TodoOfFTL
  <1> QED BY <1>1, <1>2, <1>3, <1>4, <1>5 DEF Disk!Return, Disk!Idle, Idle

\* The page put in its buffer is what the disk is to hold.
LEMMA StoreIs ==
    ASSUME IndInv, HostInv, IndInv', Store
    PROVE  OnPage \subseteq TodoOfFTL /\ Disk!Store(OnPage)
  <1>1. /\ pc = "store" /\ pc' = "write" /\ pp' = pp + 1 /\ UNCHANGED <<req, rbuf>>
    BY DEF Store
  <1>2. req.op = "write"
    BY <1>1 DEF IndInv, DataTypes, CallInv
  <1>3. /\ \A i \in Offsets : data[i] = Packed(i)
        /\ lpn \in Lpns
        /\ \A m \in Lpns, i \in Offsets :
              WordNext(m, i) = IF m = lpn THEN data[i] ELSE WordAt(m, i)
    BY <1>1, StoreWords DEF HostInv
  <1>4. \A lba \in Lbas : SectorAt(lba)' = IF lba \in OnPage THEN req.buf[lba] ELSE SectorAt(lba)
    <2> TAKE lba \in Lbas
    <2>1. lba \div SECTORS_PER_PAGE \in Lpns /\ lba % SECTORS_PER_PAGE \in Offsets
      BY Places
    <2>2. /\ SectorAt(lba) = WordAt(lba \div SECTORS_PER_PAGE, lba % SECTORS_PER_PAGE)
          /\ SectorAt(lba)' = WordNext(lba \div SECTORS_PER_PAGE, lba % SECTORS_PER_PAGE)
      BY SectorIs, SectorIsNext
    <2>3. CASE lba \div SECTORS_PER_PAGE = lpn
      <3>1. lba = LbaAt(lba % SECTORS_PER_PAGE)
        BY <2>3, PageSectors
      <3>2. SectorAt(lba)' = Packed(lba % SECTORS_PER_PAGE)
        BY <1>3, <2>1, <2>2, <2>3
      <3>3. lba \in OnPage <=> InRequest(lba % SECTORS_PER_PAGE)
        BY <2>3, <3>1 DEF OnPage, InRequest
      <3> QED BY <2>2, <2>3, <3>1, <3>2, <3>3 DEF Packed
    <2>4. CASE lba \div SECTORS_PER_PAGE # lpn
      BY <1>3, <2>1, <2>2, <2>4 DEF OnPage
    <2> QED BY <2>3, <2>4
  <1>5. DiskOfFTL' = [lba \in Lbas |-> IF lba \in OnPage THEN req.buf[lba] ELSE DiskOfFTL[lba]]
    BY <1>4 DEF DiskOfFTL, Lbas
  <1>6. TodoOfFTL' = TodoOfFTL \ OnPage /\ OnPage \subseteq TodoOfFTL
    BY <1>1, <1>2, TodoShrinks
  <1> QED BY <1>1, <1>2, <1>5, <1>6 DEF Disk!Store, Disk!Lbas, Lbas

\* A page is read as it is, and every sector of the request on it is filled.
LEMMA FetchIs ==
    ASSUME IndInv, HostInv, IndInv', FetchPage
    PROVE  OnPage \subseteq TodoOfFTL /\ Disk!Fetch(OnPage)
  <1>1. /\ pc = "read" /\ pp < send_kazu /\ MapReady /\ pp' = pp + 1
        /\ UNCHANGED <<flashVars, mapVars, buffer, req, pc>>
        /\ data' = OldContents(lpn)
        /\ rbuf' = [s \in DOMAIN rbuf |-> IF s \div SECTORS_PER_PAGE = lpn
                                          THEN data'[s % SECTORS_PER_PAGE] ELSE rbuf[s]]
    BY DEF FetchPage, OldContents, dataVars
  <1>2. req.op = "read"
    BY <1>1 DEF IndInv, CallInv
  <1>3. DiskOfFTL' = DiskOfFTL
    BY <1>1, QuietWords, SameDisk
  <1>4. TodoOfFTL' = TodoOfFTL \ OnPage /\ OnPage \subseteq TodoOfFTL
    BY <1>1, <1>2, TodoShrinks
  <1>5. DOMAIN rbuf = SectorsFrom(req.lba, req.nsect) /\ SectorsFrom(req.lba, req.nsect) \subseteq Lbas
    BY <1>1, <1>2, RequestSectors DEF HostInv
  <1>6. \A i \in Offsets : data'[i] = WordAt(lpn, i)
    <2>1. lpn \in Lpns
      BY <1>1, <1>2, CallPage
    <2>2. Buffered(lpn) \/ Cached(lpn2vpn(lpn))
      BY <1>1 DEF MapReady, Lookups
    <2> QED BY <1>1, <2>1, <2>2, OldContentsAre
  <1>7. \A s \in OnPage : data'[s % SECTORS_PER_PAGE] = DiskOfFTL[s]
    <2> TAKE s \in OnPage
    <2>1. s \in Lbas /\ s \div SECTORS_PER_PAGE = lpn
      BY <1>5 DEF OnPage
    <2>2. DiskOfFTL[s] = SectorAt(s)
      BY <2>1 DEF DiskOfFTL, Lbas
    <2>3. SectorAt(s) = WordAt(lpn, s % SECTORS_PER_PAGE)
      BY <2>1, SectorIs
    <2> QED BY <1>6, <2>1, <2>2, <2>3, PageSectors
  <1>8. \A s \in DOMAIN rbuf : s \div SECTORS_PER_PAGE = lpn <=> s \in OnPage
    BY <1>5 DEF OnPage
  <1>9. rbuf' = [s \in DOMAIN rbuf |-> IF s \in OnPage \ {} THEN DiskOfFTL[s] ELSE rbuf[s]]
    BY <1>1, <1>7, <1>8
  <1>10. \E F \in SUBSET {lba \in OnPage : Disk!Forgotten(lba)} :
            rbuf' = [s \in DOMAIN rbuf |-> IF s \in OnPage \ F THEN DiskOfFTL[s] ELSE rbuf[s]]
    BY <1>9
  <1> QED BY <1>1, <1>2, <1>3, <1>4, <1>10 DEF Disk!Fetch

\* The other steps do not show.
LEMMA Stutters ==
    ASSUME IndInv, IndInv', UNCHANGED <<req, pp, rbuf>>, pc # "idle", pc' # "idle", WordsKept
    PROVE  UNCHANGED Disk!vars
  <1>1. lpn' = lpn
    BY DEF lpn
  <1>2. TodoOfFTL' = TodoOfFTL
    BY <1>1 DEF TodoOfFTL
  <1> QED BY <1>2, SameDisk DEF Disk!vars

\* A step of the layer is one of the disk, or does not show.
LEMMA DiskStep ==
    ASSUME StartsWell, IndInv, HostInv, IndInv', [Next]_vars
    PROVE  [Disk!Next]_(Disk!vars)
  <1>1. CASE Submit
    BY <1>1, SubmitIs DEF Disk!Next
  <1>2. CASE Return
    BY <1>2, ReturnIs DEF Disk!Next
  <1>3. CASE Store
    BY <1>3, StoreIs DEF Disk!Next
  <1>4. CASE FetchPage
    BY <1>4, FetchIs DEF Disk!Next
  <1>5. CASE PackPage
    <2>1. /\ UNCHANGED <<flashVars, mapVars, buffer, req, pp, rbuf>> /\ pc # "idle" /\ pc' # "idle"
      BY <1>5 DEF PackPage, dataVars
    <2> QED BY <2>1, QuietWords, Stutters
  <1>6. CASE Below
    BY <1>6, BelowWords, Stutters
  <1>7. CASE UNCHANGED vars
    <2>1. UNCHANGED <<flashVars, mapVars, buffer, req, pc, pp, rbuf>>
      BY <1>7 DEF vars, callVars, dataVars
    <2>2. DiskOfFTL' = DiskOfFTL
      BY <2>1, QuietWords, SameDisk
    <2>3. TodoOfFTL' = TodoOfFTL
      BY <2>1 DEF TodoOfFTL, lpn
    <2> QED BY <2>1, <2>2, <2>3 DEF Disk!vars
  <1> QED BY <1>1, <1>2, <1>3, <1>4, <1>5, <1>6, <1>7 DEF Next, Step, Below

\* A layer that was never written is a blank disk.
LEMMA DiskInit == Init => Disk!Init
  <1> SUFFICES ASSUME Init PROVE Disk!Init
    OBVIOUS
  <1>1. \A lba \in Lbas : SectorAt(lba) = Blank
    <2> TAKE lba \in Lbas
    <2> DEFINE l == lba \div SECTORS_PER_PAGE
    <2>1. l \in Lpns /\ l # -1
      BY Places DEF Lpns
    <2> HIDE DEF l
    <2>2. ~Buffered(l)
      BY <2>1 DEF Init, Buffered, BuffersWith
    <2>3. L2P[l] = -1
      BY <2>1, InitMapping
    <2> QED BY <2>2, <2>3 DEF SectorAt, l
  <1>2. DiskOfFTL = [lba \in Lbas |-> Blank]
    BY <1>1 DEF DiskOfFTL, Lbas
  <1> QED BY <1>2 DEF Init, TodoOfFTL, Idle, Disk!Init, Disk!Lbas, Disk!Idle, Lbas

\* What a call has packed is still what it has to store when the buffer it
\* flushes, the map pages it caches and writes back and the collections of
\* either kind have made room for it (write_through_lpn, ftl.c:398-417); and the
\* copy of a page that is being moved agrees with the page until it is mapped
\* (garbage_collection, ftl.c:296).
THEOREM PackedStays == ASSUME EnoughRoom PROVE Spec => []HostInv
  <1>1. IndInv /\ HostInv /\ IndInv' /\ [Next]_vars => HostInv'
    BY StepHost DEF StartsWell
  <1> QED BY <1>1, Invariance, InitHost, PTL DEF Spec

\* ftl_read and ftl_write are a disk (ftl.c:308, 428): a sector reads as it was
\* last written whatever is buffered, flushed, cached, written back or collected
\* on the way, and no step but the end of a page in a call shows.
THEOREM DemandFTLIsADisk == ASSUME EnoughRoom PROVE Spec => ImplementsDisk
  <1>1. IndInv /\ HostInv /\ IndInv' /\ [Next]_vars => [Disk!Next]_(Disk!vars)
    BY DiskStep DEF StartsWell
  <1> QED BY <1>1, Invariance, PackedStays, DiskInit, PTL DEF Spec, ImplementsDisk, Disk!Spec

\* With no assumption on the geometry, which covers the headers with one block
\* to spare: the layer is a disk for as long as both collections find a page to
\* reclaim (ftl.c:283, 663).
THEOREM DiskWhileReclaiming == Spec /\ []CollectionsReclaim => ImplementsDisk
  <1>1. IndInv /\ HostInv /\ IndInv' /\ CollectionsReclaim' /\ [Next]_vars
            => HostInv' /\ [Disk!Next]_(Disk!vars)
    BY StepHost, DiskStep DEF StartsWell
  <1>2. Spec /\ []CollectionsReclaim => [](IndInv /\ HostInv)
    BY <1>1, InvarianceWhileReclaiming, InitHost, PTL DEF Spec
  <1> QED BY <1>1, <1>2, DiskInit, PTL DEF Spec, ImplementsDisk, Disk!Spec
=============================================================================
