--------------------------------- MODULE Zns ----------------------------------
(***************************************************************************)
(* The ZNS+ simulator of Lab #5 (HW5/20211030_submit/zns.c).  The banks    *)
(* are divided into channel groups (fcg); the blocks of one number in all  *)
(* banks of a group form a block group (fbg), which a queue hands out to   *)
(* the zones of the channel group.  A zone that is opened again by         *)
(* zns_tl_open is rewritten into a second block group, its log.            *)
(*                                                                         *)
(* The program is one thread, so a call is one step; what matters is what  *)
(* calls leave behind for each other.  A call that returns -1 changes      *)
(* nothing and is no step.  Sectors and wp count from the start of their   *)
(* zone (slba), a multiple of all divisors used.  The spare area is never  *)
(* read.  A definition marked "mutant" is a plausible bug of the one       *)
(* below it.                                                               *)
(***************************************************************************)
EXTENDS Integers, Sequences, FiniteSets

CONSTANTS
    NBANK, NBLK, NPAGE, DEG_ZONE, MAX_OPEN_ZONE,    \* arguments of zns_init
    NSECT,          \* sectors of a page
    Word,           \* what the host may store in the sectors of a call
    Zero,           \* a cleared sector of a buffer
    Blank,          \* 0xFFFFFFFF
    Junk,           \* whatever an uninitialised word holds
    Erased,         \* a page that is not written
    CopyLists,      \* the lists zns_izc may be called with
    TLMaps          \* the bitmaps zns_tl_open may be called with

INSTANCE Nand WITH BLKS_PER_BANK <- NBLK, PAGES_PER_BLK <- NPAGE

NUM_FCG   == NBANK \div DEG_ZONE
MAX_ZONE  == NUM_FCG * (NBLK - MAX_OPEN_ZONE)
ZONE_SIZE == DEG_ZONE * NPAGE * NSECT

Zones   == 0 .. MAX_ZONE - 1
Fcgs    == 0 .. NUM_FCG - 1
Fbgs    == 0 .. NBLK - 1
Banks   == 0 .. NBANK - 1
Sectors == 0 .. ZONE_SIZE - 1

VARIABLES
    nand,               \* nand[bank]: the chip (module Nand)
    FBG_Queue,          \* FBG_Queue[fcg]: the free block groups
    Open_Zone_Cnt,
    Z2FBG, Z2LogFBG,    \* the block group and the log of a zone, or -1
    ZD,                 \* ZD[zone]: state and wp
    buffer,             \* buffer[zone]: the page being filled
    zone_valid_map,     \* the sectors a transfer log is to copy
    call                \* the last call of the host that succeeded

vars == <<nand, FBG_Queue, Open_Zone_Cnt, Z2FBG, Z2LogFBG, ZD, buffer, zone_valid_map, call>>

zone_to_fcg(zone) == zone % NUM_FCG
lba_to_bank(zone, s) == zone_to_fcg(zone) * DEG_ZONE + ((s \div NSECT) % DEG_ZONE)
lba_to_page(s) == (s \div (DEG_ZONE * NSECT)) % NPAGE

BanksOf(fcg) == {bank \in Banks : bank \div DEG_ZONE = fcg}
NoBuffer == [i \in 0 .. NSECT - 1 |-> Zero]
NoMap    == [s \in Sectors |-> 0]

\* zns_init.
Init ==
    /\ nand = [bank \in Banks |-> EmptyBank]
    /\ FBG_Queue = [fcg \in Fcgs |-> [i \in 1 .. NBLK |-> i - 1]]
    /\ Open_Zone_Cnt = 0
    /\ Z2FBG = [zone \in Zones |-> -1] /\ Z2LogFBG = [zone \in Zones |-> -1]
    /\ ZD = [zone \in Zones |-> [state |-> "EMPTY", wp |-> 0]]
    /\ buffer = [zone \in Zones |-> NoBuffer]
    /\ zone_valid_map = [zone \in Zones |-> NoMap]
    /\ call = [op |-> "init"]

-----------------------------------------------------------------------------
\* Queue_Pop and Queue_Push; an empty queue yields -1.
Popped(q)    == IF q = <<>> THEN -1 ELSE Head(q)
Rest(q)      == IF q = <<>> THEN q ELSE Tail(q)
Pushed(q, x) == IF Len(q) = NBLK THEN q ELSE Append(q, x)

\* The sector a nand_read of its page leaves in an uninitialised tmp_data.
Stored(zone, fbg, s) ==
    NandRead(nand[lba_to_bank(zone, s)], fbg, lba_to_page(s), [i \in 0 .. NSECT - 1 |-> Junk])
        [s % NSECT]

\* A block group is erased in all banks of its channel group.
ErasedIn(chips, fcg, fbg) ==
    [bank \in Banks |-> IF bank \in BanksOf(fcg) THEN NandErase(chips[bank], fbg) ELSE chips[bank]]

\* What a call changes of the zone it writes, and with it.
At(zone) == [zone |-> zone, nand |-> nand, cnt |-> Open_Zone_Cnt, buf |-> buffer[zone],
             fbg |-> Z2FBG[zone], log |-> Z2LogFBG[zone],
             state |-> ZD[zone].state, wp |-> ZD[zone].wp]

StillCounted(c) == IF c.wp = ZONE_SIZE THEN [c EXCEPT !.state = "FULL"] ELSE c   \* mutant
Filled(c) == IF c.wp = ZONE_SIZE THEN [c EXCEPT !.state = "FULL", !.cnt = @ - 1] ELSE c

buffer_flush(c) ==
    LET s    == c.wp - NSECT
        bank == lba_to_bank(c.zone, s)
        fbg  == IF c.state = "TLOPEN" THEN c.log ELSE c.fbg
    IN  Filled([c EXCEPT !.nand[bank] = NandWrite(@, fbg, lba_to_page(s), c.buf),
                         !.buf = NoBuffer])

\* The body of every loop over sectors to write.
Put(c, word) ==
    LET next == [c EXCEPT !.buf[c.wp % NSECT] = word, !.wp = @ + 1]
    IN  IF next.wp % NSECT = 0 THEN buffer_flush(next) ELSE next

SameWord(c, words) ==                                      \* mutant
    LET put[i \in 0 .. Len(words)] == IF i = 0 THEN c ELSE Put(put[i - 1], words[1])
    IN  put[Len(words)]
PutAll(c, words) ==
    LET put[i \in 0 .. Len(words)] == IF i = 0 THEN c ELSE Put(put[i - 1], words[i])
    IN  put[Len(words)]

Opened(zone, fbg) ==
    [At(zone) EXCEPT !.fbg = fbg, !.log = -1, !.state = "OPEN", !.wp = 0, !.cnt = @ + 1]

\* What the call leaves of its zone.
Leaves(c) ==
    /\ ZD' = [ZD EXCEPT ![c.zone] = [state |-> c.state, wp |-> c.wp]]
    /\ buffer' = [buffer EXCEPT ![c.zone] = c.buf]
    /\ Open_Zone_Cnt' = c.cnt

-----------------------------------------------------------------------------
\* zns_write.

Write(zone, words) ==
    LET fcg  == zone_to_fcg(zone)
        open == ZD[zone].state = "EMPTY"
        c    == PutAll(IF open THEN Opened(zone, Popped(FBG_Queue[fcg])) ELSE At(zone), words)
    IN  /\ \/ open /\ Open_Zone_Cnt < MAX_OPEN_ZONE
           \/ ZD[zone].state = "OPEN"
        /\ Leaves(c)
        /\ nand' = c.nand
        /\ Z2FBG' = [Z2FBG EXCEPT ![zone] = c.fbg]
        /\ FBG_Queue' = IF open THEN [FBG_Queue EXCEPT ![fcg] = Rest(@)] ELSE FBG_Queue
        /\ UNCHANGED <<Z2LogFBG, zone_valid_map>>

\* The sectors from s that a transfer log copies at once.
RunEnd(map, s) ==
    CHOOSE e \in s .. ZONE_SIZE :
        /\ \A i \in s .. e - 1 : map[i] = 1
        /\ e = ZONE_SIZE \/ map[e] = 0

\* They come from the zone's old block group.
FromLog(c) == c.log                                        \* mutant
Source(c) == c.fbg
CopyOff(c, map) ==
    PutAll(c, [i \in 1 .. RunEnd(map, c.wp) - c.wp |-> Stored(c.zone, Source(c), c.wp + i - 1)])

TLWrite(zone, words) ==
    LET wp == ZD[zone].wp
        c  == CopyOff(PutAll(At(zone), words), zone_valid_map[zone])
    IN  /\ ZD[zone].state = "TLOPEN"
        /\ \A s \in wp .. wp + Len(words) - 1 : zone_valid_map[zone][s] = 0
        /\ Leaves(c)
        /\ nand' = c.nand
        /\ UNCHANGED <<FBG_Queue, Z2FBG, Z2LogFBG, zone_valid_map>>

-----------------------------------------------------------------------------
\* zns_reset, zns_izc and zns_tl_open.

\* The block groups of a zone go back to the queue, and are erased.
ForgetsLog(q, zone) == Pushed(q, Z2FBG[zone])              \* mutant
GivenBack(q, zone) ==
    IF Z2LogFBG[zone] = -1 THEN Pushed(q, Z2FBG[zone])
    ELSE Pushed(Pushed(q, Z2FBG[zone]), Z2LogFBG[zone])

NotErased(chips, zone) == chips                            \* mutant
Cleaned(chips, zone) ==
    ErasedIn(ErasedIn(chips, zone_to_fcg(zone), Z2FBG[zone]), zone_to_fcg(zone), Z2LogFBG[zone])

Reset(zone) ==
    /\ ZD[zone].state = "FULL"
    /\ ZD' = [ZD EXCEPT ![zone] = [state |-> "EMPTY", wp |-> 0]]
    /\ FBG_Queue' = [FBG_Queue EXCEPT ![zone_to_fcg(zone)] = GivenBack(@, zone)]
    /\ nand' = Cleaned(nand, zone)
    /\ Z2FBG' = [Z2FBG EXCEPT ![zone] = -1] /\ Z2LogFBG' = [Z2LogFBG EXCEPT ![zone] = -1]
    /\ zone_valid_map' = [zone_valid_map EXCEPT ![zone] = NoMap]
    /\ UNCHANGED <<Open_Zone_Cnt, buffer>>

\* Sectors of src are copied to the zone dest, and src is reset.
InOrder(src, list) == [i \in DOMAIN list |-> Stored(src, Z2FBG[src], i - 1)]   \* mutant
Listed(src, list) == [i \in DOMAIN list |-> Stored(src, Z2FBG[src], list[i])]

Izc(src, dest, list) ==
    LET from == zone_to_fcg(src)
        to   == zone_to_fcg(dest)
        c    == PutAll(Opened(dest, Popped(FBG_Queue[to])), Listed(src, list))
    IN  /\ Open_Zone_Cnt # MAX_OPEN_ZONE
        /\ ZD[src].state = "FULL" /\ ZD[dest].state = "EMPTY"
        /\ ZD' = [ZD EXCEPT ![dest] = [state |-> c.state, wp |-> c.wp],
                            ![src] = [state |-> "EMPTY", wp |-> 0]]
        /\ buffer' = [buffer EXCEPT ![dest] = c.buf]
        /\ Open_Zone_Cnt' = c.cnt
        /\ nand' = Cleaned(c.nand, src)
        /\ FBG_Queue' = LET q == [FBG_Queue EXCEPT ![to] = Rest(@)]
                        IN  [q EXCEPT ![from] = GivenBack(@, src)]
        /\ Z2FBG' = [Z2FBG EXCEPT ![dest] = c.fbg, ![src] = -1]
        /\ Z2LogFBG' = [Z2LogFBG EXCEPT ![dest] = -1, ![src] = -1]
        /\ zone_valid_map' = [zone_valid_map EXCEPT ![src] = NoMap]

\* A log whose zone is copied to the end at once is given back, and the open
\* zone that buffer_flush has counted off is counted off again.
TLOpen(zone, map) ==
    LET fcg == zone_to_fcg(zone)
        log == Popped(FBG_Queue[fcg])
        q   == Rest(FBG_Queue[fcg])
        c   == CopyOff([At(zone) EXCEPT !.log = log, !.state = "TLOPEN", !.wp = 0, !.cnt = @ + 1],
                       map)
        all == c.state = "FULL"
    IN  /\ Open_Zone_Cnt # MAX_OPEN_ZONE
        /\ ZD[zone].state = "FULL"
        /\ Leaves(IF all THEN [c EXCEPT !.cnt = @ - 1] ELSE c)
        /\ nand' = IF all THEN ErasedIn(c.nand, fcg, log) ELSE c.nand
        /\ FBG_Queue' = [FBG_Queue EXCEPT ![fcg] = IF all THEN Pushed(q, log) ELSE q]
        /\ Z2LogFBG' = [Z2LogFBG EXCEPT ![zone] = IF all THEN -1 ELSE log]
        /\ zone_valid_map' = [zone_valid_map EXCEPT ![zone] = IF all THEN NoMap ELSE map]
        /\ UNCHANGED Z2FBG

\* The requests of the driver: within a zone, at least a sector; writes
\* elsewhere than at wp return -1.  A list names at most ZONE_SIZE sectors.
\* What it writes is told apart by the sector it is for.
Data == Zones \X Sectors \X Word
Written(zone, n, word) == [i \in 1 .. n |-> <<zone, ZD[zone].wp + i - 1, word>>]

\* What a zone holds that no log has rewritten.
ByLog(zone) == ZD[zone].state = "TLOPEN" \/ Z2LogFBG[zone] # -1
Held(zone) ==
    [s \in 1 .. ZD[zone].wp |->
        IF s <= (ZD[zone].wp \div NSECT) * NSECT THEN Stored(zone, Z2FBG[zone], s - 1)
        ELSE buffer[zone][(s - 1) % NSECT]]
ZoneOf == [zone \in Zones |->
    [state |-> ZD[zone].state, tl |-> ByLog(zone),
     data |-> IF ByLog(zone) THEN <<>> ELSE Held(zone)]]
Device == INSTANCE ZonedDevice WITH zone <- ZoneOf, Word <- Data

OtherCall(zone) ==
    \/ \E n \in 1 .. ZONE_SIZE - ZD[zone].wp, word \in Word :
         LET words == Written(zone, n, word)
         IN  /\ Write(zone, words) \/ TLWrite(zone, words)
             /\ call' = Device!WriteCall(zone, words)
    \/ Reset(zone) /\ call' = Device!ResetCall(zone)
    \/ \E dest \in Zones \ {zone}, list \in CopyLists :
         Izc(zone, dest, list) /\ call' = Device!CopyCall(zone, dest, list)
OpenLog(zone, map) == TLOpen(zone, map) /\ call' = Device!TLOpenCall(zone)

\* The driver passes on whatever it reads.
Next == \E zone \in Zones : OtherCall(zone) \/ \E map \in TLMaps : OpenLog(zone, map)
Spec == Init /\ [][Next]_vars

\* A host that knows the simulator.  zns_write leaves a zone that it fills
\* through a log with two block groups (zns.c:165-169), so this host resets it
\* before it opens another log, and it leaves a sector out of every bitmap.
\* zns_tl_open tests neither, and what comes of it is in OpenCountIsExact and
\* BlocksOwnedOnce below.
LeavesSome(map) == \E s \in Sectors : map[s] = 0
NoLogLeft == \A zone \in Zones : ZD[zone].state = "FULL" => Z2LogFBG[zone] = -1
CarefulNext ==
    \E zone \in Zones :
        \/ OtherCall(zone)
        \/ \E map \in TLMaps : LeavesSome(map) /\ NoLogLeft /\ OpenLog(zone, map)
CarefulSpec == Init /\ [][CarefulNext]_vars

-----------------------------------------------------------------------------
\* zns_read of a zone that no log has rewritten: what the loop puts into the
\* caller's data for nsect sectors from start.  A round takes a page, from
\* flash, as long as it may, then what the buffer has, then blanks; what is
\* past the end of a FULL zone's request is cut off, of an OPEN one's is not.
\* A round that takes nothing is repeated for ever, and the answer stays short.
OneTooFar(zone, lba) == lba + NSECT - 2 < ZD[zone].wp       \* mutant
InFlash(zone, lba) == lba + NSECT - 1 < ZD[zone].wp

Least(a, b) == IF a < b THEN a ELSE b
Round(zone, lba, left) ==
    LET page == [i \in 1 .. NSECT |-> Stored(zone, Z2FBG[zone], (lba \div NSECT) * NSECT + i - 1)]
        i    == lba % NSECT
    IN  IF ZD[zone].state = "FULL" THEN SubSeq(page, 1, Least(left, NSECT))
        ELSE IF lba >= ZD[zone].wp THEN [k \in 1 .. left |-> Blank]
        ELSE IF InFlash(zone, lba) THEN page
        ELSE [k \in 1 .. Least(left, (ZD[zone].wp % NSECT) - i) |-> buffer[zone][i + k - 1]]

zns_read(zone, start, nsect) ==
    LET next(data) ==
            IF Len(data) >= nsect THEN data
            ELSE data \o Round(zone, start + Len(data), nsect - Len(data))
        read[i \in 0 .. nsect] == IF i = 0 THEN <<>> ELSE next(read[i - 1])
    IN  read[nsect]

-----------------------------------------------------------------------------
\* Properties.

ASSUME ZnsAssumption ==
    /\ {NBANK, NBLK, NPAGE, DEG_ZONE, MAX_OPEN_ZONE, NSECT} \subseteq Nat \ {0}
    /\ NBANK % DEG_ZONE = 0 /\ MAX_OPEN_ZONE < NBLK
    /\ TLMaps \subseteq [Sectors -> {0, 1}]
    /\ \A list \in CopyLists : list \in Seq(Sectors) /\ Len(list) <= ZONE_SIZE

\* The marker of an erased page is not a page.
ASSUME ErasedIsNoPage == Erased \notin [0 .. NSECT - 1 -> Data]

States   == {"EMPTY", "OPEN", "FULL", "TLOPEN"}
InUse(zone) == ZD[zone].state \in {"OPEN", "TLOPEN"}

\* The types of the tables of zns.c:25-77: no zone goes without a block group,
\* nothing uninitialised is ever copied.
TypeOK ==
    /\ nand \in [Banks -> [cell : [Ppns -> [0 .. NSECT - 1 -> Data] \cup {Erased}],
                           blk_index : [Fbgs -> 0 .. NPAGE]]]
    /\ \A fcg \in Fcgs : FBG_Queue[fcg] \in Seq(Fbgs)
    /\ Open_Zone_Cnt \in 0 .. MAX_OPEN_ZONE
    /\ Z2FBG \in [Zones -> Fbgs \cup {-1}] /\ Z2LogFBG \in [Zones -> Fbgs \cup {-1}]
    /\ ZD \in [Zones -> [state : States, wp : 0 .. ZONE_SIZE]]
    /\ \A zone \in Zones : ZD[zone].state # "EMPTY" => Z2FBG[zone] # -1
    /\ buffer \in [Zones -> [0 .. NSECT - 1 -> Data \cup {Zero}]]
    /\ zone_valid_map \in [Zones -> {NoMap} \cup TLMaps]

\* Every block group is in one place: free, or with one zone, as its data or
\* as its log.  It stays so through copies and logs (zns.c:281, 287, 315, 339)
\* of a careful host.  A second log for a zone takes the place of the first,
\* which is in no place from then on (zns.c:341).
Owners(fcg, fbg) ==
    {<<"free", i>> : i \in {i \in DOMAIN FBG_Queue[fcg] : FBG_Queue[fcg][i] = fbg}}
    \cup {<<"data", z>> : z \in {z \in Zones : zone_to_fcg(z) = fcg /\ Z2FBG[z] = fbg}}
    \cup {<<"log", z>> : z \in {z \in Zones : zone_to_fcg(z) = fcg /\ Z2LogFBG[z] = fbg}}
BlocksOwnedOnce == \A fcg \in Fcgs, fbg \in Fbgs : Cardinality(Owners(fcg, fbg)) = 1

\* Open_Zone_Cnt, counted up in three places and down in two, is the number of
\* open zones, and within the limit.  A zone that zns_tl_open copies to the end
\* is counted off by buffer_flush (zns.c:114) and once more (zns.c:358), which
\* a bitmap that leaves a sector out avoids.
OpenCountIsExact ==
    /\ Open_Zone_Cnt = Cardinality({zone \in Zones : InUse(zone)})
    /\ Open_Zone_Cnt <= MAX_OPEN_ZONE

\* The return codes of nand_write are ignored.  They may be: what is free is
\* erased, and the pages written of a zone are those its wp has passed.
PagesWritten(fcg, fbg) ==
    {at \in BanksOf(fcg) \X Pages : nand[at[1]].cell[Ppn(fbg, at[2])] # Erased}
PagesPassed(zone) ==
    {<<lba_to_bank(zone, s - 1), lba_to_page(s - 1)>> :
        s \in {s \in 1 .. ZD[zone].wp : s % NSECT = 0}}
ChipFollowsZones ==
    /\ \A fcg \in Fcgs : \A i \in DOMAIN FBG_Queue[fcg] :
           PagesWritten(fcg, FBG_Queue[fcg][i]) = {}
    /\ \A zone \in Zones :
           /\ InUse(zone) \/ ZD[zone].state = "FULL" =>
                  PagesWritten(zone_to_fcg(zone), IF ByLog(zone) THEN Z2LogFBG[zone] ELSE Z2FBG[zone])
                      = PagesPassed(zone)
           /\ ByLog(zone) => Cardinality(PagesWritten(zone_to_fcg(zone), Z2FBG[zone])) = DEG_ZONE * NPAGE

\* The simulator is a zoned device: the words of a request are added to its
\* zone, in order, and stay there until the zone is reset, whatever happens to
\* other zones; compaction copies what its list names (zns.c:149, 315-329).
ImplementsDevice == Device!Spec

\* A read that starts with a page, or in the page being filled, gets the words
\* that were stored there, and blanks after them (zns.c:195-234).  What it gets
\* is as long as it asked for if that is a multiple of NSECT; otherwise it may
\* be longer, since an OPEN zone is read by whole pages (zns.c:201-209).
ReadsBack ==
    \A zone \in Zones : ~ByLog(zone) =>
        \A start \in Sectors :
            start % NSECT = 0 \/ start >= (ZD[zone].wp \div NSECT) * NSECT =>
                \A nsect \in 1 .. ZONE_SIZE - start :
                    LET data == zns_read(zone, start, nsect)
                    IN  /\ Len(data) >= nsect
                        /\ nsect % NSECT = 0 => Len(data) = nsect
                        /\ SubSeq(data, 1, nsect) = Device!Answer(zone, start, nsect)
===============================================================================
