----------------------------- MODULE ZonedDevice ------------------------------
(***************************************************************************)
(* What the ZNS+ simulator of Lab #5 promises to its host: zones that are  *)
(* written from start to end and emptied as a whole, a limit on how many   *)
(* are open at a time, and two commands that move data inside the device.  *)
(* A zone opened by a transfer log (tl) is filled up and emptied like any  *)
(* other, but what it holds is left open until it is emptied.              *)
(*                                                                         *)
(* The host decides what is stored where: call is the request the last     *)
(* step has served, and a step may do nothing but what its request asks.   *)
(***************************************************************************)
EXTENDS Integers, Sequences, FiniteSets

CONSTANTS
    Zones,
    ZONE_SIZE,      \* sectors of a zone
    MAX_OPEN_ZONE,
    Word,           \* what a sector may hold
    Blank,          \* what a sector reads as that was not written
    CopyLists       \* the lists of sectors, from 0, the host may have copied

VARIABLES
    zone,           \* zone[z]: its state, whether by transfer log, and its sectors
    call

WriteCall(z, data)       == [op |-> "write", zone |-> z, data |-> data]
ResetCall(z)             == [op |-> "reset", zone |-> z]
CopyCall(src, dest, list) == [op |-> "izc", src |-> src, dest |-> dest, list |-> list]
TLOpenCall(z)            == [op |-> "tl_open", zone |-> z]

Empty == [state |-> "EMPTY", tl |-> FALSE, data |-> <<>>]
Init  == zone = [z \in Zones |-> Empty]

IsOpen(z) == zone[z].state \in {"OPEN", "TLOPEN"}
MayOpen   == Cardinality({z \in Zones : IsOpen(z)}) < MAX_OPEN_ZONE

Holding(data) ==
    [state |-> IF Len(data) = ZONE_SIZE THEN "FULL" ELSE "OPEN", tl |-> FALSE, data |-> data]

\* The sectors of the request are added at the end.
Store(z, data) ==
    /\ zone[z].state = "OPEN" \/ (zone[z].state = "EMPTY" /\ MayOpen)
    /\ data \in Seq(Word) /\ Len(data) \in 1 .. ZONE_SIZE - Len(zone[z].data)
    /\ zone' = [zone EXCEPT ![z] = Holding(zone[z].data \o data)]

\* A zone that is filled through a log is full some time.
TLStore(z) ==
    /\ zone[z].state = "TLOPEN"
    /\ zone' \in {zone, [zone EXCEPT ![z].state = "FULL"]}

Reset(z) ==
    /\ zone[z].state = "FULL"
    /\ zone' = [zone EXCEPT ![z] = Empty]

\* The sectors listed of a full zone are copied to an empty one, and the full
\* one is emptied.
Compact(src, dest, list) ==
    LET data == zone'[dest].data IN
    /\ zone[src].state = "FULL" /\ zone[dest].state = "EMPTY" /\ MayOpen
    /\ IF zone[src].tl THEN data \in Seq(Word) /\ Len(data) = Len(list)
       ELSE data = [i \in DOMAIN list |-> zone[src].data[list[i] + 1]]
    /\ zone' = [zone EXCEPT ![src] = Empty, ![dest] = Holding(data)]

TLOpen(z) ==
    /\ zone[z].state = "FULL" /\ MayOpen
    /\ zone' = [zone EXCEPT ![z] = [state |-> "TLOPEN", tl |-> TRUE, data |-> <<>>]]

Next ==
    \E z \in Zones :
        \/ /\ call'.op = "write" /\ call'.zone = z
           /\ Store(z, call'.data) \/ TLStore(z)
        \/ call' = ResetCall(z) /\ Reset(z)
        \/ call' = TLOpenCall(z) /\ TLOpen(z)
        \/ \E dest \in Zones, list \in CopyLists :
             call' = CopyCall(z, dest, list) /\ Compact(z, dest, list)

Spec == Init /\ [][Next]_<<zone, call>>

\* What a read of nsect sectors from sector start of a zone is to answer.
Answer(z, start, nsect) ==
    LET data == zone[z].data
    IN  [i \in 1 .. nsect |-> IF start + i <= Len(data) THEN data[start + i] ELSE Blank]
===============================================================================
