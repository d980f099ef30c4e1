---------------------------- MODULE BlockDevice -----------------------------
(***************************************************************************)
(* What a flash translation layer promises to the driver that calls it: a  *)
(* disk of sectors.  A write call stores its sectors one group after the   *)
(* other, a read call fetches its sectors, and a call that has returned    *)
(* has dealt with all of them.  Nothing else changes a sector, so whatever *)
(* garbage collection and caching go on inside is invisible.               *)
(***************************************************************************)
EXTENDS Integers

CONSTANTS
    N_SECTORS,  \* sectors of the disk
    Word,       \* what a sector may hold
    Blank,      \* what a sector that was never written reads as (0xFFFFFFFF)
    Junk,       \* the uninitialised contents of a caller's buffer
    MaxSect,    \* longest request
    LastUnset   \* TRUE: a read may forget its last sector if that one is blank

VARIABLES
    disk,   \* disk[lba]
    req,    \* the call in progress
    todo,   \* the sectors it has still to transfer
    rbuf    \* the buffer a read call fills; the caller prints and frees it

vars == <<disk, req, todo, rbuf>>

Lbas == 0 .. N_SECTORS - 1
SectorsFrom(lba, nsect) == lba .. lba + nsect - 1
Idle == [op |-> "idle", lba |-> 0, nsect |-> 0, buf |-> <<>>]

Init ==
    /\ disk = [lba \in Lbas |-> Blank]
    /\ req = Idle
    /\ todo = {}
    /\ rbuf = <<>>

Submit ==
    /\ req.op = "idle"
    /\ \E lba \in Lbas, nsect \in 0 .. MaxSect :
        /\ lba + nsect <= N_SECTORS
        /\ todo' = SectorsFrom(lba, nsect)
        /\ \/ /\ req' = [op |-> "read", lba |-> lba, nsect |-> nsect, buf |-> <<>>]
              /\ rbuf' = [s \in todo' |-> Junk]
           \/ \E buf \in [SectorsFrom(lba, nsect) -> Word] :
              /\ req' = [op |-> "write", lba |-> lba, nsect |-> nsect, buf |-> buf]
              /\ rbuf' = <<>>
    /\ UNCHANGED disk

Store(S) ==
    /\ req.op = "write"
    /\ disk' = [lba \in Lbas |-> IF lba \in S THEN req.buf[lba] ELSE disk[lba]]
    /\ todo' = todo \ S
    /\ UNCHANGED <<req, rbuf>>

\* The sector a read may leave as it found it in the caller's buffer.
Forgotten(lba) ==
    LastUnset /\ lba = req.lba + req.nsect - 1 /\ disk[lba] = Blank

Fetch(S) ==
    /\ req.op = "read"
    /\ \E F \in SUBSET {lba \in S : Forgotten(lba)} :
        rbuf' = [lba \in DOMAIN rbuf |-> IF lba \in S \ F THEN disk[lba] ELSE rbuf[lba]]
    /\ todo' = todo \ S
    /\ UNCHANGED <<disk, req>>

Return ==
    /\ req.op # "idle"
    /\ todo = {}
    /\ req' = Idle
    /\ rbuf' = <<>>
    /\ UNCHANGED <<disk, todo>>

Next ==
    \/ Submit
    \/ \E S \in SUBSET todo : Store(S) \/ Fetch(S)
    \/ Return

Spec == Init /\ [][Next]_vars
=============================================================================
