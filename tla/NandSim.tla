------------------------------ MODULE NandSim -------------------------------
(***************************************************************************)
(* The chip of nand.c on its own, under any sequence of calls, the ones    *)
(* with addresses outside the chip included: the function checks every     *)
(* address it is given and its callers check none.                         *)
(***************************************************************************)
EXTENDS Integers, Sequences

CONSTANTS N_BANKS, BLKS_PER_BANK, PAGES_PER_BLK, Page, Erased

INSTANCE Nand

ASSUME NandSimAssumption ==
    /\ N_BANKS \in Nat \ {0}
    /\ BLKS_PER_BANK \in Nat \ {0}
    /\ PAGES_PER_BLK \in Nat \ {0}
    /\ Erased \notin Page

VARIABLES
    nand,   \* nand[bank]: cell and blk_index of the bank
    reply   \* what the last call returned

vars == <<nand, reply>>

Banks == 0 .. N_BANKS - 1

Reply(rc) == [rc |-> rc, page |-> <<>>]

Init ==
    /\ nand = [bank \in Banks |-> EmptyBank]
    /\ reply = Reply("SUCCESS")

Write(bank, blk, page, content) ==
    IF bank \notin Banks
    THEN reply' = Reply("INVALID") /\ UNCHANGED nand
    ELSE /\ nand' = [nand EXCEPT ![bank] = NandWrite(@, blk, page, content)]
         /\ reply' = Reply(WriteCode(nand[bank], blk, page))

Read(bank, blk, page) ==
    /\ reply' = IF bank \notin Banks THEN Reply("INVALID")
                ELSE [rc   |-> ReadCode(nand[bank], blk, page),
                      page |-> NandRead(nand[bank], blk, page, <<>>)]
    /\ UNCHANGED nand

Erase(bank, blk) ==
    IF bank \notin Banks
    THEN reply' = Reply("INVALID") /\ UNCHANGED nand
    ELSE /\ nand' = [nand EXCEPT ![bank] = NandErase(@, blk)]
         /\ reply' = Reply(EraseCode(nand[bank], blk))

Next ==
    \E bank \in -1 .. N_BANKS, blk \in -1 .. BLKS_PER_BANK :
        \/ Erase(bank, blk)
        \/ \E page \in -1 .. PAGES_PER_BLK :
              \/ Read(bank, blk, page)
              \/ \E content \in Page : Write(bank, blk, page, content)

Spec == Init /\ [][Next]_vars

-----------------------------------------------------------------------------
Bank == [cell      : [Ppns -> Page \cup {Erased}],
         blk_index : [Blks -> 0 .. PAGES_PER_BLK]]

\* The type of the chip and of its replies (nand.c:22-30).
TypeOK ==
    /\ nand \in [Banks -> Bank]
    /\ reply \in [rc   : {"SUCCESS", "INVALID", "POSITION", "OVERWRITE", "EMPTY"},
                  page : Page \cup {<<>>}]

\* iswritten and blk_index, which nand_write and nand_erase keep separately
\* (nand.c:77-78, 129-130), agree: a block's written pages are exactly the
\* ones before its blk_index.
WrittenPrefix ==
    \A bank \in Banks, ppn \in Ppns :
        nand[bank].cell[ppn] # Erased
            <=> PageOf(ppn) < nand[bank].blk_index[BlkOf(ppn)]

\* The log a block holds: its pages up to blk_index.
LogOf(bank, blk) ==
    [i \in 1 .. nand[bank].blk_index[blk] |-> nand[bank].cell[Ppn(blk, i - 1)]]

LogOfNand == [bank \in Banks |-> [blk \in Blks |-> LogOf(bank, blk)]]

\* nand.c is a set of independent append-only blocks, whatever the calls;
\* which of the two write errors refuses a rewritten page is left open.
Device == INSTANCE NandDevice WITH
    log <- LogOfNand, RewriteCodes <- {"OVERWRITE", "POSITION"}, EraseUnit <- "block"
ImplementsDevice == Device!Spec
=============================================================================
