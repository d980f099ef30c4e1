------------------------------ MODULE NandHw1 -------------------------------
(***************************************************************************)
(* The chip of Lab #1 (HW1/nand.c).  Every page carries two flags in its    *)
(* _meta area: WRITTEN, and BE_WRITTEN for the page its block is to be     *)
(* written at next.  Callers are as in nand_test.c: any sequence of calls, *)
(* the addresses read from the input and checked by nobody.  A definition   *)
(* marked "mutant" is a plausible bug of the one below it, which nothing   *)
(* uses.                                                                   *)
(***************************************************************************)
EXTENDS Integers, FiniteSets

CONSTANTS N_BANKS, BLKS_PER_BANK, PAGES_PER_BLK, Page, Zero

ASSUME NandHw1Assumption ==
    /\ N_BANKS \in Nat \ {0}
    /\ BLKS_PER_BANK \in Nat \ {0}
    /\ PAGES_PER_BLK \in Nat \ {0}

VARIABLES
    content,     \* content[bank][blk][page]: _data and _spare
    WRITTEN,     \* _meta[WRITTEN]
    BE_WRITTEN,  \* _meta[BE_WRITTEN]
    reply        \* what the last call returned

vars == <<content, WRITTEN, BE_WRITTEN, reply>>

Banks == 0 .. N_BANKS - 1
Blks  == 0 .. BLKS_PER_BANK - 1
Pages == 0 .. PAGES_PER_BLK - 1

Reply(rc) == [rc |-> rc, page |-> <<>>]

\* A block after nand_init or nand_erase: only its first page can be written.
Blank(x)   == [blk \in Blks |-> [page \in Pages |-> x]]
FirstPages == [blk \in Blks |-> [page \in Pages |-> page = 0]]

Init ==
    /\ content = [bank \in Banks |-> Blank(Zero)]
    /\ WRITTEN = [bank \in Banks |-> Blank(FALSE)]
    /\ BE_WRITTEN = [bank \in Banks |-> FirstPages]
    /\ reply = Reply("SUCCESS")

PositionFirst(bank, blk, page) ==                          \* mutant
    IF bank \notin Banks \/ blk \notin Blks \/ page \notin Pages THEN "INVALID"
    ELSE IF ~BE_WRITTEN[bank][blk][page] THEN "POSITION"
    ELSE "SUCCESS"

WriteCode(bank, blk, page) ==
    IF bank \notin Banks \/ blk \notin Blks \/ page \notin Pages THEN "INVALID"
    ELSE IF WRITTEN[bank][blk][page] THEN "OVERWRITE"
    ELSE IF ~BE_WRITTEN[bank][blk][page] THEN "POSITION"
    ELSE "SUCCESS"

\* The flag BE_WRITTEN is handed on to the next page of the block, if any.
HandOnForgets(flags, page) == [flags EXCEPT ![page] = FALSE]   \* mutant
HandOn(flags, page) ==
    [p \in Pages |-> IF p = page THEN FALSE ELSE IF p = page + 1 THEN TRUE ELSE flags[p]]

Write(bank, blk, page, new) ==
    /\ reply' = Reply(WriteCode(bank, blk, page))
    /\ IF WriteCode(bank, blk, page) = "SUCCESS"
       THEN /\ content' = [content EXCEPT ![bank][blk][page] = new]
            /\ WRITTEN' = [WRITTEN EXCEPT ![bank][blk][page] = TRUE]
            /\ BE_WRITTEN' = [BE_WRITTEN EXCEPT ![bank][blk] = HandOn(@, page)]
       ELSE UNCHANGED <<content, WRITTEN, BE_WRITTEN>>

Read(bank, blk, page) ==
    /\ reply' = IF bank \notin Banks \/ blk \notin Blks \/ page \notin Pages
                THEN Reply("INVALID")
                ELSE IF ~WRITTEN[bank][blk][page] THEN Reply("EMPTY")
                ELSE [rc |-> "SUCCESS", page |-> content[bank][blk][page]]
    /\ UNCHANGED <<content, WRITTEN, BE_WRITTEN>>

\* The loops declare a Block *blk of their own, which hides the parameter: all
\* blocks of the bank are looked at, and all are cleared.
EraseCode(bank, blk) ==
    IF bank \notin Banks \/ blk \notin Blks THEN "INVALID"
    ELSE IF \A b \in Blks : ~WRITTEN[bank][b][0] THEN "EMPTY"
    ELSE "SUCCESS"

Erase(bank, blk) ==
    /\ reply' = Reply(EraseCode(bank, blk))
    /\ IF EraseCode(bank, blk) = "SUCCESS"
       THEN /\ content' = [content EXCEPT ![bank] = Blank(Zero)]
            /\ WRITTEN' = [WRITTEN EXCEPT ![bank] = Blank(FALSE)]
            /\ BE_WRITTEN' = [BE_WRITTEN EXCEPT ![bank] = FirstPages]
       ELSE UNCHANGED <<content, WRITTEN, BE_WRITTEN>>

Next ==
    \E bank \in -1 .. N_BANKS, blk \in -1 .. BLKS_PER_BANK :
        \/ Erase(bank, blk)
        \/ \E page \in -1 .. PAGES_PER_BLK :
              \/ Read(bank, blk, page)
              \/ \E new \in Page : Write(bank, blk, page, new)

Spec == Init /\ [][Next]_vars

-----------------------------------------------------------------------------
\* The log a block holds: the contents of its written pages.
LengthOf(bank, blk) == Cardinality({page \in Pages : WRITTEN[bank][blk][page]})
LogOf(bank, blk)    == [i \in 1 .. LengthOf(bank, blk) |-> content[bank][blk][i - 1]]
LogOfNand == [bank \in Banks |-> [blk \in Blks |-> LogOf(bank, blk)]]

\* The flags of a block's pages describe one position (HW1/nand.c:129-134,
\* 196-199): the pages before it are written, it alone can be written, and a
\* full block has none.
OnePosition ==
    \A bank \in Banks, blk \in Blks, page \in Pages :
        /\ WRITTEN[bank][blk][page] <=> page < LengthOf(bank, blk)
        /\ BE_WRITTEN[bank][blk][page] <=> page = LengthOf(bank, blk)

\* The lab's chip is a set of logs that are erased a bank at a time, although
\* the comment at HW1/nand.c:170 says a block; its writes
\* return the documented codes, unlike those of the chip of NandSim.
BankErasedDevice == INSTANCE NandDevice WITH
    log <- LogOfNand, RewriteCodes <- {"OVERWRITE"}, EraseUnit <- "bank"
ImplementsBankErasedDevice == BankErasedDevice!Spec
=============================================================================
