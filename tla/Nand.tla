-------------------------------- MODULE Nand --------------------------------
(***************************************************************************)
(* The NAND simulator nand.c that every flash translation layer of the     *)
(* repository calls.  A bank is a record of its pages and of blk_index, the *)
(* position each block is to be written at next.  iswritten[p] is the test  *)
(* cell[p] # Erased.  (nand_erase leaves the old bytes in nand[], but       *)
(* nothing reads a page whose iswritten is 0.)  The operators are pure: a   *)
(* translation layer applies them to the bank it keeps in its own state.    *)
(* nand_init is EmptyBank.  A definition marked "mutant" is a plausible    *)
(* bug of the one below it, which nothing uses.                            *)
(***************************************************************************)
EXTENDS Integers

CONSTANTS BLKS_PER_BANK, PAGES_PER_BLK, Erased

Blks  == 0 .. BLKS_PER_BANK - 1
Pages == 0 .. PAGES_PER_BLK - 1
Ppns  == 0 .. BLKS_PER_BANK * PAGES_PER_BLK - 1

Ppn(blk, page) == blk * PAGES_PER_BLK + page
BlkOf(ppn)     == ppn \div PAGES_PER_BLK
PageOf(ppn)    == ppn % PAGES_PER_BLK

EmptyBank == [cell      |-> [ppn \in Ppns |-> Erased],
              blk_index |-> [blk \in Blks |-> 0]]

\* The order of the tests is the order of the early returns of nand_write.
WriteCode(bank, blk, page) ==
    IF blk \notin Blks \/ page \notin Pages THEN "INVALID"
    ELSE IF bank.blk_index[blk] # page THEN "POSITION"
    ELSE IF bank.cell[Ppn(blk, page)] # Erased THEN "OVERWRITE"
    ELSE "SUCCESS"

WriteAnywhere(bank, blk, page, content) ==                 \* mutant
    IF blk \in Blks /\ page \in Pages
    THEN [cell      |-> [bank.cell EXCEPT ![Ppn(blk, page)] = content],
          blk_index |-> [bank.blk_index EXCEPT ![blk] = page + 1]]
    ELSE bank

WritePastEnd(bank, blk, page, content) ==                  \* mutant
    IF WriteCode(bank, blk, page) = "SUCCESS"
    THEN [cell      |-> [bank.cell EXCEPT ![Ppn(blk, page)] = content],
          blk_index |-> [bank.blk_index EXCEPT ![blk] = page + 2]]
    ELSE bank

NandWrite(bank, blk, page, content) ==
    IF WriteCode(bank, blk, page) = "SUCCESS"
    THEN [cell      |-> [bank.cell EXCEPT ![Ppn(blk, page)] = content],
          blk_index |-> [bank.blk_index EXCEPT ![blk] = page + 1]]
    ELSE bank

ReadCode(bank, blk, page) ==
    IF blk \notin Blks \/ page \notin Pages THEN "INVALID"
    ELSE IF bank.cell[Ppn(blk, page)] = Erased THEN "EMPTY"
    ELSE "SUCCESS"

\* A failing nand_read leaves the caller's buffer as it was.
NandRead(bank, blk, page, buffer) ==
    IF ReadCode(bank, blk, page) = "SUCCESS"
    THEN bank.cell[Ppn(blk, page)] ELSE buffer

EraseCode(bank, blk) ==
    IF blk \notin Blks THEN "INVALID"
    ELSE IF bank.blk_index[blk] = 0 THEN "EMPTY"
    ELSE "SUCCESS"

EraseKeepsIndex(bank, blk) ==                              \* mutant
    IF EraseCode(bank, blk) = "SUCCESS"
    THEN [bank EXCEPT !.cell = [ppn \in Ppns |-> IF BlkOf(ppn) = blk THEN Erased ELSE @[ppn]]]
    ELSE bank

NandErase(bank, blk) ==
    IF EraseCode(bank, blk) = "SUCCESS"
    THEN [cell      |-> [ppn \in Ppns |-> IF BlkOf(ppn) = blk THEN Erased
                                          ELSE bank.cell[ppn]],
          blk_index |-> [bank.blk_index EXCEPT ![blk] = 0]]
    ELSE bank
=============================================================================
