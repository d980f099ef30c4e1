----------------------------- MODULE NandDevice -----------------------------
(***************************************************************************)
(* What a NAND flash chip promises, as the comments above the functions of *)
(* nand.c and the return codes of nand.h state it: a block is a log of     *)
(* pages that is written front to back and erased as a whole, one block at *)
(* a time.  The chip remembers nothing else.  The two implementations in   *)
(* the repository are compared with it: NandSim, the course staff's nand.c *)
(* the translation layers are built on, and NandHw1, the one of Lab #1.    *)
(* N_BANKS, BLKS_PER_BANK and PAGES_PER_BLK are positive.                  *)
(***************************************************************************)
EXTENDS Integers, Sequences

CONSTANTS
    N_BANKS,        \* banks of the chip
    BLKS_PER_BANK,  \* blocks of a bank
    PAGES_PER_BLK,  \* pages of a block
    Page,           \* page contents: the data and the spare area
    RewriteCodes,   \* codes that may refuse a write to a written page:
                    \* the comment above nand_write names OVERWRITE alone
    EraseUnit       \* what an erase clears, "block" or "bank": the comment
                    \* above nand_erase says block

VARIABLES
    log,    \* log[bank][blk]: the pages written since the last erase
    reply   \* what the last call returned: its code, and the page it read

vars == <<log, reply>>

Banks == 0 .. N_BANKS - 1
Blks  == 0 .. BLKS_PER_BANK - 1
Pages == 0 .. PAGES_PER_BLK - 1

Reply(rc) == [rc |-> rc, page |-> <<>>]

Init ==
    /\ log = [bank \in Banks |-> [blk \in Blks |-> <<>>]]
    /\ reply = Reply("SUCCESS")

Valid(bank, blk, page) == bank \in Banks /\ blk \in Blks /\ page \in Pages

Refuse(rc) == reply' = Reply(rc) /\ UNCHANGED log

Write(bank, blk, page, content) ==
    \/ ~Valid(bank, blk, page) /\ Refuse("INVALID")
    \/ /\ Valid(bank, blk, page)
       /\ \/ page < Len(log[bank][blk]) /\ \E rc \in RewriteCodes : Refuse(rc)
          \/ page > Len(log[bank][blk]) /\ Refuse("POSITION")
          \/ /\ page = Len(log[bank][blk])
             /\ log' = [log EXCEPT ![bank][blk] = Append(@, content)]
             /\ reply' = Reply("SUCCESS")

Read(bank, blk, page) ==
    \/ ~Valid(bank, blk, page) /\ Refuse("INVALID")
    \/ /\ Valid(bank, blk, page)
       /\ \/ page >= Len(log[bank][blk]) /\ Refuse("EMPTY")
          \/ /\ page < Len(log[bank][blk])
             /\ reply' = [rc |-> "SUCCESS", page |-> log[bank][blk][page + 1]]
             /\ UNCHANGED log

Unit(blk) == IF EraseUnit = "bank" THEN Blks ELSE {blk}

Erase(bank, blk) ==
    \/ ~Valid(bank, blk, 0) /\ Refuse("INVALID")
    \/ /\ Valid(bank, blk, 0)
       /\ \/ (\A b \in Unit(blk) : log[bank][b] = <<>>) /\ Refuse("EMPTY")
          \/ /\ \E b \in Unit(blk) : log[bank][b] # <<>>
             /\ log' = [log EXCEPT ![bank] =
                          [b \in Blks |-> IF b \in Unit(blk) THEN <<>> ELSE @[b]]]
             /\ reply' = Reply("SUCCESS")

Next ==
    \E bank \in -1 .. N_BANKS, blk \in -1 .. BLKS_PER_BANK :
        \/ Erase(bank, blk)
        \/ \E page \in -1 .. PAGES_PER_BLK :
              \/ Read(bank, blk, page)
              \/ \E content \in Page : Write(bank, blk, page, content)

Spec == Init /\ [][Next]_vars
=============================================================================
