--------------------------- MODULE PageFTL_proofs ---------------------------
(***************************************************************************)
(* The invariants of the page-mapping layer, for every geometry.           *)
(*                                                                         *)
(* IndInv is inductive: it adds to the properties where the written pages  *)
(* of a bank lie (Frontier, FreeBlock, ChipInv) and how far a collection   *)
(* has come (NoMovedPageMapped, GCInv).  Two facts carry the argument.  The *)
(* frontier of a bank is always its block's next position, so every        *)
(* nand_write succeeds (FrontierIsWritable).  And when a bank is full, its *)
(* written pages outnumber its logical pages, so some page is invalid and  *)
(* the victim has one (FullBankHasInvalid, VictimFacts): a collection      *)
(* leaves room for at least one page.                                      *)
(*                                                                         *)
(* With IndInv the layer is a disk (FTLIsADisk): a collection moves pages  *)
(* and changes no sector, and the page that a call packed before it        *)
(* started a collection is still what the call has to write after it       *)
(* (HostInv).                                                              *)
(***************************************************************************)
EXTENDS PageFTL, FiniteSetTheorems, WellFoundedInduction, TLAPS

USE FTLAssumption DEF FTLAssumption

-----------------------------------------------------------------------------
\* Geometry.  Division by a positive number.
LEMMA DivMod ==
    ASSUME NEW P \in Nat \ {0}
    PROVE  /\ \A b \in Nat, p \in 0 .. P - 1 :
                 (b * P + p) \div P = b /\ (b * P + p) % P = p
           /\ \A x \in Nat : /\ x = (x \div P) * P + (x % P)
                             /\ x % P \in 0 .. P - 1
                             /\ x \div P \in Nat
           /\ \A B \in Nat : /\ \A b \in 0 .. B - 1, p \in 0 .. P - 1 : b * P + p \in 0 .. B * P - 1
                             /\ \A x \in 0 .. B * P - 1 : x \div P \in 0 .. B - 1
  <1>1. ASSUME NEW b \in Nat, NEW p \in 0 .. P - 1
        PROVE  (b * P + p) \div P = b /\ (b * P + p) % P = p
    BY <1>1
  <1>2. ASSUME NEW x \in Nat
        PROVE  x = (x \div P) * P + (x % P) /\ x % P \in 0 .. P - 1 /\ x \div P \in Nat
    BY <1>2
  <1>3. ASSUME NEW B \in Nat, NEW b \in 0 .. B - 1, NEW p \in 0 .. P - 1
        PROVE  b * P + p \in 0 .. B * P - 1
    BY <1>3
  <1>4. ASSUME NEW B \in Nat, NEW x \in 0 .. B * P - 1
        PROVE  x \div P \in 0 .. B - 1
    BY <1>4
  <1> QED BY <1>1, <1>2, <1>3, <1>4

\* A page of a bank is the pair of its block and its place in the block.
LEMMA PpnFacts ==
    /\ \A blk \in Blks, page \in Pages :
          /\ Ppn(blk, page) \in Ppns
          /\ BlkOf(Ppn(blk, page)) = blk
          /\ PageOf(Ppn(blk, page)) = page
    /\ \A ppn \in Ppns : /\ BlkOf(ppn) \in Blks
                         /\ PageOf(ppn) \in Pages
                         /\ ppn = Ppn(BlkOf(ppn), PageOf(ppn))
  <1>1. ASSUME NEW blk \in Blks, NEW page \in Pages
        PROVE  /\ Ppn(blk, page) \in Ppns
               /\ BlkOf(Ppn(blk, page)) = blk
               /\ PageOf(Ppn(blk, page)) = page
    <2>1. blk \in Nat /\ page \in 0 .. PAGES_PER_BLK - 1 /\ blk \in 0 .. BLKS_PER_BANK - 1
      BY DEF Blks, Pages
    <2>2. blk * PAGES_PER_BLK + page \in 0 .. BLKS_PER_BANK * PAGES_PER_BLK - 1
      BY <2>1
    <2>3. (blk * PAGES_PER_BLK + page) \div PAGES_PER_BLK = blk
      BY <2>1
    <2>4. (blk * PAGES_PER_BLK + page) % PAGES_PER_BLK = page
      BY <2>1
    <2> QED BY <2>2, <2>3, <2>4 DEF Ppn, BlkOf, PageOf, Ppns
  <1>2. ASSUME NEW ppn \in Ppns
        PROVE  /\ BlkOf(ppn) \in Blks
               /\ PageOf(ppn) \in Pages
               /\ ppn = Ppn(BlkOf(ppn), PageOf(ppn))
    <2>1. ppn \in Nat /\ ppn \in 0 .. BLKS_PER_BANK * PAGES_PER_BLK - 1
      BY DEF Ppns
    <2> QED BY <2>1, DivMod DEF Ppn, BlkOf, PageOf, Blks, Pages
  <1> QED BY <1>1, <1>2

\* ftl.h keeps at least one block besides the free one from the user.
LEMMA Capacity ==
    /\ N_USER_BLOCKS_PB \in 0 .. BLKS_PER_BANK - 2
    /\ N_LPNS_PB \in Nat
    /\ N_LPNS_PB + PAGES_PER_BLK <= (BLKS_PER_BANK - 1) * PAGES_PER_BLK
  <1>1. N_USER_BLOCKS_PB \in 0 .. BLKS_PER_BANK - 2
    BY DEF N_USER_BLOCKS_PB, N_GC_BLOCKS
  <1>2. \A u \in Nat, p \in Nat, b \in Nat : u <= b - 2 => u * p + p <= (b - 1) * p
    OBVIOUS
  <1>3. N_LPNS_PB = N_USER_BLOCKS_PB * PAGES_PER_BLK
    BY DEF N_LPNS_PB
  <1> QED BY <1>1, <1>2, <1>3

\* The bank of the page a call has come to exists.
LEMMA BankType ==
    ASSUME pp \in Nat, req.lba \in Nat
    PROVE  bank \in Banks /\ lpn \in Nat
  <1>1. req.lba \div SECTORS_PER_PAGE \in Nat
    BY DivMod
  <1>2. lpn \in Nat
    BY <1>1 DEF lpn
  <1> QED BY <1>2, DivMod DEF bank, Banks

\* A call on a page of its request is on a logical page of the disk.
LEMMA HalvedLpnType ==
    ASSUME IndInv, req.op # "idle", pp < send_kazu
    PROVE  halved_lpn \in HalvedLpns
  <1> DEFINE last == req.lba + req.nsect - 1
  <1>1. pp \in Nat /\ req.lba \in Nat /\ req.nsect \in Nat
    BY DEF IndInv, TypeOK
  <1>2. req.lba < N_SECTORS /\ req.lba + req.nsect <= N_SECTORS
    BY DEF IndInv, CallInv
  <1>3. N_LPNS_PB \in Nat /\ N_LPNS \in Nat /\ N_LPNS = N_LPNS_PB * N_BANKS
    BY Capacity DEF N_LPNS
  <1>4. lpn \in Nat
    BY <1>1, BankType
  <1>5. lpn <= last \div SECTORS_PER_PAGE
    <2>1. req.lba \div SECTORS_PER_PAGE \in Nat /\ last \div SECTORS_PER_PAGE \in Int
      BY <1>1, DivMod
    <2> QED BY <1>1, <2>1 DEF lpn, send_kazu
  <1>6. lpn \in 0 .. N_LPNS - 1
    <2>1. CASE last = -1
      <3>1. (-1) \div SECTORS_PER_PAGE = -1
        OBVIOUS
      <3> QED BY <1>4, <1>5, <2>1, <3>1
    <2>2. CASE last # -1
      <3>1. last \in 0 .. N_LPNS * SECTORS_PER_PAGE - 1
        BY <1>1, <1>2, <1>3, <2>2 DEF N_SECTORS
      <3>2. last \div SECTORS_PER_PAGE \in 0 .. N_LPNS - 1
        BY <1>3, <3>1, DivMod
      <3> QED BY <1>3, <1>4, <1>5, <3>2
    <2> QED BY <2>1, <2>2
  <1>7. lpn \div N_BANKS \in 0 .. N_LPNS_PB - 1
    BY <1>3, <1>6, DivMod
  <1> QED BY <1>7 DEF halved_lpn, HalvedLpns

-----------------------------------------------------------------------------
\* A successful nand_write, and an nand_read of a written page.
LEMMA NandWriteFacts ==
    ASSUME NEW chip \in Chip, NEW ppn \in Ppns, NEW content \in Page,
           WriteCode(chip, BlkOf(ppn), PageOf(ppn)) = "SUCCESS"
    PROVE  LET new == NandWrite(chip, BlkOf(ppn), PageOf(ppn), content) IN
           /\ new \in Chip
           /\ new.cell = [chip.cell EXCEPT ![ppn] = content]
           /\ new.blk_index = [chip.blk_index EXCEPT ![BlkOf(ppn)] = PageOf(ppn) + 1]
  <1>1. BlkOf(ppn) \in Blks /\ PageOf(ppn) \in Pages /\ Ppn(BlkOf(ppn), PageOf(ppn)) = ppn
    BY PpnFacts
  <1>2. PageOf(ppn) + 1 \in 0 .. PAGES_PER_BLK
    BY <1>1 DEF Pages
  <1> QED BY <1>1, <1>2 DEF NandWrite, Chip

\* The next position of a bank that is not collecting can be written.
LEMMA FrontierIsWritable ==
    ASSUME IndInv, NEW b \in Banks, ~InGC(b), next_ppn[b] < gc_trigger_ppn[b]
    PROVE  /\ next_ppn[b] \in Ppns
           /\ BlkOf(next_ppn[b]) # free_pblk[b]
           /\ ~Written(b, next_ppn[b])
           /\ WriteCode(nand[b], BlkOf(next_ppn[b]), PageOf(next_ppn[b])) = "SUCCESS"
  <1> DEFINE n == next_ppn[b]
             k == nand[b].blk_index[BlkOf(n)]
             q == Ppn(BlkOf(n), k)
  <1>1. n \in Ppns /\ n \in Nat
    <2> DEFINE top == BLKS_PER_BANK * PAGES_PER_BLK
    <2>1. top \in Nat
      OBVIOUS
    <2>2. n \in Ppns \cup {top} /\ gc_trigger_ppn[b] \in Ppns \cup {top}
      BY DEF IndInv, TypeOK
    <2>3. Ppns = 0 .. top - 1
      BY DEF Ppns
    <2> HIDE DEF top
    <2> QED BY <2>1, <2>2, <2>3
  <1>2. BlkOf(n) \in Blks /\ PageOf(n) \in Pages /\ n = Ppn(BlkOf(n), PageOf(n))
    BY <1>1, PpnFacts
  <1>3. gc_trigger_ppn[b] \in Nat
    BY DEF IndInv, TypeOK, Ppns
  <1>4. BlkOf(n) # free_pblk[b]
    BY <1>1, <1>3 DEF IndInv, Frontier
  <1>5. ~Written(b, n)
    BY <1>1, <1>3, <1>4 DEF IndInv, Frontier
  <1>6. k \in 0 .. PAGES_PER_BLK /\ nand[b].cell[n] = Erased
    BY <1>2, <1>5 DEF IndInv, TypeOK, Chip, Written
  <1>7. ~(PageOf(n) < k)
    BY <1>1, <1>5 DEF IndInv, ChipInv
  <1>8. ASSUME k < PageOf(n) PROVE FALSE
    <2>1. k \in Pages
      BY <1>2, <1>6, <1>8 DEF Pages
    <2>2. q \in Ppns /\ BlkOf(q) = BlkOf(n) /\ PageOf(q) = k
      BY <1>2, <2>1, PpnFacts
    <2>3. ~Written(b, q)
      BY <1>6, <2>2 DEF IndInv, ChipInv
    <2>4. n <= q
      BY <1>4, <2>2, <2>3 DEF IndInv, Frontier
    <2>5. BlkOf(n) \in Nat /\ PageOf(n) \in Nat /\ k \in Nat
      BY <1>2, <1>6 DEF Blks, Pages
    <2>6. q < Ppn(BlkOf(n), PageOf(n))
      BY <1>8, <2>5 DEF Ppn
    <2>7. q \in Nat
      BY <2>2 DEF Ppns
    <2> QED BY <1>1, <1>2, <2>4, <2>6, <2>7
  <1>9. k = PageOf(n)
    BY <1>2, <1>6, <1>7, <1>8 DEF Pages
  <1>10. WriteCode(nand[b], BlkOf(n), PageOf(n)) = "SUCCESS"
    BY <1>2, <1>6, <1>9 DEF WriteCode
  <1> QED BY <1>1, <1>4, <1>5, <1>10

-----------------------------------------------------------------------------
\* The invariant holds initially.
LEMMA InitInv == Init => IndInv
  <1> SUFFICES ASSUME Init PROVE IndInv
    OBVIOUS
  <1>1. /\ BLKS_PER_BANK - 1 \in Blks
        /\ (BLKS_PER_BANK - 1) * PAGES_PER_BLK \in Ppns
        /\ 0 \in Ppns /\ 0 \in Blks
    <2>1. BLKS_PER_BANK - 1 \in Blks /\ 0 \in Blks /\ 0 \in Pages
      BY DEF Blks, Pages
    <2>2. Ppn(BLKS_PER_BANK - 1, 0) \in Ppns /\ Ppn(0, 0) \in Ppns
      BY <2>1, PpnFacts
    <2>3. Ppn(BLKS_PER_BANK - 1, 0) = (BLKS_PER_BANK - 1) * PAGES_PER_BLK /\ Ppn(0, 0) = 0
      BY DEF Ppn
    <2> QED BY <2>1, <2>2, <2>3
  <1>2. TypeOK
    <2>1. EmptyBank \in Chip
      BY DEF EmptyBank, Chip
    <2>2. NoGC \in [victim_pblk : Blks, i : 0 .. PAGES_PER_BLK, immigrants_cnt : 0 .. PAGES_PER_BLK]
      BY <1>1 DEF NoGC
    <2>3. data \in [Offsets -> DataWord]
      BY DEF Init, DataWord
    <2> QED BY <1>1, <2>1, <2>2, <2>3 DEF Init, TypeOK, Idle
  <1>3. \A b \in Banks, ppn \in Ppns : ~Written(b, ppn) /\ isValid[b][ppn] = 1
    BY DEF Init, Written, EmptyBank
  <1>4. MappedPagesAreCurrent /\ ValidPagesAreMapped /\ NoMovedPageMapped
    BY <1>3 DEF Init, MappedPagesAreCurrent, ValidPagesAreMapped, NoMovedPageMapped
  <1>5. CollectionReclaims /\ GCInv /\ CallInv
    BY DEF Init, CollectionReclaims, GCInv, CallInv, Idle
  <1>6. ASSUME NEW b \in Banks PROVE Frontier(b)
    <2> DEFINE top == (BLKS_PER_BANK - 1) * PAGES_PER_BLK
    <2>1. next_ppn[b] = 0 /\ gc_trigger_ppn[b] = top /\ free_pblk[b] = BLKS_PER_BANK - 1
      BY DEF Init
    <2>2. top \in Nat
      BY <1>1 DEF Ppns
    <2> DEFINE m == BLKS_PER_BANK - 1
    <2>5. /\ \A blk \in 0 .. m - 1, p \in 0 .. PAGES_PER_BLK - 1 :
                blk * PAGES_PER_BLK + p \in 0 .. m * PAGES_PER_BLK - 1
          /\ \A x \in 0 .. m * PAGES_PER_BLK - 1 : x \div PAGES_PER_BLK \in 0 .. m - 1
      <3>1. m \in Nat
        OBVIOUS
      <3> HIDE DEF m
      <3> QED BY <3>1, DivMod
    <2>3. ASSUME NEW ppn \in 0 .. top - 1 PROVE BlkOf(ppn) # BLKS_PER_BANK - 1
      <3>1. BlkOf(ppn) \in 0 .. (BLKS_PER_BANK - 1) - 1
        BY <2>5, <2>3 DEF BlkOf
      <3> QED BY <3>1
    <2>4. ASSUME NEW ppn \in Ppns, BlkOf(ppn) # BLKS_PER_BANK - 1
          PROVE  0 <= ppn /\ ppn < top
      <3>1. BlkOf(ppn) \in 0 .. m - 1 /\ PageOf(ppn) \in 0 .. PAGES_PER_BLK - 1
        BY <2>4, PpnFacts DEF Blks, Pages
      <3>2. BlkOf(ppn) * PAGES_PER_BLK + PageOf(ppn) \in 0 .. m * PAGES_PER_BLK - 1
        BY <2>5, <3>1
      <3>3. ppn = BlkOf(ppn) * PAGES_PER_BLK + PageOf(ppn)
        BY PpnFacts DEF Ppn
      <3> QED BY <2>2, <3>2, <3>3
    <2> HIDE DEF top
    <2> QED BY <2>1, <2>2, <2>3, <2>4, <1>3 DEF Frontier
  <1>7. ASSUME NEW b \in Banks PROVE FreeBlock(b) /\ ChipInv(b)
    <2>1. \A blk \in Blks : nand[b].blk_index[blk] = 0
      BY DEF Init, EmptyBank
    <2>2. \A ppn \in Ppns : BlkOf(ppn) \in Blks /\ PageOf(ppn) \in Nat
      BY PpnFacts DEF Pages
    <2>3. ~InGC(b)
      BY DEF Init, InGC
    <2> QED BY <1>3, <1>7, <2>1, <2>2, <2>3 DEF FreeBlock, ChipInv
  <1> QED BY <1>2, <1>4, <1>5, <1>6, <1>7 DEF IndInv

-----------------------------------------------------------------------------
\* write_through_lpn after any collection: the new copy is written and mapped
\* and the old one counts as invalid.
LEMMA ProgramStep == IndInv /\ Program => IndInv'
  <1> SUFFICES ASSUME IndInv, Program PROVE IndInv'
    OBVIOUS
  <1> DEFINE b == bank
             l == halved_lpn
             n == next_ppn[b]
             old == L2P[b][l]
             new == [data |-> data, spare |-> l]
  <1>1. TypeOK /\ CallInv
    BY DEF IndInv
  <1>2. pc \in {"program", "write_through"} /\ req.op = "write"
    BY <1>1 DEF Program, AboutToProgram, CallInv, TypeOK
  <1>3. b \in Banks /\ l \in HalvedLpns
    BY <1>1, <1>2, BankType, HalvedLpnType DEF TypeOK, CallInv
  <1>4. \A c \in Banks : ~InGC(c) /\ ~InGC(c)'
    BY <1>2 DEF InGC, Program
  <1>5. n < gc_trigger_ppn[b]
    <2>1. n \in Int /\ gc_trigger_ppn[b] \in Int /\ n <= gc_trigger_ppn[b]
      BY <1>1, <1>3 DEF TypeOK, IndInv, Frontier, Ppns
    <2> QED BY <1>1, <1>2, <2>1 DEF CallInv, Program, AboutToProgram, AtTrigger
  <1>6. /\ n \in Ppns
        /\ BlkOf(n) # free_pblk[b]
        /\ ~Written(b, n)
        /\ WriteCode(nand[b], BlkOf(n), PageOf(n)) = "SUCCESS"
    BY <1>3, <1>4, <1>5, FrontierIsWritable
  <1>7. new \in Page
    BY <1>1, <1>3 DEF TypeOK, Page
  <1>8. nand[b] \in Chip
    BY <1>1, <1>3 DEF TypeOK
  <1>9. /\ NandWrite(nand[b], BlkOf(n), PageOf(n), new) \in Chip
        /\ NandWrite(nand[b], BlkOf(n), PageOf(n), new).cell = [nand[b].cell EXCEPT ![n] = new]
        /\ NandWrite(nand[b], BlkOf(n), PageOf(n), new).blk_index
              = [nand[b].blk_index EXCEPT ![BlkOf(n)] = PageOf(n) + 1]
    BY <1>6, <1>7, <1>8, NandWriteFacts
  <1>10. /\ nand' = [nand EXCEPT ![b] = NandWrite(nand[b], BlkOf(n), PageOf(n), new)]
         /\ L2P' = [L2P EXCEPT ![b][l] = n]
         /\ isValid' = IF old = -1 THEN isValid ELSE [isValid EXCEPT ![b][old] = 0]
         /\ next_ppn' = [next_ppn EXCEPT ![b] = n + 1]
         /\ pc' = "write" /\ pp' = pp + 1
         /\ UNCHANGED <<gc_trigger_ppn, free_pblk, req, data, gc>>
    BY DEF Program, Invalidated
  <1> HIDE DEF b, l, n, old, new
  <1>11. n + 1 \in Ppns \cup {BLKS_PER_BANK * PAGES_PER_BLK}
    BY <1>6 DEF Ppns
  <1>12. old # -1 => old \in Ppns /\ Written(b, old) /\ nand[b].cell[old].spare = l /\ old # n
    BY <1>1, <1>3, <1>6 DEF old, IndInv, MappedPagesAreCurrent, TypeOK
  <1>13. TypeOK'
    <2>1. nand' \in [Banks -> Chip]
      BY <1>1, <1>9, <1>10 DEF TypeOK
    <2>2. L2P' \in [Banks -> [HalvedLpns -> Ppns \cup {-1}]]
      BY <1>1, <1>6, <1>10 DEF TypeOK
    <2>3. isValid' \in [Banks -> [Ppns -> {0, 1}]]
      BY <1>1, <1>10 DEF TypeOK
    <2>4. next_ppn' \in [Banks -> Ppns \cup {BLKS_PER_BANK * PAGES_PER_BLK}]
      BY <1>1, <1>10, <1>11 DEF TypeOK
    <2> QED BY <1>1, <1>10, <2>1, <2>2, <2>3, <2>4 DEF TypeOK
  \* The chip and the page states after the step.
  <1>14. /\ \A c \in Banks, q \in Ppns :
               nand'[c].cell[q] = IF c = b /\ q = n THEN new ELSE nand[c].cell[q]
         /\ \A c \in Banks, q \in Ppns :
               isValid'[c][q] = IF c = b /\ q = old THEN 0 ELSE isValid[c][q]
         /\ \A c \in Banks, m \in HalvedLpns :
               L2P'[c][m] = IF c = b /\ m = l THEN n ELSE L2P[c][m]
         /\ \A c \in Banks, k \in Blks :
               nand'[c].blk_index[k] = IF c = b /\ k = BlkOf(n) THEN PageOf(n) + 1
                                       ELSE nand[c].blk_index[k]
         /\ \A c \in Banks : next_ppn'[c] = IF c = b THEN n + 1 ELSE next_ppn[c]
    <2>1. \A c \in Banks : nand[c] \in Chip
      BY <1>1 DEF TypeOK
    <2>2. \A q \in Ppns : q # -1
      BY DEF Ppns
    <2> QED BY <1>1, <1>3, <1>8, <1>9, <1>10, <2>1, <2>2 DEF TypeOK, Chip
  <1>15. new.spare = l /\ new # Erased
    BY <1>7, ErasedIsNoPage DEF new
  <1>16. \A c \in Banks, q \in Ppns : Written(c, q)' <=> (c = b /\ q = n) \/ Written(c, q)
    BY <1>14, <1>15 DEF Written
  <1>17. isValid[b][n] = 1
    BY <1>1, <1>3, <1>6 DEF IndInv, ChipInv, TypeOK
  <1>18. MappedPagesAreCurrent'
    <2> SUFFICES ASSUME NEW c \in Banks, NEW m \in HalvedLpns, NEW q,
                        L2P'[c][m] = q, q # -1
                 PROVE  /\ Written(c, q)'
                        /\ nand'[c].cell[q].spare = m
                        /\ isValid'[c][q] = 1
      BY DEF MappedPagesAreCurrent, Written
    <2>1. CASE c = b /\ m = l
      <3>1. q = n
        BY <1>3, <1>14, <2>1
      <3>4. Written(c, q)' /\ nand'[c].cell[q].spare = m
        BY <1>3, <1>6, <1>14, <1>15, <1>16, <2>1, <3>1
      <3>2. n # old
        BY <1>6, <1>12 DEF Ppns
      <3>3. isValid'[c][n] = 1
        BY <1>3, <1>6, <1>14, <1>17, <2>1, <3>2
      <3> QED BY <3>1, <3>3, <3>4
    <2>2. CASE ~(c = b /\ m = l)
      <3>1. L2P[c][m] = q /\ q \in Ppns
        BY <1>1, <1>14, <2>2 DEF TypeOK
      <3>2. Written(c, q) /\ nand[c].cell[q].spare = m /\ isValid[c][q] = 1
        BY <3>1 DEF IndInv, MappedPagesAreCurrent, Ppns
      <3>3. ~(c = b /\ q = n) /\ ~(c = b /\ q = old)
        BY <1>6, <1>12, <2>2, <3>1, <3>2 DEF Ppns
      <3>4. Written(c, q)'
        BY <1>16, <3>1, <3>2
      <3> QED BY <1>14, <3>1, <3>2, <3>3, <3>4
    <2> QED BY <2>1, <2>2
  <1>19. ValidPagesAreMapped'
    <2>1. \A c \in Banks, q \in Ppns : ~Moved(c, q) /\ ~Moved(c, q)'
      BY <1>4 DEF Moved
    <2>2. ASSUME NEW c \in Banks, NEW q \in Ppns, Written(c, q), q # n \/ c # b
          PROVE  nand[c].cell[q].spare \in HalvedLpns
      BY <1>1, <2>2 DEF TypeOK, Chip, Written, Page
    <2>3. SUFFICES ASSUME NEW c \in Banks, NEW q \in Ppns, Written(c, q)', isValid'[c][q] = 1
                   PROVE  L2P'[c][nand'[c].cell[q].spare] = q
      BY <2>1 DEF ValidPagesAreMapped
    <2>4. CASE c = b /\ q = n
      BY <1>3, <1>14, <1>15, <2>4
    <2>5. CASE ~(c = b /\ q = n)
      <3>1. Written(c, q) /\ isValid[c][q] = 1 /\ ~(c = b /\ q = old)
        BY <1>14, <1>16, <2>3, <2>5
      <3>2. L2P[c][nand[c].cell[q].spare] = q
        BY <2>1, <3>1 DEF IndInv, ValidPagesAreMapped
      <3>3. ~(c = b /\ nand[c].cell[q].spare = l)
        BY <3>1, <3>2 DEF old
      <3> QED BY <1>14, <2>2, <2>5, <3>1, <3>2, <3>3
    <2> QED BY <2>4, <2>5
  <1>20. ASSUME NEW c \in Banks PROVE Frontier(c)'
    <2>1. Frontier(c) /\ next_ppn[c] \in Int /\ gc_trigger_ppn[c] \in Int
      BY <1>1 DEF IndInv, TypeOK, Ppns
    <2>2. \A q \in Ppns : q \in Int
      BY DEF Ppns
    <2>3. gc_trigger_ppn' = gc_trigger_ppn /\ free_pblk' = free_pblk
      BY <1>10
    <2>4. CASE c # b
      BY <1>14, <1>16, <2>1, <2>3, <2>4 DEF Frontier
    <2>5. CASE c = b
      <3>1. next_ppn[c] = n /\ next_ppn'[c] = n + 1 /\ n \in Int
        BY <1>14, <2>1, <2>5 DEF n
      <3> QED BY <1>5, <1>6, <1>16, <2>1, <2>2, <2>3, <2>5, <3>1 DEF Frontier
    <2> QED BY <2>4, <2>5
  <1>21. ASSUME NEW c \in Banks PROVE FreeBlock(c)'
    BY <1>4, <1>6, <1>10, <1>12, <1>14, <1>16, <1>21 DEF IndInv, FreeBlock
  <1>22. ASSUME NEW c \in Banks PROVE ChipInv(c)'
    <2>1. ChipInv(c)
      BY DEF IndInv
    <2>2. \A q \in Ppns : /\ BlkOf(q) \in Blks /\ PageOf(q) \in Nat
                          /\ BlkOf(q) = BlkOf(n) /\ PageOf(q) = PageOf(n) => q = n
      BY <1>6, PpnFacts DEF Pages
    <2>3. nand[b].blk_index[BlkOf(n)] = PageOf(n)
      BY <1>6 DEF WriteCode
    <2>4. ASSUME NEW q \in Ppns, isValid'[c][q] = 0 PROVE Written(c, q)'
      <3>1. CASE c = b /\ q = old
        BY <1>3, <1>12, <1>16, <2>4, <3>1 DEF Ppns
      <3>2. CASE ~(c = b /\ q = old)
        <4>1. isValid[c][q] = 0
          BY <1>14, <2>4, <3>2
        <4> QED BY <1>16, <2>1, <4>1 DEF ChipInv
      <3> QED BY <3>1, <3>2
    <2>5. ASSUME NEW q \in Ppns
          PROVE  Written(c, q)' <=> PageOf(q) < nand'[c].blk_index[BlkOf(q)]
      <3>1. BlkOf(q) \in Blks /\ PageOf(q) \in Int /\ PageOf(n) \in Int
        BY <1>6, PpnFacts DEF Pages
      <3>2. Written(c, q) <=> PageOf(q) < nand[c].blk_index[BlkOf(q)]
        BY <2>1 DEF ChipInv
      <3>3. CASE c = b /\ BlkOf(q) = BlkOf(n)
        <4>1. nand'[c].blk_index[BlkOf(q)] = PageOf(n) + 1
          BY <1>14, <3>1, <3>3
        <4>2. q = n <=> PageOf(q) = PageOf(n)
          BY <2>2, <3>1, <3>3, PpnFacts DEF Pages
        <4> QED BY <1>16, <2>3, <3>1, <3>2, <3>3, <4>1, <4>2
      <3>4. CASE ~(c = b /\ BlkOf(q) = BlkOf(n))
        BY <1>14, <1>16, <3>1, <3>2, <3>4
      <3> QED BY <3>3, <3>4
    <2> QED BY <2>4, <2>5 DEF ChipInv
  <1>23. CollectionReclaims' /\ NoMovedPageMapped' /\ GCInv'
    BY <1>4, <1>10 DEF CollectionReclaims, NoMovedPageMapped, GCInv, Moved
  <1>24. CallInv'
    BY <1>1, <1>2, <1>10 DEF CallInv
  <1> QED BY <1>13, <1>18, <1>19, <1>20, <1>21, <1>22, <1>23, <1>24 DEF IndInv

-----------------------------------------------------------------------------
\* The pages of a block are an interval.
LEMMA BlockInterval ==
    ASSUME NEW f \in Blks
    PROVE  /\ f * PAGES_PER_BLK \in Nat
           /\ f * PAGES_PER_BLK + PAGES_PER_BLK <= BLKS_PER_BANK * PAGES_PER_BLK
           /\ \A q \in Nat : BlkOf(q) = f <=>
                 f * PAGES_PER_BLK <= q /\ q < f * PAGES_PER_BLK + PAGES_PER_BLK
           /\ \A q \in Ppns : BlkOf(q) = f => q = f * PAGES_PER_BLK + PageOf(q)
           /\ Ppn(f, PAGES_PER_BLK) = f * PAGES_PER_BLK + PAGES_PER_BLK
  <1>1. f \in Nat /\ f + 1 <= BLKS_PER_BANK
    BY DEF Blks
  <1>2. f * PAGES_PER_BLK \in Nat
    BY <1>1
  <1>3. f * PAGES_PER_BLK + PAGES_PER_BLK <= BLKS_PER_BANK * PAGES_PER_BLK
    BY <1>1
  <1>4. ASSUME NEW q \in Nat, BlkOf(q) = f
        PROVE  f * PAGES_PER_BLK <= q /\ q < f * PAGES_PER_BLK + PAGES_PER_BLK
    <2>1. q = f * PAGES_PER_BLK + (q % PAGES_PER_BLK) /\ q % PAGES_PER_BLK \in 0 .. PAGES_PER_BLK - 1
      BY <1>4, DivMod DEF BlkOf
    <2> QED BY <1>2, <2>1
  <1>5. ASSUME NEW q \in Nat, f * PAGES_PER_BLK <= q, q < f * PAGES_PER_BLK + PAGES_PER_BLK
        PROVE  BlkOf(q) = f
    <2> DEFINE p == q - f * PAGES_PER_BLK
    <2>1. p \in 0 .. PAGES_PER_BLK - 1 /\ q = f * PAGES_PER_BLK + p
      BY <1>2, <1>5
    <2> HIDE DEF p
    <2>2. (f * PAGES_PER_BLK + p) \div PAGES_PER_BLK = f
      BY <1>1, <2>1, DivMod
    <2> QED BY <2>1, <2>2 DEF BlkOf
  <1>6. \A q \in Ppns : BlkOf(q) = f => q = f * PAGES_PER_BLK + PageOf(q)
    BY PpnFacts DEF Ppn
  <1> QED BY <1>2, <1>3, <1>4, <1>5, <1>6 DEF Ppn

\* Over-provisioning: the written blocks of a full bank have more pages than
\* there are logical pages, so one of the pages is invalid.
LEMMA FullBankHasInvalid ==
    ASSUME IndInv, NEW b \in Banks, ~InGC(b), next_ppn[b] = gc_trigger_ppn[b]
    PROVE  \E ppn \in Ppns : isValid[b][ppn] = 0
  <1> SUFFICES ASSUME \A ppn \in Ppns : isValid[b][ppn] # 0 PROVE FALSE
    OBVIOUS
  <1> DEFINE free == free_pblk[b]
             Free == free * PAGES_PER_BLK .. free * PAGES_PER_BLK + PAGES_PER_BLK - 1
             Full == {ppn \in Ppns : BlkOf(ppn) # free}
             f == [ppn \in Full |-> nand[b].cell[ppn].spare]
  <1>1. free \in Blks /\ free * PAGES_PER_BLK \in Nat
    BY BlockInterval DEF IndInv, TypeOK
  <1>2. \A ppn \in Ppns : ppn \in Nat
    BY DEF Ppns
  <1>3. ASSUME NEW ppn \in Full
        PROVE  f[ppn] \in HalvedLpns /\ L2P[b][f[ppn]] = ppn
    <2>1. Written(b, ppn)
      <3>1. next_ppn[b] \in Int
        BY DEF IndInv, TypeOK, Ppns
      <3> QED BY <1>2, <3>1 DEF IndInv, Frontier
    <2>2. isValid[b][ppn] = 1
      BY DEF IndInv, TypeOK
    <2>3. ~Moved(b, ppn)
      BY DEF Moved
    <2>4. L2P[b][nand[b].cell[ppn].spare] = ppn
      BY <2>1, <2>2, <2>3 DEF IndInv, ValidPagesAreMapped
    <2>5. nand[b].cell[ppn] \in Page
      BY <2>1 DEF IndInv, TypeOK, Chip, Written
    <2> QED BY <2>4, <2>5 DEF Page
  <1>4. f \in Injection(Full, HalvedLpns)
    <2>1. f \in [Full -> HalvedLpns] /\ DOMAIN f = Full
      BY <1>3
    <2>2. \A x, y \in Full : f[x] = f[y] => x = y
      <3> HIDE DEF f, Full
      <3> QED BY <1>3
    <2> HIDE DEF f, Full
    <2> QED BY <2>1, <2>2 DEF Injection, IsInjective
  <1>5. IsFiniteSet(HalvedLpns) /\ Cardinality(HalvedLpns) = N_LPNS_PB
    <2>1. N_LPNS_PB \in Nat /\ N_LPNS_PB - 1 \in Int
      BY Capacity
    <2>2. /\ IsFiniteSet(0 .. N_LPNS_PB - 1)
          /\ Cardinality(0 .. N_LPNS_PB - 1)
                = IF 0 > N_LPNS_PB - 1 THEN 0 ELSE N_LPNS_PB - 1 - 0 + 1
      BY <2>1, FS_Interval
    <2> QED BY <2>1, <2>2 DEF HalvedLpns
  <1>6. Cardinality(Full) <= N_LPNS_PB
    BY <1>4, <1>5, FS_Injection
  <1>7. IsFiniteSet(Ppns) /\ Cardinality(Ppns) = BLKS_PER_BANK * PAGES_PER_BLK
    <2> DEFINE top == BLKS_PER_BANK * PAGES_PER_BLK
    <2>1. top \in Nat \ {0}
      OBVIOUS
    <2>2. Ppns = 0 .. top - 1
      BY DEF Ppns
    <2> HIDE DEF top
    <2>3. IsFiniteSet(0 .. top - 1) /\ Cardinality(0 .. top - 1) = top
      BY <2>1, FS_Interval
    <2> QED BY <2>2, <2>3 DEF top
  <1>8. Cardinality(Free) = PAGES_PER_BLK
    <2> DEFINE lo == free * PAGES_PER_BLK
    <2>1. lo \in Int /\ lo + PAGES_PER_BLK - 1 \in Int
      BY <1>1
    <2> HIDE DEF lo
    <2>2. Cardinality(lo .. lo + PAGES_PER_BLK - 1) = PAGES_PER_BLK
      BY <2>1, FS_Interval
    <2> QED BY <2>2 DEF lo
  <1>9. Ppns \cap Free = Free /\ Full = Ppns \ Free
    <2> DEFINE lo == free * PAGES_PER_BLK
               top == BLKS_PER_BANK * PAGES_PER_BLK
    <2>1. lo \in Nat /\ top \in Nat /\ lo + PAGES_PER_BLK <= top
      BY <1>1, BlockInterval
    <2>2. \A q \in Nat : BlkOf(q) = free <=> lo <= q /\ q < lo + PAGES_PER_BLK
      BY <1>1, BlockInterval
    <2>3. Ppns = 0 .. top - 1 /\ Free = lo .. lo + PAGES_PER_BLK - 1
      BY DEF Ppns
    <2> HIDE DEF lo, top, Free, free
    <2>4. Ppns \cap Free = Free
      BY <2>1, <2>3
    <2>5. \A q \in Ppns : BlkOf(q) = free <=> q \in Free
      BY <2>1, <2>2, <2>3
    <2> QED BY <2>4, <2>5
  <1>10. Cardinality(Full) = BLKS_PER_BANK * PAGES_PER_BLK - PAGES_PER_BLK
    <2>1. Cardinality(Ppns \ Free) = Cardinality(Ppns) - Cardinality(Ppns \cap Free)
      BY <1>7, FS_Difference
    <2> QED BY <1>7, <1>8, <1>9, <2>1
  <1>11. (BLKS_PER_BANK - 1) * PAGES_PER_BLK = BLKS_PER_BANK * PAGES_PER_BLK - PAGES_PER_BLK
    OBVIOUS
  <1>12. BLKS_PER_BANK * PAGES_PER_BLK - PAGES_PER_BLK \in Int
    OBVIOUS
  <1> HIDE DEF Full
  <1> QED BY <1>6, <1>10, <1>11, <1>12, Capacity

\* A non-empty set of numbers has a least element.
LEMMA LeastNat ==
    ASSUME NEW T \in SUBSET Nat, T # {}
    PROVE  \E m \in T : \A k \in T : m <= k
  <1>1. PICK m \in T : \A y \in T : ~(<<y, m>> \in OpToRel(<, Nat))
    <2> DEFINE R == OpToRel(<, Nat)
    <2>1. IsWellFoundedOn(R, Nat)
      BY NatLessThanWellFounded
    <2> HIDE DEF R
    <2> QED BY <2>1, WFMin DEF R
  <1>2. \A y \in T : ~(y < m)
    BY <1>1 DEF OpToRel
  <1> QED BY <1>2

\* The victim has as many invalid pages as any block, hence one if there is one
\* at all, and is not the free block, which has none.
LEMMA VictimFacts ==
    ASSUME IndInv, NEW b \in Banks, ~InGC(b), NEW ppn \in Ppns, isValid[b][ppn] = 0
    PROVE  /\ get_victim_pblk(b) \in Blks
           /\ get_victim_pblk(b) # free_pblk[b]
           /\ \E page \in Pages : isValid[b][Ppn(get_victim_pblk(b), page)] = 0
  <1> DEFINE Inv(blk) == {page \in Pages : isValid[b][Ppn(blk, page)] = 0}
             count(blk) == InvalidCount(b, blk)
             Best(v) == \A blk \in Blks : \/ count(blk) < count(v)
                                          \/ count(blk) = count(v) /\ v <= blk
  <1>1. IsFiniteSet(Pages) /\ Cardinality(Pages) = PAGES_PER_BLK
    BY FS_Interval DEF Pages
  <1>2. ASSUME NEW blk \in Blks
        PROVE  /\ count(blk) \in 0 .. PAGES_PER_BLK
               /\ count(blk) = 0 <=> Inv(blk) = {}
    <2>1. Inv(blk) \in SUBSET Pages
      OBVIOUS
    <2>2. IsFiniteSet(Inv(blk)) /\ Cardinality(Inv(blk)) <= PAGES_PER_BLK
      BY <1>1, <2>1, FS_Subset
    <2>3. Cardinality(Inv(blk)) \in Nat /\ (Cardinality(Inv(blk)) = 0 <=> Inv(blk) = {})
      BY <2>2, FS_CardinalityType, FS_EmptySet
    <2>4. count(blk) = Cardinality(Inv(blk))
      BY DEF InvalidCount
    <2> HIDE DEF Inv
    <2> QED BY <2>2, <2>3, <2>4
  <1> HIDE DEF count
  <1>3. \E v \in Blks : Best(v)
    <2> DEFINE S == {PAGES_PER_BLK - count(blk) : blk \in Blks}
    <2>1. S \in SUBSET Nat
      BY <1>2
    <2>2. PAGES_PER_BLK - count(0) \in S
      BY DEF Blks
    <2>3. PICK m \in S : \A k \in S : m <= k
      <3> HIDE DEF S
      <3> QED BY <2>1, <2>2, LeastNat
    <2>4. PICK top \in Blks : m = PAGES_PER_BLK - count(top)
      BY <2>3
    <2>5. ASSUME NEW blk \in Blks PROVE count(blk) <= count(top)
      <3>1. PAGES_PER_BLK - count(blk) \in S
        OBVIOUS
      <3>2. m <= PAGES_PER_BLK - count(blk)
        BY <2>3, <3>1
      <3> HIDE DEF S
      <3>3. count(blk) \in Nat /\ count(top) \in Nat
        BY <1>2
      <3> QED BY <2>4, <3>2, <3>3
    <2> DEFINE T == {blk \in Blks : count(blk) = count(top)}
    <2>6. T \in SUBSET Nat /\ top \in T
      BY DEF Blks
    <2>7. PICK v \in T : \A k \in T : v <= k
      <3> HIDE DEF T
      <3> QED BY <2>6, LeastNat
    <2>8. v \in Blks /\ count(v) = count(top) /\ \A blk \in Blks : count(blk) = count(v) => v <= blk
      BY <2>7
    <2> QED BY <1>2, <2>5, <2>8
  <1>4. get_victim_pblk(b) = CHOOSE v \in Blks : Best(v)
    BY DEF get_victim_pblk, count
  <1>5. get_victim_pblk(b) \in Blks /\ Best(get_victim_pblk(b))
    <2> HIDE DEF Best
    <2> QED BY <1>3, <1>4
  <1>6. BlkOf(ppn) \in Blks /\ PageOf(ppn) \in Inv(BlkOf(ppn))
    BY PpnFacts
  <1>7. count(BlkOf(ppn)) > 0
    BY <1>2, <1>6
  <1>8. count(get_victim_pblk(b)) > 0
    BY <1>2, <1>5, <1>6, <1>7
  <1>9. PICK page \in Pages : isValid[b][Ppn(get_victim_pblk(b), page)] = 0
    BY <1>2, <1>5, <1>8
  <1>10. get_victim_pblk(b) # free_pblk[b]
    BY <1>5, <1>9, PpnFacts DEF IndInv, FreeBlock
  <1> QED BY <1>5, <1>9, <1>10

-----------------------------------------------------------------------------
\* What every step that leaves the tables of a bank alone has to show.
LEMMA TablesUnchanged ==
    ASSUME IndInv, UNCHANGED ftlVars, \A c \in Banks : ~InGC(c), \A c \in Banks : ~InGC(c)',
           TypeOK', CallInv', pc' # "gc"
    PROVE  IndInv'
  <1>1. \A c \in Banks, q \in Ppns : ~Moved(c, q) /\ ~Moved(c, q)'
    BY DEF Moved
  <1>2. MappedPagesAreCurrent' /\ ValidPagesAreMapped'
    BY <1>1 DEF IndInv, MappedPagesAreCurrent, ValidPagesAreMapped, ftlVars, Written
  <1>3. CollectionReclaims' /\ GCInv'
    BY DEF CollectionReclaims, GCInv
  <1>4. \A c \in Banks : Frontier(c)' /\ FreeBlock(c)' /\ ChipInv(c)'
    BY DEF IndInv, Frontier, FreeBlock, ChipInv, ftlVars, Written
  <1>5. NoMovedPageMapped'
    BY DEF NoMovedPageMapped, Moved
  <1> QED BY <1>2, <1>3, <1>4, <1>5 DEF IndInv

\* The driver submits a call: the tables stay as they are.
LEMMA SubmitStep == IndInv /\ Submit => IndInv'
  <1> SUFFICES ASSUME IndInv, Submit PROVE IndInv'
    OBVIOUS
  <1>1. PICK lba \in 0 .. N_SECTORS - 1, nsect \in 0 .. MaxSect :
           /\ lba + nsect <= N_SECTORS
           /\ \/ /\ req' = [op |-> "read", lba |-> lba, nsect |-> nsect, buf |-> <<>>]
                 /\ pc' = "read"
              \/ \E buf \in [SectorsFrom(lba, nsect) -> Word] :
                 /\ req' = [op |-> "write", lba |-> lba, nsect |-> nsect, buf |-> buf]
                 /\ pc' = "write"
    BY DEF Submit
  <1>2. N_SECTORS \in Nat /\ lba \in Nat /\ nsect \in Nat /\ lba < N_SECTORS
    <2>1. N_SECTORS \in Nat
      BY Capacity DEF N_SECTORS, N_LPNS
    <2> QED BY <2>1
  <1>3. UNCHANGED <<ftlVars, pp, data, gc>> /\ pc = "idle"
    BY DEF Submit
  <1>4. TypeOK'
    <2>1. /\ req'.op \in {"read", "write"} /\ req'.lba = lba /\ req'.nsect = nsect
          /\ req'.op = "write" => req'.buf \in [SectorsFrom(lba, nsect) -> Word]
          /\ pc' \in {"read", "write"}
      BY <1>1
    <2> QED BY <1>2, <1>3, <2>1 DEF IndInv, TypeOK, ftlVars
  <1>5. CallInv'
    BY <1>1, <1>2 DEF CallInv
  <1>6. pc' # "gc" /\ \A c \in Banks : ~InGC(c) /\ ~InGC(c)'
    BY <1>1, <1>3 DEF InGC
  <1> QED BY <1>3, <1>4, <1>5, <1>6, TablesUnchanged

\* A call returns: the tables stay as they are.
LEMMA ReturnStep == IndInv /\ Return => IndInv'
  <1> SUFFICES ASSUME IndInv, Return PROVE IndInv'
    OBVIOUS
  <1>1. TypeOK'
    <2>1. data' \in [Offsets -> DataWord]
      BY DEF Return, DataWord
    <2> QED BY <2>1 DEF IndInv, TypeOK, Return, Idle, ftlVars
  <1>2. CallInv'
    BY DEF Return, CallInv, Idle
  <1>3. pc' # "gc" /\ \A c \in Banks : ~InGC(c) /\ ~InGC(c)'
    BY DEF Return, InGC
  <1> QED BY <1>1, <1>2, <1>3, TablesUnchanged DEF Return

\* A page read from the chip is words.
LEMMA ReadPageType ==
    ASSUME TypeOK, NEW c \in Banks, NEW ppn \in Ppns, NEW buffer \in [Offsets -> DataWord]
    PROVE  ReadPage(c, ppn, buffer) \in [Offsets -> DataWord]
  <1>1. BlkOf(ppn) \in Blks /\ PageOf(ppn) \in Pages /\ Ppn(BlkOf(ppn), PageOf(ppn)) = ppn
    BY PpnFacts
  <1>2. nand[c].cell[ppn] \in Page \cup {Erased}
    BY DEF TypeOK, Chip
  <1>3. CASE nand[c].cell[ppn] = Erased
    BY <1>1, <1>3 DEF ReadPage, NandRead, ReadCode
  <1>4. CASE nand[c].cell[ppn] # Erased
    BY <1>1, <1>2, <1>4 DEF ReadPage, NandRead, ReadCode, Page
  <1> QED BY <1>3, <1>4

\* ftl_read changes no table.
LEMMA FetchPageStep == IndInv /\ FetchPage => IndInv'
  <1> SUFFICES ASSUME IndInv, FetchPage PROVE IndInv'
    OBVIOUS
  <1>1. TypeOK /\ pc = "read" /\ req.op = "read" /\ pp < send_kazu
    BY DEF IndInv, CallInv, FetchPage
  <1>2. bank \in Banks /\ halved_lpn \in HalvedLpns
    BY <1>1, BankType, HalvedLpnType DEF TypeOK
  <1>3. data' \in [Offsets -> DataWord]
    <2>1. CASE L2P[bank][halved_lpn] = -1
      BY <1>1, <2>1 DEF FetchPage, TypeOK
    <2>2. CASE L2P[bank][halved_lpn] # -1
      BY <1>1, <1>2, <2>2, ReadPageType DEF FetchPage, TypeOK
    <2> QED BY <2>1, <2>2
  <1>4. TypeOK'
    BY <1>1, <1>3 DEF TypeOK, FetchPage, ftlVars
  <1>5. CallInv'
    BY <1>1 DEF IndInv, CallInv, FetchPage
  <1>6. pc' # "gc" /\ \A c \in Banks : ~InGC(c) /\ ~InGC(c)'
    BY DEF FetchPage, InGC
  <1> QED BY <1>4, <1>5, <1>6, TablesUnchanged DEF FetchPage

\* Packing a page changes no table either.
LEMMA PackPageStep == IndInv /\ PackPage => IndInv'
  <1> SUFFICES ASSUME IndInv, PackPage PROVE IndInv'
    OBVIOUS
  <1> DEFINE ppn == L2P[bank][halved_lpn]
             old == IF ppn = -1 THEN [i \in Offsets |-> Blank] ELSE ReadPage(bank, ppn, data)
  <1>1. TypeOK /\ pc = "write" /\ req.op = "write" /\ pp < send_kazu
    BY DEF IndInv, CallInv, TypeOK, PackPage
  <1>2. bank \in Banks /\ halved_lpn \in HalvedLpns
    BY <1>1, BankType, HalvedLpnType DEF TypeOK
  <1>3. old \in [Offsets -> DataWord]
    <2>1. ppn = -1 \/ ppn \in Ppns
      BY <1>1, <1>2 DEF TypeOK
    <2>2. CASE ppn = -1
      BY <2>2 DEF DataWord
    <2>3. CASE ppn # -1
      BY <1>1, <1>2, <2>1, <2>3, ReadPageType DEF TypeOK
    <2> QED BY <2>2, <2>3
  <1>4. data' = [i \in Offsets |-> IF InRequest(i) THEN req.buf[LbaAt(i)] ELSE old[i]]
    BY DEF PackPage, OldContents
  <1> HIDE DEF ppn, old
  <1>5. \A i \in Offsets : InRequest(i) => req.buf[LbaAt(i)] \in DataWord
    BY <1>1 DEF TypeOK, InRequest, DataWord
  <1>6. data' \in [Offsets -> DataWord]
    BY <1>3, <1>4, <1>5
  <1>7. TypeOK'
    BY <1>1, <1>6 DEF TypeOK, PackPage, ftlVars
  <1>8. CallInv'
    <2>1. send_kazu' = send_kazu
      BY DEF PackPage, send_kazu
    <2> QED BY <1>1, <2>1 DEF IndInv, CallInv, PackPage
  <1>9. pc' # "gc" /\ \A c \in Banks : ~InGC(c) /\ ~InGC(c)'
    BY DEF PackPage, InGC
  <1> QED BY <1>7, <1>8, <1>9, TablesUnchanged DEF PackPage

-----------------------------------------------------------------------------
\* garbage_collection.  The bank of the request does not change under way.
LEMMA SameBank ==
    ASSUME UNCHANGED <<req, pp>>
    PROVE  bank' = bank /\ halved_lpn' = halved_lpn /\ send_kazu' = send_kazu
  BY DEF bank, halved_lpn, lpn, send_kazu

\* The bank is full: the victim has an invalid page and is not the free block.
LEMMA GCStartStep == IndInv /\ GCStart => IndInv'
  <1> SUFFICES ASSUME IndInv, GCStart PROVE IndInv'
    OBVIOUS
  <1> DEFINE b == bank
             victim == get_victim_pblk(b)
  <1>1. TypeOK /\ CallInv /\ pc = "write_through" /\ req.op = "write" /\ pp < send_kazu
    BY DEF IndInv, CallInv, TypeOK, GCStart
  <1>2. b \in Banks /\ \A c \in Banks : ~InGC(c)
    BY <1>1, BankType DEF TypeOK, InGC
  <1>3. PICK bad \in Ppns : isValid[b][bad] = 0
    BY <1>2, FullBankHasInvalid DEF GCStart, AtTrigger
  <1>4. /\ victim \in Blks
        /\ victim # free_pblk[b]
        /\ \E page \in Pages : isValid[b][Ppn(victim, page)] = 0
    BY <1>2, <1>3, VictimFacts
  <1>5. /\ gc' = [victim_pblk |-> victim, i |-> 0, immigrants_cnt |-> 0]
        /\ pc' = "gc"
        /\ UNCHANGED <<ftlVars, req, pp, data>>
    BY DEF GCStart
  <1>6. bank' = b /\ send_kazu' = send_kazu
    BY <1>5, SameBank
  <1> HIDE DEF b, victim
  <1>7. \A c \in Banks, q \in Ppns : ~Moved(c, q) /\ ~Moved(c, q)'
    <2>1. \A q \in Ppns : PageOf(q) \in Nat
      BY PpnFacts DEF Pages
    <2> QED BY <1>2, <1>5, <2>1 DEF Moved
  <1>8. TypeOK'
    BY <1>1, <1>4, <1>5 DEF TypeOK, ftlVars
  <1>9. MappedPagesAreCurrent' /\ ValidPagesAreMapped'
    BY <1>5, <1>7 DEF IndInv, MappedPagesAreCurrent, ValidPagesAreMapped, ftlVars, Written
  <1>10. CollectionReclaims'
    BY <1>4, <1>5, <1>6 DEF CollectionReclaims, ftlVars
  <1>11. ASSUME NEW c \in Banks PROVE Frontier(c)' /\ FreeBlock(c)' /\ ChipInv(c)'
    <2>1. Frontier(c)' /\ ChipInv(c)'
      BY <1>5 DEF IndInv, Frontier, ChipInv, ftlVars, Written
    <2>2. \A q \in Ppns : ~(PageOf(q) < 0)
      BY PpnFacts DEF Pages
    <2> QED BY <1>2, <1>5, <2>1, <2>2 DEF IndInv, FreeBlock, ftlVars, Written
  <1>12. NoMovedPageMapped'
    BY <1>7, <1>8 DEF NoMovedPageMapped, TypeOK
  <1>13. GCInv'
    BY <1>5, <1>6 DEF GCInv, GCStart, AtTrigger, ftlVars, b
  <1>14. CallInv'
    BY <1>1, <1>5, <1>6 DEF CallInv
  <1> QED BY <1>8, <1>9, <1>10, <1>11, <1>12, <1>13, <1>14 DEF IndInv

\* The state of a collection about to look at a page of its victim.
LEMMA GCFacts ==
    ASSUME IndInv, pc = "gc"
    PROVE  LET b == bank
               free == free_pblk[b]
               cnt == gc.immigrants_cnt
           IN  /\ b \in Banks /\ InGC(b) /\ req.op = "write"
               /\ gc.victim_pblk \in Blks /\ free \in Blks /\ gc.victim_pblk # free
               /\ gc.i \in 0 .. PAGES_PER_BLK /\ cnt \in 0 .. gc.i
               /\ \A q \in Ppns : BlkOf(q) # free => Written(b, q)
               /\ nand[b].blk_index[free] = cnt
               /\ cnt < PAGES_PER_BLK
  <1> DEFINE b == bank
             free == free_pblk[b]
             cnt == gc.immigrants_cnt
             k == nand[b].blk_index[free]
  <1>1. TypeOK /\ CallInv /\ GCInv /\ CollectionReclaims
    BY DEF IndInv
  <1>2. b \in Banks /\ InGC(b) /\ req.op = "write"
    BY <1>1, BankType DEF TypeOK, CallInv, InGC
  <1>3. /\ gc.victim_pblk \in Blks /\ free \in Blks /\ gc.victim_pblk # free
        /\ gc.i \in 0 .. PAGES_PER_BLK /\ cnt \in 0 .. gc.i
    BY <1>1, <1>2 DEF TypeOK, CollectionReclaims, GCInv
  <1>4. ASSUME NEW q \in Ppns, BlkOf(q) # free PROVE Written(b, q)
    <2>1. next_ppn[b] = gc_trigger_ppn[b] /\ next_ppn[b] \in Int /\ q \in Int
      BY <1>1, <1>2 DEF GCInv, TypeOK, Ppns
    <2> QED BY <1>2, <1>4, <2>1 DEF IndInv, Frontier
  <1>5. cnt < PAGES_PER_BLK
    <2> SUFFICES ASSUME cnt = PAGES_PER_BLK PROVE FALSE
      BY <1>3
    <2>1. PICK page \in Pages : isValid[b][Ppn(gc.victim_pblk, page)] = 0
      BY <1>1 DEF CollectionReclaims
    <2>2. gc.i = PAGES_PER_BLK /\ page \in 0 .. gc.i - 1
      BY <1>3 DEF Pages
    <2> QED BY <1>1, <2>1, <2>2 DEF GCInv
  <1>6. k = cnt
    <2>1. k \in 0 .. PAGES_PER_BLK
      BY <1>1, <1>2, <1>3 DEF TypeOK, Chip
    <2>2. ASSUME NEW page \in Pages PROVE page < cnt <=> page < k
      <3>1. /\ Ppn(free, page) \in Ppns
            /\ BlkOf(Ppn(free, page)) = free /\ PageOf(Ppn(free, page)) = page
        BY <1>3, PpnFacts
      <3> QED BY <1>2, <3>1 DEF IndInv, FreeBlock, ChipInv
    <2>3. cnt \in Pages /\ (k = PAGES_PER_BLK \/ k \in Pages)
      BY <1>3, <1>5, <2>1 DEF Pages
    <2> QED BY <1>3, <2>1, <2>2, <2>3 DEF Pages
  <1> QED BY <1>2, <1>3, <1>4, <1>5, <1>6

\* One round of the copying loop.  An invalid page is skipped; a valid one is
\* the mapped copy of its logical page, which now maps to the page in the free
\* block.
LEMMA GCCopyStep == IndInv /\ GCCopy => IndInv'
  <1> SUFFICES ASSUME IndInv, GCCopy PROVE IndInv'
    OBVIOUS
  <1> DEFINE b == bank
             free == free_pblk[b]
             cnt == gc.immigrants_cnt
             v == Ppn(gc.victim_pblk, gc.i)
             dst == Ppn(free, cnt)
  <1>1. TypeOK /\ CallInv /\ GCInv /\ CollectionReclaims
    BY DEF IndInv
  <1>2. pc = "gc" /\ pc' = "gc" /\ gc.i < PAGES_PER_BLK
    BY DEF GCCopy
  <1>3. /\ b \in Banks /\ InGC(b) /\ req.op = "write"
        /\ gc.victim_pblk \in Blks /\ free \in Blks /\ gc.victim_pblk # free
        /\ gc.i \in 0 .. PAGES_PER_BLK /\ cnt \in 0 .. gc.i
        /\ \A q \in Ppns : BlkOf(q) # free => Written(b, q)
        /\ nand[b].blk_index[free] = cnt
        /\ cnt < PAGES_PER_BLK
    BY <1>2, GCFacts
  <1>4. gc.i \in Pages /\ cnt \in Pages
    BY <1>2, <1>3 DEF Pages
  <1>5. /\ v \in Ppns /\ BlkOf(v) = gc.victim_pblk /\ PageOf(v) = gc.i
        /\ dst \in Ppns /\ BlkOf(dst) = free /\ PageOf(dst) = cnt
    BY <1>3, <1>4, PpnFacts
  <1>16. \A q \in Ppns : PageOf(q) \in Int
    BY PpnFacts DEF Pages
  <1>17. \A q \in Ppns : BlkOf(q) = gc.victim_pblk /\ PageOf(q) = gc.i => q = v
    BY PpnFacts
  <1>18. \A q \in Ppns : BlkOf(q) = free /\ PageOf(q) = cnt => q = dst
    BY PpnFacts
  <1>19. gc.i \in Int /\ cnt \in Int
    BY <1>1, <1>3 DEF TypeOK
  <1>6. /\ UNCHANGED <<isValid, next_ppn, gc_trigger_ppn, free_pblk>>
        /\ UNCHANGED <<req, pc, pp, data>>
    BY DEF GCCopy
  <1>7. bank' = b /\ send_kazu' = send_kazu
    BY <1>6, SameBank
  <1>8. CallInv'
    BY <1>1, <1>2, <1>6, <1>7 DEF CallInv
  <1> HIDE DEF b, free, cnt, v, dst
  <1>9. \A c \in Banks : InGC(c)' <=> InGC(c)
    BY <1>2, <1>7 DEF InGC, b
  <1>10. free_pblk[b] = free /\ gc.immigrants_cnt = cnt /\ bank = b
    BY DEF free, cnt, b
  <1>11. gc'.victim_pblk = gc.victim_pblk /\ gc'.i = gc.i + 1
    BY <1>1 DEF GCCopy, SkipInvalid, TypeOK
  <1>12. \A c \in Banks, q \in Ppns : Moved(c, q)' <=> Moved(c, q) \/ (c = b /\ q = v)
    <2> SUFFICES ASSUME NEW c \in Banks, NEW q \in Ppns
                 PROVE  Moved(c, q)' <=> Moved(c, q) \/ (c = b /\ q = v)
      OBVIOUS
    <2>1. PageOf(q) < gc.i + 1 <=> PageOf(q) < gc.i \/ PageOf(q) = gc.i
      BY <1>16, <1>19
    <2>2. InGC(c) <=> c = b
      BY <1>2, <1>10 DEF InGC
    <2>3. Moved(c, q)' <=> InGC(c) /\ BlkOf(q) = gc.victim_pblk /\ PageOf(q) < gc.i + 1
      BY <1>9, <1>11 DEF Moved
    <2>4. BlkOf(q) = gc.victim_pblk /\ PageOf(q) = gc.i <=> q = v
      BY <1>5, <1>17
    <2> QED BY <2>1, <2>2, <2>3, <2>4 DEF Moved
  <1>13. CollectionReclaims'
    BY <1>1, <1>2, <1>6, <1>7, <1>10, <1>11 DEF CollectionReclaims
  <1>14. CASE isValid[b][v] # 1
    <2>1. gc' = [gc EXCEPT !.i = @ + 1] /\ UNCHANGED <<nand, L2P>>
      BY <1>14 DEF GCCopy, SkipInvalid, b, v
    <2>2. gc'.immigrants_cnt = cnt /\ gc'.i \in 0 .. PAGES_PER_BLK
      BY <1>1, <1>2, <1>3, <1>10, <2>1 DEF TypeOK
    <2>3. TypeOK'
      BY <1>1, <1>2, <1>3, <1>6, <2>1, <2>2 DEF TypeOK
    <2>4. MappedPagesAreCurrent' /\ ValidPagesAreMapped'
      BY <1>6, <1>12, <2>1 DEF IndInv, MappedPagesAreCurrent, ValidPagesAreMapped, Written
    <2>5. ASSUME NEW c \in Banks PROVE Frontier(c)' /\ FreeBlock(c)' /\ ChipInv(c)'
      BY <1>6, <1>9, <1>10, <2>1, <2>2 DEF IndInv, Frontier, FreeBlock, ChipInv, Written
    <2>6. NoMovedPageMapped'
      <3> SUFFICES ASSUME NEW c \in Banks, NEW l \in HalvedLpns, NEW q,
                          L2P[c][l] = q, q # -1
                   PROVE  ~Moved(c, q)'
        BY <2>1 DEF NoMovedPageMapped, Moved
      <3>1. q \in Ppns /\ isValid[c][q] = 1 /\ ~Moved(c, q)
        BY <1>1 DEF IndInv, MappedPagesAreCurrent, NoMovedPageMapped, TypeOK
      <3> QED BY <1>12, <1>14, <3>1
    <2>7. GCInv'
      <3>1. cnt <= gc.i + 1 /\ cnt # gc.i + 1
        BY <1>3
      <3> QED BY <1>1, <1>2, <1>6, <1>7, <1>10, <1>11, <2>2, <3>1 DEF GCInv
    <2> QED BY <1>8, <1>13, <2>3, <2>4, <2>5, <2>6, <2>7 DEF IndInv
  <1>15. CASE isValid[b][v] = 1
    <2> DEFINE tmp == nand[b].cell[v]
               l0 == tmp.spare
    <2>1. Written(b, v) /\ ~Moved(b, v)
      BY <1>3, <1>5 DEF Moved
    <2>2. tmp \in Page /\ l0 \in HalvedLpns
      BY <1>1, <1>3, <1>5, <2>1 DEF TypeOK, Chip, Page, Written
    <2>3. L2P[b][l0] = v
      BY <1>3, <1>5, <1>15, <2>1 DEF IndInv, ValidPagesAreMapped
    <2>4. ~Written(b, dst) /\ isValid[b][dst] = 1
      BY <1>3, <1>5, <1>10 DEF IndInv, FreeBlock
    <2>5. WriteCode(nand[b], free, cnt) = "SUCCESS"
      BY <1>3, <1>4, <1>10, <2>4 DEF WriteCode, Written, dst
    <2>6. /\ nand' = [nand EXCEPT ![b] = NandWrite(nand[b], free, cnt, tmp)]
          /\ L2P' = [L2P EXCEPT ![b][l0] = dst]
          /\ gc' = [gc EXCEPT !.i = @ + 1, !.immigrants_cnt = @ + 1]
      <3>1. TmpPage(v) = {tmp}
        BY <1>10, <2>1 DEF TmpPage, Written
      <3>2. \E t \in TmpPage(v) :
              /\ nand' = [nand EXCEPT ![b] = NandWrite(nand[b], free, cnt, t)]
              /\ L2P' = [L2P EXCEPT ![b][t.spare] = dst]
              /\ gc' = [gc EXCEPT !.i = @ + 1, !.immigrants_cnt = @ + 1]
        BY <1>15 DEF GCCopy, Remapped, b, v, dst, free, cnt
      <3> QED BY <3>1, <3>2
    <2>7. /\ nand[b] \in Chip
          /\ NandWrite(nand[b], free, cnt, tmp) \in Chip
          /\ NandWrite(nand[b], free, cnt, tmp).cell = [nand[b].cell EXCEPT ![dst] = tmp]
          /\ NandWrite(nand[b], free, cnt, tmp).blk_index
                = [nand[b].blk_index EXCEPT ![free] = cnt + 1]
      <3>1. nand[b] \in Chip
        BY <1>1, <1>3 DEF TypeOK
      <3> HIDE DEF tmp
      <3> QED BY <1>5, <2>2, <2>5, <3>1, NandWriteFacts
    <2> HIDE DEF l0
    <2>8. /\ \A c \in Banks, q \in Ppns :
                nand'[c].cell[q] = IF c = b /\ q = dst THEN tmp ELSE nand[c].cell[q]
          /\ \A c \in Banks, m \in HalvedLpns :
                L2P'[c][m] = IF c = b /\ m = l0 THEN dst ELSE L2P[c][m]
          /\ \A c \in Banks, k \in Blks :
                nand'[c].blk_index[k] = IF c = b /\ k = free THEN cnt + 1
                                        ELSE nand[c].blk_index[k]
          /\ gc'.immigrants_cnt = cnt + 1
      <3>1. \A c \in Banks : nand[c] \in Chip
        BY <1>1 DEF TypeOK
      <3> HIDE DEF tmp
      <3> QED BY <1>1, <1>3, <1>10, <2>2, <2>6, <2>7, <3>1 DEF TypeOK, Chip
    <2>9. tmp.spare = l0 /\ tmp # Erased
      BY <2>2, ErasedIsNoPage DEF l0
    <2>10. \A c \in Banks, q \in Ppns : Written(c, q)' <=> (c = b /\ q = dst) \/ Written(c, q)
      <3> HIDE DEF tmp
      <3> QED BY <2>8, <2>9 DEF Written
    <2>11. TypeOK'
      <3>1. nand' \in [Banks -> Chip]
        BY <1>1, <2>6, <2>7 DEF TypeOK
      <3>2. L2P' \in [Banks -> [HalvedLpns -> Ppns \cup {-1}]]
        BY <1>1, <1>5, <2>6 DEF TypeOK
      <3>3. gc' \in [victim_pblk : Blks, i : 0 .. PAGES_PER_BLK, immigrants_cnt : 0 .. PAGES_PER_BLK]
        <4>1. gc.i + 1 \in 0 .. PAGES_PER_BLK /\ cnt + 1 \in 0 .. PAGES_PER_BLK
          BY <1>2, <1>3
        <4> QED BY <1>1, <1>10, <2>6, <4>1 DEF TypeOK
      <3> QED BY <1>1, <1>6, <3>1, <3>2, <3>3 DEF TypeOK
    <2>12. MappedPagesAreCurrent'
      <3> SUFFICES ASSUME NEW c \in Banks, NEW m \in HalvedLpns, NEW q,
                          L2P'[c][m] = q, q # -1
                   PROVE  /\ Written(c, q)'
                          /\ nand'[c].cell[q].spare = m
                          /\ isValid[c][q] = 1
        BY <1>6 DEF MappedPagesAreCurrent, Written
      <3>1. CASE c = b /\ m = l0
        <4>1. q = dst
          BY <2>8, <3>1
        <4>2. Written(c, q)' /\ nand'[c].cell[q].spare = m
          <5> HIDE DEF tmp
          <5> QED BY <1>3, <1>5, <2>8, <2>9, <2>10, <3>1, <4>1
        <4> QED BY <2>4, <3>1, <4>1, <4>2
      <3>2. CASE ~(c = b /\ m = l0)
        <4>1. L2P[c][m] = q
          BY <2>8, <3>2
        <4>2. q \in Ppns /\ Written(c, q) /\ nand[c].cell[q].spare = m /\ isValid[c][q] = 1
          BY <1>1, <4>1 DEF IndInv, MappedPagesAreCurrent, TypeOK
        <4>3. ~(c = b /\ q = dst)
          BY <2>4, <4>2
        <4> QED BY <2>8, <2>10, <4>2, <4>3
      <3> QED BY <3>1, <3>2
    <2>13. ValidPagesAreMapped'
      <3> SUFFICES ASSUME NEW c \in Banks, NEW q \in Ppns,
                          Written(c, q)', isValid[c][q] = 1, ~Moved(c, q)'
                   PROVE  L2P'[c][nand'[c].cell[q].spare] = q
        BY <1>6 DEF ValidPagesAreMapped, Written, Moved
      <3>1. CASE c = b /\ q = dst
        <4> HIDE DEF tmp
        <4> QED BY <2>2, <2>8, <2>9, <3>1
      <3>2. CASE ~(c = b /\ q = dst)
        <4>1. Written(c, q) /\ ~Moved(c, q) /\ ~(c = b /\ q = v)
          BY <1>12, <2>10, <3>2
        <4>2. nand'[c].cell[q] = nand[c].cell[q]
          BY <2>8, <3>2
        <4>3. L2P[c][nand[c].cell[q].spare] = q
          BY <4>1 DEF IndInv, ValidPagesAreMapped
        <4>4. nand[c].cell[q].spare \in HalvedLpns
          BY <1>1, <4>1 DEF TypeOK, Chip, Page, Written
        <4>5. ~(c = b /\ nand[c].cell[q].spare = l0)
          BY <2>3, <4>1, <4>3
        <4> QED BY <2>8, <4>2, <4>3, <4>4, <4>5
      <3> QED BY <3>1, <3>2
    <2>14. NoMovedPageMapped'
      <3> SUFFICES ASSUME NEW c \in Banks, NEW m \in HalvedLpns, NEW q,
                          L2P'[c][m] = q, q # -1
                   PROVE  ~Moved(c, q)'
        BY DEF NoMovedPageMapped, Moved
      <3>1. CASE c = b /\ m = l0
        <4>1. q = dst
          BY <2>8, <3>1
        <4> QED BY <1>3, <1>5, <1>11, <4>1 DEF Moved
      <3>2. CASE ~(c = b /\ m = l0)
        <4>1. L2P[c][m] = q
          BY <2>8, <3>2
        <4>2. q \in Ppns /\ nand[c].cell[q].spare = m /\ ~Moved(c, q)
          BY <1>1, <4>1 DEF IndInv, MappedPagesAreCurrent, NoMovedPageMapped, TypeOK
        <4>3. ~(c = b /\ q = v)
          BY <3>2, <4>2 DEF l0
        <4> QED BY <1>12, <4>2, <4>3
      <3> QED BY <3>1, <3>2
    <2> HIDE DEF tmp
    <2>15. ASSUME NEW c \in Banks PROVE Frontier(c)' /\ FreeBlock(c)' /\ ChipInv(c)'
      <3>1. Frontier(c)'
        <4>1. \A q \in Ppns : BlkOf(q) # free_pblk[c] => (Written(c, q)' <=> Written(c, q))
          BY <1>5, <1>10, <2>10
        <4> QED BY <1>6, <4>1 DEF IndInv, Frontier
      <3>2. FreeBlock(c)'
        <4> SUFFICES ASSUME NEW q \in Ppns, BlkOf(q) = free_pblk[c]
                     PROVE  /\ isValid[c][q] = 1
                            /\ Written(c, q)' <=> InGC(c) /\ PageOf(q) < cnt + 1
          BY <1>6, <1>9, <2>8 DEF FreeBlock
        <4>1. /\ isValid[c][q] = 1
              /\ Written(c, q) <=> InGC(c) /\ PageOf(q) < cnt
          BY <1>10 DEF IndInv, FreeBlock
        <4>2. PageOf(q) < cnt + 1 <=> PageOf(q) < cnt \/ PageOf(q) = cnt
          BY <1>16, <1>19
        <4>3. CASE c = b
          <5>1. PageOf(q) = cnt <=> q = dst
            BY <1>5, <1>10, <1>18, <4>3
          <5> QED BY <1>3, <2>10, <4>1, <4>2, <4>3, <5>1
        <4>4. CASE c # b
          <5>1. ~InGC(c)
            BY <1>10, <4>4 DEF InGC
          <5> QED BY <2>10, <4>1, <4>4, <5>1
        <4> QED BY <4>3, <4>4
      <3>3. ChipInv(c)'
        <4> SUFFICES ASSUME NEW q \in Ppns
                     PROVE  /\ Written(c, q)' <=> PageOf(q) < nand'[c].blk_index[BlkOf(q)]
                            /\ isValid[c][q] = 0 => Written(c, q)'
          BY <1>6 DEF ChipInv
        <4>1. /\ Written(c, q) <=> PageOf(q) < nand[c].blk_index[BlkOf(q)]
              /\ isValid[c][q] = 0 => Written(c, q)
          BY DEF IndInv, ChipInv
        <4>2. BlkOf(q) \in Blks
          BY PpnFacts
        <4>3. CASE c = b /\ BlkOf(q) = free
          <5>1. PageOf(q) < cnt + 1 <=> PageOf(q) < cnt \/ PageOf(q) = cnt
            BY <1>16, <1>19
          <5>2. PageOf(q) = cnt <=> q = dst
            BY <1>5, <1>18, <4>3
          <5> QED BY <1>3, <2>8, <2>10, <4>1, <4>2, <4>3, <5>1, <5>2
        <4>4. CASE ~(c = b /\ BlkOf(q) = free)
          BY <1>5, <2>8, <2>10, <4>1, <4>2, <4>4
        <4> QED BY <4>3, <4>4
      <3> QED BY <3>1, <3>2, <3>3
    <2>16. GCInv'
      <3>1. cnt + 1 <= gc.i + 1 /\ (cnt + 1 = gc.i + 1 => cnt = gc.i)
        BY <1>3
      <3>2. \A page \in 0 .. gc.i : page = gc.i \/ page \in 0 .. gc.i - 1
        BY <1>3
      <3>3. cnt = gc.i => \A page \in 0 .. gc.i : isValid[b][Ppn(gc.victim_pblk, page)] = 1
        BY <1>1, <1>2, <1>10, <1>15, <3>2 DEF GCInv, v
      <3>4. (gc.i + 1) - 1 = gc.i
        BY <1>3
      <3>5. next_ppn[b] = gc_trigger_ppn[b]
        BY <1>1, <1>2, <1>10 DEF GCInv
      <3> QED BY <1>6, <1>7, <1>11, <2>8, <3>1, <3>3, <3>4, <3>5 DEF GCInv
    <2> QED BY <1>8, <1>13, <2>11, <2>12, <2>13, <2>14, <2>15, <2>16 DEF IndInv
  <1> QED BY <1>14, <1>15

\* The end of garbage_collection: the victim, all moved, is erased and becomes
\* the free block; writing goes on behind the pages moved to the old one.
LEMMA GCFinishStep == IndInv /\ GCFinish => IndInv'
  <1> SUFFICES ASSUME IndInv, GCFinish PROVE IndInv'
    OBVIOUS
  <1> DEFINE b == bank
             free == free_pblk[b]
             cnt == gc.immigrants_cnt
             victim == gc.victim_pblk
             n == Ppn(free, cnt)
             top == Ppn(free, PAGES_PER_BLK)
  <1>1. TypeOK /\ CallInv
    BY DEF IndInv
  <1>2. pc = "gc" /\ pc' = "program" /\ gc.i = PAGES_PER_BLK
    BY DEF GCFinish
  <1>3. /\ b \in Banks /\ InGC(b) /\ req.op = "write"
        /\ victim \in Blks /\ free \in Blks /\ victim # free
        /\ \A q \in Ppns : BlkOf(q) # free => Written(b, q)
        /\ cnt \in 0 .. gc.i /\ cnt < PAGES_PER_BLK
    BY <1>2, GCFacts
  <1>4. /\ isValid' = [isValid EXCEPT ![b] = [q \in Ppns |->
                         IF BlkOf(q) = victim THEN 1 ELSE isValid[b][q]]]
        /\ next_ppn' = [next_ppn EXCEPT ![b] = n]
        /\ gc_trigger_ppn' = [gc_trigger_ppn EXCEPT ![b] = top]
        /\ nand' = [nand EXCEPT ![b] = NandErase(nand[b], victim)]
        /\ free_pblk' = [free_pblk EXCEPT ![b] = victim]
        /\ gc' = NoGC
        /\ UNCHANGED <<L2P, req, pp, data>>
    BY DEF GCFinish, Refreshed
  <1>5. bank' = b /\ send_kazu' = send_kazu
    BY <1>4, SameBank
  <1>6. cnt \in Pages /\ 0 \in Pages
    BY <1>3 DEF Pages
  <1>7. n \in Ppns /\ BlkOf(n) = free /\ PageOf(n) = cnt
    BY <1>3, <1>6, PpnFacts
  <1>8. Ppn(victim, 0) \in Ppns /\ BlkOf(Ppn(victim, 0)) = victim /\ PageOf(Ppn(victim, 0)) = 0
    BY <1>3, <1>6, PpnFacts
  <1> DEFINE lo == free * PAGES_PER_BLK
  <1>9. /\ lo \in Nat /\ top = lo + PAGES_PER_BLK
        /\ top <= BLKS_PER_BANK * PAGES_PER_BLK
        /\ \A q \in Nat : BlkOf(q) = free <=> lo <= q /\ q < lo + PAGES_PER_BLK
        /\ \A q \in Ppns : BlkOf(q) = free => q = lo + PageOf(q)
    BY <1>3, BlockInterval
  <1>10. n = lo + cnt
    BY DEF Ppn
  <1> HIDE DEF b, free, cnt, victim, n, top, lo
  <1>11. nand[b] \in Chip /\ nand[b].blk_index[victim] # 0
    <2>1. nand[b] \in Chip
      BY <1>1, <1>3 DEF TypeOK
    <2>2. 0 < nand[b].blk_index[victim]
      BY <1>3, <1>8 DEF IndInv, ChipInv
    <2> QED BY <2>1, <2>2
  <1>12. /\ NandErase(nand[b], victim) \in Chip
         /\ NandErase(nand[b], victim).cell =
               [q \in Ppns |-> IF BlkOf(q) = victim THEN Erased ELSE nand[b].cell[q]]
         /\ NandErase(nand[b], victim).blk_index = [nand[b].blk_index EXCEPT ![victim] = 0]
    <2>1. NandErase(nand[b], victim) =
            [cell |-> [q \in Ppns |-> IF BlkOf(q) = victim THEN Erased ELSE nand[b].cell[q]],
             blk_index |-> [nand[b].blk_index EXCEPT ![victim] = 0]]
      BY <1>3, <1>11 DEF NandErase, EraseCode
    <2> QED BY <1>3, <1>11, <2>1 DEF Chip
  <1>13. /\ \A c \in Banks, q \in Ppns :
                nand'[c].cell[q] = IF c = b /\ BlkOf(q) = victim THEN Erased ELSE nand[c].cell[q]
         /\ \A c \in Banks, q \in Ppns :
                isValid'[c][q] = IF c = b /\ BlkOf(q) = victim THEN 1 ELSE isValid[c][q]
         /\ \A c \in Banks, k \in Blks :
                nand'[c].blk_index[k] = IF c = b /\ k = victim THEN 0 ELSE nand[c].blk_index[k]
    <2>1. \A c \in Banks : nand[c] \in Chip
      BY <1>1 DEF TypeOK
    <2> QED BY <1>1, <1>3, <1>4, <1>12, <2>1 DEF TypeOK, Chip
  <1>14. \A c \in Banks : /\ next_ppn'[c] = IF c = b THEN n ELSE next_ppn[c]
                          /\ gc_trigger_ppn'[c] = IF c = b THEN top ELSE gc_trigger_ppn[c]
                          /\ free_pblk'[c] = IF c = b THEN victim ELSE free_pblk[c]
    BY <1>1, <1>3, <1>4 DEF TypeOK
  <1>15. \A c \in Banks, q \in Ppns :
            Written(c, q)' <=> ~(c = b /\ BlkOf(q) = victim) /\ Written(c, q)
    BY <1>13 DEF Written
  <1>16. \A c \in Banks : ~InGC(c)' /\ (c # b => ~InGC(c))
    BY <1>2 DEF InGC, b
  <1>17. \A q \in Ppns : Moved(b, q) <=> BlkOf(q) = victim
    <2>1. \A q \in Ppns : PageOf(q) < gc.i
      BY <1>2, PpnFacts DEF Pages
    <2> QED BY <1>3, <2>1 DEF Moved, victim
  <1>18. \A c \in Banks, q \in Ppns : ~Moved(c, q)' /\ (c # b => ~Moved(c, q))
    BY <1>16 DEF Moved
  <1>19. top \in Ppns \cup {BLKS_PER_BANK * PAGES_PER_BLK}
    <2> DEFINE all == BLKS_PER_BANK * PAGES_PER_BLK
    <2>1. all \in Nat /\ Ppns = 0 .. all - 1
      BY DEF Ppns
    <2> HIDE DEF all
    <2>2. top \in Nat /\ top <= all
      BY <1>9 DEF all
    <2>3. top \in Ppns \cup {all}
      BY <2>1, <2>2
    <2> QED BY <2>3 DEF all
  <1>20. TypeOK'
    <2>1. nand' \in [Banks -> Chip]
      BY <1>1, <1>4, <1>12 DEF TypeOK
    <2>2. isValid' \in [Banks -> [Ppns -> {0, 1}]]
      BY <1>1, <1>3, <1>4 DEF TypeOK
    <2>3. /\ next_ppn' \in [Banks -> Ppns \cup {BLKS_PER_BANK * PAGES_PER_BLK}]
          /\ gc_trigger_ppn' \in [Banks -> Ppns \cup {BLKS_PER_BANK * PAGES_PER_BLK}]
          /\ free_pblk' \in [Banks -> Blks]
      BY <1>1, <1>3, <1>4, <1>7, <1>19 DEF TypeOK
    <2>4. gc' \in [victim_pblk : Blks, i : 0 .. PAGES_PER_BLK, immigrants_cnt : 0 .. PAGES_PER_BLK]
      BY <1>4 DEF NoGC, Blks
    <2> QED BY <1>1, <1>2, <1>4, <2>1, <2>2, <2>3, <2>4 DEF TypeOK
  <1>21. MappedPagesAreCurrent'
    <2> SUFFICES ASSUME NEW c \in Banks, NEW l \in HalvedLpns, NEW q,
                        L2P[c][l] = q, q # -1
                 PROVE  /\ Written(c, q)'
                        /\ nand'[c].cell[q].spare = l
                        /\ isValid'[c][q] = 1
      BY <1>4 DEF MappedPagesAreCurrent, Written
    <2>1. /\ q \in Ppns /\ Written(c, q) /\ ~Moved(c, q)
          /\ nand[c].cell[q].spare = l /\ isValid[c][q] = 1
      BY <1>1 DEF IndInv, MappedPagesAreCurrent, NoMovedPageMapped, TypeOK
    <2>2. ~(c = b /\ BlkOf(q) = victim)
      BY <1>17, <2>1
    <2> QED BY <1>13, <1>15, <2>1, <2>2
  <1>22. ValidPagesAreMapped'
    <2> SUFFICES ASSUME NEW c \in Banks, NEW q \in Ppns, Written(c, q)', isValid'[c][q] = 1
                 PROVE  L2P[c][nand'[c].cell[q].spare] = q
      BY <1>4 DEF ValidPagesAreMapped, Written
    <2>1. ~(c = b /\ BlkOf(q) = victim) /\ Written(c, q)
      BY <1>15
    <2>2. isValid[c][q] = 1 /\ nand'[c].cell[q] = nand[c].cell[q] /\ ~Moved(c, q)
      BY <1>13, <1>17, <1>18, <2>1
    <2> QED BY <2>1, <2>2 DEF IndInv, ValidPagesAreMapped
  <1>23. ASSUME NEW c \in Banks PROVE Frontier(c)'
    <2>1. CASE c = b
      <3>1. n <= top /\ n \in Nat /\ top \in Nat
        BY <1>3, <1>9, <1>10
      <3>2. ASSUME NEW q \in n .. top - 1 PROVE BlkOf(q) = free
        BY <1>3, <1>9, <1>10, <3>1
      <3>3. ASSUME NEW q \in Ppns, BlkOf(q) # victim
            PROVE  Written(c, q)' <=> ~(n <= q /\ q < top)
        <4>1. Written(c, q)' <=> Written(b, q)
          BY <1>15, <2>1, <3>3
        <4>2. q \in Nat /\ PageOf(q) \in Nat
          BY PpnFacts DEF Ppns, Pages
        <4>3. CASE BlkOf(q) = free
          <5>1. Written(b, q) <=> PageOf(q) < cnt
            BY <1>3, <4>3 DEF IndInv, FreeBlock, free, cnt
          <5>2. q = lo + PageOf(q) /\ q < lo + PAGES_PER_BLK
            BY <1>9, <4>2, <4>3
          <5>3. cnt \in Nat
            BY <1>3
          <5> QED BY <1>9, <1>10, <4>1, <4>2, <5>1, <5>2, <5>3
        <4>4. CASE BlkOf(q) # free
          <5>1. Written(b, q)
            BY <1>3, <4>4
          <5>2. ~(n <= q /\ q < top)
            <6>1. q \in Int /\ n \in Int /\ top \in Int
              BY <4>2, <3>1
            <6> QED BY <3>2, <4>4, <6>1
          <5> QED BY <4>1, <5>1, <5>2
        <4> QED BY <4>3, <4>4
      <3>4. next_ppn'[c] = n /\ gc_trigger_ppn'[c] = top /\ free_pblk'[c] = victim
        BY <1>14, <2>1
      <3>5. \A q \in n .. top - 1 : BlkOf(q) # victim
        BY <1>3, <3>2
      <3> QED BY <3>1, <3>3, <3>4, <3>5 DEF Frontier
    <2>2. CASE c # b
      BY <1>14, <1>15, <2>2 DEF IndInv, Frontier
    <2> QED BY <2>1, <2>2
  <1>24. ASSUME NEW c \in Banks PROVE FreeBlock(c)' /\ ChipInv(c)'
    <2>1. \A q \in Ppns : BlkOf(q) \in Blks /\ PageOf(q) \in Nat
      BY PpnFacts DEF Pages
    <2>2. FreeBlock(c)'
      BY <1>13, <1>14, <1>15, <1>16 DEF IndInv, FreeBlock
    <2>3. ChipInv(c)'
      BY <1>13, <1>15, <2>1 DEF IndInv, ChipInv
    <2> QED BY <2>2, <2>3
  <1>25. NoMovedPageMapped' /\ GCInv' /\ CollectionReclaims'
    BY <1>2, <1>16 DEF NoMovedPageMapped, Moved, GCInv, CollectionReclaims
  <1>26. CallInv'
    <2>1. next_ppn'[b] < gc_trigger_ppn'[b]
      BY <1>3, <1>9, <1>10, <1>14
    <2> QED BY <1>1, <1>2, <1>4, <1>5, <2>1 DEF CallInv
  <1> QED BY <1>20, <1>21, <1>22, <1>23, <1>24, <1>25, <1>26 DEF IndInv

-----------------------------------------------------------------------------
\* Every step preserves the invariant, one case for each action.
LEMMA NextStep == IndInv /\ [Next]_vars => IndInv'
  <1> SUFFICES ASSUME IndInv, [Next]_vars PROVE IndInv'
    OBVIOUS
  <1>1. CASE Submit
    BY <1>1, SubmitStep
  <1>2. CASE FetchPage
    BY <1>2, FetchPageStep
  <1>3. CASE PackPage
    BY <1>3, PackPageStep
  <1>4. CASE GCStart
    BY <1>4, GCStartStep
  <1>5. CASE GCCopy
    BY <1>5, GCCopyStep
  <1>6. CASE GCFinish
    BY <1>6, GCFinishStep
  <1>7. CASE Program
    BY <1>7, ProgramStep
  <1>8. CASE Return
    BY <1>8, ReturnStep
  <1>9. CASE UNCHANGED vars
    <2>1. UNCHANGED ftlVars /\ UNCHANGED <<req, pc, pp, data, gc>>
      BY <1>9 DEF vars, callVars
    <2>2. bank' = bank /\ send_kazu' = send_kazu
      BY <2>1, SameBank
    <2>3. \A c \in Banks : InGC(c)' <=> InGC(c)
      BY <2>1, <2>2 DEF InGC
    <2>4. \A c \in Banks, q \in Ppns : Moved(c, q)' <=> Moved(c, q)
      BY <2>1, <2>3 DEF Moved
    <2>5. TypeOK' /\ CallInv' /\ GCInv' /\ CollectionReclaims'
      BY <2>1, <2>2 DEF IndInv, TypeOK, CallInv, GCInv, CollectionReclaims, ftlVars
    <2>6. MappedPagesAreCurrent' /\ ValidPagesAreMapped'
      BY <2>1, <2>4 DEF IndInv, MappedPagesAreCurrent, ValidPagesAreMapped, ftlVars, Written
    <2>7. \A c \in Banks : Frontier(c)' /\ FreeBlock(c)' /\ ChipInv(c)'
      BY <2>1, <2>3 DEF IndInv, Frontier, FreeBlock, ChipInv, ftlVars, Written
    <2>8. NoMovedPageMapped'
      <3> SUFFICES ASSUME NEW c \in Banks, NEW l \in HalvedLpns, NEW q,
                          L2P[c][l] = q, q # -1
                   PROVE  ~Moved(c, q)'
        BY <2>1 DEF NoMovedPageMapped, Moved, ftlVars
      <3> QED BY <2>4 DEF IndInv, NoMovedPageMapped, TypeOK
    <2> QED BY <2>5, <2>6, <2>7, <2>8 DEF IndInv
  <1> QED BY <1>1, <1>2, <1>3, <1>4, <1>5, <1>6, <1>7, <1>8, <1>9 DEF Next, Step

\* The inductive invariant: for any geometry with at least two blocks a bank and
\* any over-provisioning, in every state of every sequence of ftl_read and
\* ftl_write calls.
THEOREM Invariance == Spec => []IndInv
  BY InitInv, NextStep, PTL DEF Spec

\* The tables L2P, isValid, next_ppn, gc_trigger_ppn and free_pblk of ftl.c and
\* the locals of a call keep their types: no index ever leaves a bank.
THEOREM TypeCorrect == Spec => []TypeOK
  <1>1. IndInv => TypeOK
    BY DEF IndInv
  <1> QED BY <1>1, Invariance, PTL

\* ftl_read and garbage_collection follow L2P without looking at a return code:
\* a mapped logical page is always on a written, valid page that carries it.
THEOREM MappingSafe == Spec => []MappedPagesAreCurrent
  <1>1. IndInv => MappedPagesAreCurrent
    BY DEF IndInv
  <1> QED BY <1>1, Invariance, PTL

\* garbage_collection copies what isValid says: outside the pages it has already
\* moved, no valid page is stale, so a collection never brings back old data.
THEOREM NoStaleCopies == Spec => []ValidPagesAreMapped
  <1>1. IndInv => ValidPagesAreMapped
    BY DEF IndInv
  <1> QED BY <1>1, Invariance, PTL

\* get_victim_pblk always returns a block with something to reclaim, never the
\* free block: the over-provisioning of ftl.h leaves a full bank one invalid page.
THEOREM ReclaimSafe == Spec => []CollectionReclaims
  <1>1. IndInv => CollectionReclaims
    BY DEF IndInv
  <1> QED BY <1>1, Invariance, PTL

\* The return codes ftl.c ignores are all NAND_SUCCESS: both its calls of
\* nand_write program the next position of a block with room.
THEOREM ProgramsSafe == Spec => []ProgramsSucceed
  <1>1. IndInv => ProgramsSucceed
    <2> SUFFICES ASSUME IndInv PROVE ProgramsSucceed
      OBVIOUS
    <2>1. TypeOK /\ CallInv
      BY DEF IndInv
    <2>2. ASSUME AboutToProgram
          PROVE  WriteCode(nand[bank], BlkOf(next_ppn[bank]), PageOf(next_ppn[bank])) = "SUCCESS"
      <3>1. bank \in Banks /\ ~InGC(bank)
        BY <2>1, <2>2, BankType DEF AboutToProgram, TypeOK, InGC
      <3>2. /\ next_ppn[bank] \in Int /\ gc_trigger_ppn[bank] \in Int
            /\ next_ppn[bank] <= gc_trigger_ppn[bank]
        BY <2>1, <3>1 DEF IndInv, TypeOK, Frontier, Ppns
      <3>3. next_ppn[bank] < gc_trigger_ppn[bank]
        BY <2>1, <2>2, <3>2 DEF AboutToProgram, AtTrigger, CallInv
      <3> QED BY <3>1, <3>3, FrontierIsWritable
    <2>3. ASSUME pc = "gc", gc.i < PAGES_PER_BLK
          PROVE  WriteCode(nand[bank], free_pblk[bank], gc.immigrants_cnt) = "SUCCESS"
      <3> DEFINE free == free_pblk[bank]
                 cnt == gc.immigrants_cnt
      <3>1. /\ bank \in Banks /\ free \in Blks /\ cnt \in 0 .. gc.i
            /\ gc.i \in 0 .. PAGES_PER_BLK
            /\ nand[bank].blk_index[free] = cnt /\ cnt < PAGES_PER_BLK
        BY <2>3, GCFacts
      <3>2. cnt \in Pages
        BY <3>1 DEF Pages
      <3>3. Ppn(free, cnt) \in Ppns /\ BlkOf(Ppn(free, cnt)) = free /\ PageOf(Ppn(free, cnt)) = cnt
        BY <3>1, <3>2, PpnFacts
      <3>4. ~Written(bank, Ppn(free, cnt))
        BY <3>1, <3>3 DEF IndInv, FreeBlock
      <3> QED BY <3>1, <3>2, <3>4 DEF WriteCode, Written
    <2> QED BY <2>2, <2>3 DEF ProgramsSucceed
  <1> QED BY <1>1, Invariance, PTL

-----------------------------------------------------------------------------
\* PageFTL implements BlockDevice.  A sector is a word of the page its logical
\* page is mapped to; collections move pages and leave the words alone.
Lbas == 0 .. N_SECTORS - 1

WordAt(b, l, i) ==
    IF L2P[b][l] = -1 THEN Blank ELSE nand[b].cell[L2P[b][l]].data[i]

BankOf(lba)   == (lba \div SECTORS_PER_PAGE) % N_BANKS
HalvedOf(lba) == (lba \div SECTORS_PER_PAGE) \div N_BANKS

\* A sector is a bank, a logical page of the bank and a place in that page.
LEMMA Places ==
    ASSUME NEW lba \in Lbas
    PROVE  /\ lba \in Nat /\ lba \div SECTORS_PER_PAGE \in Nat
           /\ BankOf(lba) \in Banks /\ HalvedOf(lba) \in HalvedLpns
           /\ lba % SECTORS_PER_PAGE \in Offsets
           /\ lba = (lba \div SECTORS_PER_PAGE) * SECTORS_PER_PAGE + (lba % SECTORS_PER_PAGE)
           /\ lba \div SECTORS_PER_PAGE = HalvedOf(lba) * N_BANKS + BankOf(lba)
  <1>1. N_LPNS_PB \in Nat /\ N_LPNS \in Nat /\ N_LPNS = N_LPNS_PB * N_BANKS
    BY Capacity DEF N_LPNS
  <1>2. lba \in 0 .. N_LPNS * SECTORS_PER_PAGE - 1
    BY DEF Lbas, N_SECTORS
  <1>3. lba \div SECTORS_PER_PAGE \in 0 .. N_LPNS - 1
    BY <1>1, <1>2, DivMod
  <1> DEFINE l == lba \div SECTORS_PER_PAGE
  <1>4. l \in 0 .. N_LPNS_PB * N_BANKS - 1
    BY <1>1, <1>3
  <1> HIDE DEF l
  <1>5. l \div N_BANKS \in 0 .. N_LPNS_PB - 1
    BY <1>1, <1>4, DivMod
  <1>6. l \in Nat /\ l = (l \div N_BANKS) * N_BANKS + (l % N_BANKS) /\ l % N_BANKS \in 0 .. N_BANKS - 1
    <2>1. l \in Nat
      BY <1>1, <1>4
    <2> QED BY <2>1, DivMod
  <1>7. lba \in Nat /\ lba % SECTORS_PER_PAGE \in 0 .. SECTORS_PER_PAGE - 1
    BY <1>2, DivMod
  <1>8. lba = (lba \div SECTORS_PER_PAGE) * SECTORS_PER_PAGE + (lba % SECTORS_PER_PAGE)
    BY <1>7, DivMod
  <1> QED BY <1>4, <1>5, <1>6, <1>7, <1>8 DEF l, Banks, HalvedLpns, Offsets, BankOf, HalvedOf

\* What SectorAt shows of a sector is its word, before and after a step.
LEMMA SectorIs ==
    ASSUME IndInv, NEW lba \in Lbas
    PROVE  SectorAt(lba) = WordAt(BankOf(lba), HalvedOf(lba), lba % SECTORS_PER_PAGE)
  <1>1. BankOf(lba) \in Banks /\ HalvedOf(lba) \in HalvedLpns
    BY Places
  <1>2. L2P[BankOf(lba)][HalvedOf(lba)] # -1 =>
           Written(BankOf(lba), L2P[BankOf(lba)][HalvedOf(lba)])
    BY <1>1 DEF IndInv, MappedPagesAreCurrent
  <1> QED BY <1>2 DEF SectorAt, WordAt, BankOf, HalvedOf

LEMMA SectorIsNext ==
    ASSUME IndInv', NEW lba \in Lbas
    PROVE  SectorAt(lba)' = WordAt(BankOf(lba), HalvedOf(lba), lba % SECTORS_PER_PAGE)'
  <1>1. BankOf(lba) \in Banks /\ HalvedOf(lba) \in HalvedLpns
    BY Places
  <1>2. L2P'[BankOf(lba)][HalvedOf(lba)] # -1 =>
           Written(BankOf(lba), L2P[BankOf(lba)][HalvedOf(lba)])'
    BY <1>1 DEF IndInv, MappedPagesAreCurrent
  <1> QED BY <1>2 DEF SectorAt, WordAt, BankOf, HalvedOf

\* A step that leaves the words of every logical page alone does not show.
LEMMA SameDisk ==
    ASSUME IndInv, IndInv',
           \A b \in Banks, l \in HalvedLpns, i \in Offsets : WordAt(b, l, i)' = WordAt(b, l, i)
    PROVE  DiskOfFTL' = DiskOfFTL /\ \A lba \in Lbas : SectorAt(lba)' = SectorAt(lba)
  <1>1. \A lba \in Lbas : SectorAt(lba)' = SectorAt(lba)
    BY SectorIs, SectorIsNext, Places
  <1> QED BY <1>1 DEF DiskOfFTL, Lbas

\* A collection moves pages; what they hold stays.
LEMMA GCCopyWords ==
    ASSUME IndInv, GCCopy
    PROVE  \A b \in Banks, l \in HalvedLpns, i \in Offsets : WordAt(b, l, i)' = WordAt(b, l, i)
  <1> DEFINE b == bank
             free == free_pblk[b]
             cnt == gc.immigrants_cnt
             v == Ppn(gc.victim_pblk, gc.i)
             dst == Ppn(free, cnt)
             tmp == nand[b].cell[v]
             l0 == tmp.spare
  <1>1. TypeOK /\ pc = "gc" /\ gc.i < PAGES_PER_BLK
    BY DEF IndInv, GCCopy
  <1>2. /\ b \in Banks /\ InGC(b)
        /\ gc.victim_pblk \in Blks /\ free \in Blks /\ gc.victim_pblk # free
        /\ gc.i \in 0 .. PAGES_PER_BLK /\ cnt \in 0 .. gc.i
        /\ \A q \in Ppns : BlkOf(q) # free => Written(b, q)
        /\ nand[b].blk_index[free] = cnt
        /\ cnt < PAGES_PER_BLK
    BY <1>1, GCFacts
  <1>3. gc.i \in Pages /\ cnt \in Pages
    BY <1>1, <1>2 DEF Pages
  <1>4. /\ v \in Ppns /\ BlkOf(v) = gc.victim_pblk /\ PageOf(v) = gc.i
        /\ dst \in Ppns /\ BlkOf(dst) = free /\ PageOf(dst) = cnt
    BY <1>2, <1>3, PpnFacts
  <1> HIDE DEF v, dst
  <1>5. CASE isValid[b][v] # 1
    <2>1. UNCHANGED <<nand, L2P>>
      BY <1>5 DEF GCCopy, SkipInvalid, v
    <2> QED BY <2>1 DEF WordAt
  <1>6. CASE isValid[b][v] = 1
    <2>1. Written(b, v) /\ ~Moved(b, v)
      BY <1>2, <1>3, <1>4 DEF Moved, Pages
    <2>2. tmp \in Page /\ l0 \in HalvedLpns
      BY <1>1, <1>2, <1>4, <2>1 DEF TypeOK, Chip, Page, Written
    <2>3. L2P[b][l0] = v
      BY <1>2, <1>4, <1>6, <2>1 DEF IndInv, ValidPagesAreMapped
    <2>4. ~Written(b, dst)
      BY <1>2, <1>4 DEF IndInv, FreeBlock
    <2>5. WriteCode(nand[b], free, cnt) = "SUCCESS"
      BY <1>2, <1>3, <2>4 DEF WriteCode, Written, dst
    <2>6. /\ nand' = [nand EXCEPT ![b] = NandWrite(nand[b], free, cnt, tmp)]
          /\ L2P' = [L2P EXCEPT ![b][l0] = dst]
      <3>1. TmpPage(v) = {tmp}
        BY <2>1 DEF TmpPage, Written
      <3>2. \E t \in TmpPage(v) :
              /\ nand' = [nand EXCEPT ![b] = NandWrite(nand[b], free, cnt, t)]
              /\ L2P' = [L2P EXCEPT ![b][t.spare] = dst]
        BY <1>6 DEF GCCopy, Remapped, v, dst
      <3> QED BY <3>1, <3>2
    <2> HIDE DEF tmp, l0, b, free, cnt
    <2>7. nand[b] \in Chip /\ NandWrite(nand[b], free, cnt, tmp).cell = [nand[b].cell EXCEPT ![dst] = tmp]
      <3>1. nand[b] \in Chip
        BY <1>1, <1>2 DEF TypeOK
      <3> QED BY <1>4, <2>2, <2>5, <3>1, NandWriteFacts, ZenonT(60)
    <2>8. /\ \A c \in Banks, q \in Ppns :
                nand'[c].cell[q] = IF c = b /\ q = dst THEN tmp ELSE nand[c].cell[q]
          /\ \A c \in Banks, m \in HalvedLpns :
                L2P'[c][m] = IF c = b /\ m = l0 THEN dst ELSE L2P[c][m]
      <3>1. \A c \in Banks : nand[c] \in Chip
        BY <1>1 DEF TypeOK
      <3> QED BY <1>1, <1>2, <2>2, <2>6, <2>7, <3>1 DEF TypeOK, Chip
    <2>9. \A c \in Banks, m \in HalvedLpns :
             L2P[c][m] # -1 => L2P[c][m] \in Ppns /\ Written(c, L2P[c][m])
      BY <1>1 DEF IndInv, MappedPagesAreCurrent, TypeOK
    <2> SUFFICES ASSUME NEW c \in Banks, NEW m \in HalvedLpns, NEW i \in Offsets
                 PROVE  WordAt(c, m, i)' = WordAt(c, m, i)
      OBVIOUS
    <2>10. -1 \notin Ppns
      BY DEF Ppns
    <2>11. CASE c = b /\ m = l0
      <3>1. L2P'[c][m] = dst /\ nand'[c].cell[dst] = tmp /\ L2P[c][m] = v
        BY <1>4, <2>3, <2>8, <2>11
      <3> QED BY <1>4, <2>10, <2>11, <3>1 DEF WordAt, tmp
    <2>12. CASE ~(c = b /\ m = l0)
      <3>1. L2P'[c][m] = L2P[c][m]
        BY <2>8, <2>12
      <3>2. L2P[c][m] # -1 => nand'[c].cell[L2P[c][m]] = nand[c].cell[L2P[c][m]]
        BY <2>4, <2>8, <2>9
      <3> QED BY <3>1, <3>2 DEF WordAt
    <2> QED BY <2>11, <2>12
  <1> QED BY <1>5, <1>6

\* The block that is erased holds nothing that is mapped.
LEMMA GCFinishWords ==
    ASSUME IndInv, GCFinish
    PROVE  \A b \in Banks, l \in HalvedLpns, i \in Offsets : WordAt(b, l, i)' = WordAt(b, l, i)
  <1> DEFINE b == bank
             victim == gc.victim_pblk
  <1>1. TypeOK /\ pc = "gc" /\ gc.i = PAGES_PER_BLK
    BY DEF IndInv, GCFinish
  <1>2. b \in Banks /\ InGC(b) /\ victim \in Blks
    BY <1>1, GCFacts
  <1>3. L2P' = L2P /\ nand' = [nand EXCEPT ![b] = NandErase(nand[b], victim)]
    BY DEF GCFinish
  <1>4. nand \in [Banks -> Chip]
    BY <1>1 DEF TypeOK
  <1>5. \A q \in Ppns : BlkOf(q) # victim => NandErase(nand[b], victim).cell[q] = nand[b].cell[q]
    BY DEF NandErase
  <1>6. \A l \in HalvedLpns : L2P[b][l] # -1 => L2P[b][l] \in Ppns /\ BlkOf(L2P[b][l]) # victim
    <2> SUFFICES ASSUME NEW l \in HalvedLpns, L2P[b][l] # -1
                 PROVE  L2P[b][l] \in Ppns /\ BlkOf(L2P[b][l]) # victim
      OBVIOUS
    <2>1. L2P[b][l] \in Ppns
      BY <1>1, <1>2 DEF TypeOK
    <2>2. PageOf(L2P[b][l]) < gc.i
      BY <1>1, <2>1, PpnFacts DEF Pages
    <2>3. ~Moved(b, L2P[b][l])
      BY <1>2 DEF IndInv, NoMovedPageMapped
    <2> QED BY <1>2, <2>1, <2>2, <2>3 DEF Moved
  <1> HIDE DEF b, victim
  <1>7. \A c \in Banks, l \in HalvedLpns :
           L2P[c][l] # -1 => nand'[c].cell[L2P[c][l]] = nand[c].cell[L2P[c][l]]
    BY <1>2, <1>3, <1>4, <1>5, <1>6
  <1> QED BY <1>3, <1>7 DEF WordAt

-----------------------------------------------------------------------------
\* What the call in progress has ready: the page it packed, whatever a
\* collection has moved since, and the buffer it fills.
Packed(i) == IF InRequest(i) THEN req.buf[LbaAt(i)] ELSE WordAt(bank, halved_lpn, i)

HostInv ==
    /\ pc = "idle" => pp = 0
    /\ pc = "read" => DOMAIN rbuf = SectorsFrom(req.lba, req.nsect)
    /\ pc \in {"write_through", "gc", "program"} => \A i \in Offsets : data[i] = Packed(i)

\* HostInv holds at first.
LEMMA InitHost == Init => HostInv
  BY DEF Init, HostInv

\* A page that is mapped is read as it is.
LEMMA ReadPageIs ==
    ASSUME IndInv, NEW b \in Banks, NEW l \in HalvedLpns, L2P[b][l] # -1, NEW buffer
    PROVE  \A i \in Offsets : ReadPage(b, L2P[b][l], buffer)[i] = WordAt(b, l, i)
  <1> DEFINE q == L2P[b][l]
  <1>1. q \in Ppns /\ nand[b].cell[q] # Erased
    BY DEF IndInv, TypeOK, MappedPagesAreCurrent, Written
  <1>2. BlkOf(q) \in Blks /\ PageOf(q) \in Pages /\ Ppn(BlkOf(q), PageOf(q)) = q
    BY <1>1, PpnFacts
  <1>3. ReadPage(b, q, buffer) = nand[b].cell[q].data
    BY <1>1, <1>2 DEF ReadPage, NandRead, ReadCode
  <1> QED BY <1>3 DEF WordAt

\* Packing makes the page HostInv describes (ftl.c:271-285).
LEMMA PackPageHost == ASSUME IndInv, HostInv, PackPage PROVE HostInv'
  <1>1. TypeOK /\ pc = "write" /\ req.op = "write" /\ pp < send_kazu
    BY DEF IndInv, CallInv, TypeOK, PackPage
  <1>2. bank \in Banks /\ halved_lpn \in HalvedLpns
    BY <1>1, BankType, HalvedLpnType DEF TypeOK
  <1>3. \A i \in Offsets : OldContents[i] = WordAt(bank, halved_lpn, i)
    <2>1. CASE L2P[bank][halved_lpn] = -1
      BY <2>1 DEF OldContents, WordAt
    <2>2. CASE L2P[bank][halved_lpn] # -1
      BY <1>2, <2>2, ReadPageIs DEF OldContents
    <2> QED BY <2>1, <2>2
  <1>4. /\ data' = [i \in Offsets |-> IF InRequest(i) THEN req.buf[LbaAt(i)] ELSE OldContents[i]]
        /\ pc' = "write_through" /\ UNCHANGED <<ftlVars, req, pp>>
    BY DEF PackPage
  <1>5. \A i \in Offsets : data'[i] = Packed(i)
    BY <1>3, <1>4 DEF Packed
  <1>6. \A i \in Offsets : Packed(i)' = Packed(i)
    BY <1>4 DEF Packed, InRequest, LbaAt, lpn, WordAt, bank, halved_lpn, ftlVars
  <1> QED BY <1>4, <1>5, <1>6 DEF HostInv

\* A collection leaves the page that waits for it as it is.
LEMMA KeepsPacked ==
    ASSUME IndInv, HostInv, UNCHANGED <<req, pp, data>>,
           pc \in {"write_through", "gc"}, pc' \in {"gc", "program"},
           \A b \in Banks, l \in HalvedLpns, i \in Offsets : WordAt(b, l, i)' = WordAt(b, l, i)
    PROVE  HostInv'
  <1>1. TypeOK /\ req.op # "idle" /\ pp < send_kazu
    BY DEF IndInv, CallInv
  <1>2. bank \in Banks /\ halved_lpn \in HalvedLpns
    BY <1>1, BankType, HalvedLpnType DEF TypeOK
  <1>3. bank' = bank /\ halved_lpn' = halved_lpn
    BY SameBank
  <1>4. \A i \in Offsets : WordAt(bank, halved_lpn, i)' = WordAt(bank, halved_lpn, i)
    <2>1. \A i \in Offsets : WordAt(bank, halved_lpn, i)' =
             IF L2P'[bank][halved_lpn] = -1 THEN Blank ELSE nand'[bank].cell[L2P'[bank][halved_lpn]].data[i]
      BY <1>3 DEF WordAt
    <2>2. \A b \in Banks, l \in HalvedLpns, i \in Offsets : WordAt(b, l, i)' =
             IF L2P'[b][l] = -1 THEN Blank ELSE nand'[b].cell[L2P'[b][l]].data[i]
      BY DEF WordAt
    <2> QED BY <1>2, <2>1, <2>2
  <1>5. \A i \in Offsets : Packed(i)' = Packed(i)
    BY <1>4 DEF Packed, InRequest, LbaAt, lpn
  <1> QED BY <1>5 DEF HostInv

\* HostInv is kept by every step.
LEMMA StepHost == IndInv /\ HostInv /\ [Next]_vars => HostInv'
  <1> SUFFICES ASSUME IndInv, HostInv, [Next]_vars PROVE HostInv'
    OBVIOUS
  <1>1. CASE Submit
    <2>1. pc = "idle" /\ pp' = pp /\ pc' \in {"read", "write"}
      BY <1>1 DEF Submit
    <2>2. pc' = "read" => DOMAIN rbuf' = SectorsFrom(req'.lba, req'.nsect)
      BY <1>1 DEF Submit
    <2> QED BY <2>1, <2>2 DEF HostInv
  <1>2. CASE FetchPage
    <2>1. DOMAIN rbuf' = DOMAIN rbuf /\ UNCHANGED <<req, pc>> /\ pc = "read"
      BY <1>2 DEF FetchPage
    <2> QED BY <2>1 DEF HostInv
  <1>3. CASE PackPage
    BY <1>3, PackPageHost
  <1>4. CASE GCStart
    <2>1. UNCHANGED <<ftlVars, req, pp, data>> /\ pc = "write_through" /\ pc' = "gc"
      BY <1>4 DEF GCStart
    <2>2. \A b \in Banks, l \in HalvedLpns, i \in Offsets : WordAt(b, l, i)' = WordAt(b, l, i)
      BY <2>1 DEF WordAt, ftlVars
    <2> QED BY <2>1, <2>2, KeepsPacked
  <1>5. CASE GCCopy
    <2>1. UNCHANGED <<req, pp, data, pc>> /\ pc = "gc"
      BY <1>5 DEF GCCopy
    <2> QED BY <1>5, <2>1, GCCopyWords, KeepsPacked
  <1>6. CASE GCFinish
    <2>1. UNCHANGED <<req, pp, data>> /\ pc = "gc" /\ pc' = "program"
      BY <1>6 DEF GCFinish
    <2> QED BY <1>6, <2>1, GCFinishWords, KeepsPacked
  <1>7. CASE Program \/ Return
    BY <1>7 DEF Program, Return, HostInv
  <1>8. CASE UNCHANGED vars
    <2>1. UNCHANGED ftlVars /\ UNCHANGED <<req, pc, pp, data, rbuf>>
      BY <1>8 DEF vars, callVars
    <2>2. \A i \in Offsets : Packed(i)' = Packed(i)
      BY <2>1 DEF Packed, InRequest, LbaAt, lpn, WordAt, bank, halved_lpn, ftlVars
    <2> QED BY <2>1, <2>2 DEF HostInv
  <1> QED BY <1>1, <1>2, <1>3, <1>4, <1>5, <1>6, <1>7, <1>8 DEF Next, Step

-----------------------------------------------------------------------------
\* Each step of the layer is one of the disk, or none.
OnPage == {s \in SectorsFrom(req.lba, req.nsect) : s \div SECTORS_PER_PAGE = lpn}

\* The sectors of a request lie on the disk; those of the page the call is on
\* are the words of that page.
LEMMA RequestSectors ==
    ASSUME IndInv, req.op # "idle"
    PROVE  /\ SectorsFrom(req.lba, req.nsect) \subseteq Lbas
           /\ \A s \in SectorsFrom(req.lba, req.nsect) : s \div SECTORS_PER_PAGE \in Nat
           /\ lpn \in Nat
  <1>1. /\ req.lba \in Nat /\ req.nsect \in Nat /\ pp \in Nat
        /\ req.lba + req.nsect <= N_SECTORS /\ N_SECTORS \in Nat
    <2>1. N_SECTORS \in Nat
      BY Capacity DEF N_SECTORS, N_LPNS
    <2> QED BY <2>1 DEF IndInv, TypeOK, CallInv
  <1>2. SectorsFrom(req.lba, req.nsect) \subseteq Lbas
    BY <1>1 DEF SectorsFrom, Lbas
  <1> QED BY <1>1, <1>2, Places, BankType

LEMMA PageSectors ==
    ASSUME NEW s \in Lbas
    PROVE  /\ s \div SECTORS_PER_PAGE = lpn =>
                /\ BankOf(s) = bank /\ HalvedOf(s) = halved_lpn
                /\ s = LbaAt(s % SECTORS_PER_PAGE)
           /\ \A i \in Offsets : lpn \in Nat /\ s = LbaAt(i) =>
                s \div SECTORS_PER_PAGE = lpn /\ i = s % SECTORS_PER_PAGE
           /\ lpn \in Nat /\ BankOf(s) = bank /\ HalvedOf(s) = halved_lpn =>
                s \div SECTORS_PER_PAGE = lpn
  <1>1. s \div SECTORS_PER_PAGE = lpn =>
                /\ BankOf(s) = bank /\ HalvedOf(s) = halved_lpn
                /\ s = LbaAt(s % SECTORS_PER_PAGE)
    BY Places DEF BankOf, HalvedOf, bank, halved_lpn, LbaAt
  <1>2. ASSUME NEW i \in Offsets, lpn \in Nat, s = LbaAt(i)
        PROVE  s \div SECTORS_PER_PAGE = lpn /\ i = s % SECTORS_PER_PAGE
    BY <1>2, DivMod DEF LbaAt, Offsets
  <1>3. ASSUME lpn \in Nat, BankOf(s) = bank, HalvedOf(s) = halved_lpn
        PROVE  s \div SECTORS_PER_PAGE = lpn
    <2>1. lpn = (lpn \div N_BANKS) * N_BANKS + (lpn % N_BANKS)
      BY <1>3, DivMod
    <2>2. s \div SECTORS_PER_PAGE = HalvedOf(s) * N_BANKS + BankOf(s)
      BY Places
    <2> QED BY <1>3, <2>1, <2>2 DEF bank, halved_lpn
  <1> QED BY <1>1, <1>2, <1>3

\* What is left to do, when a page has been dealt with.
LEMMA TodoShrinks ==
    ASSUME IndInv, req.op # "idle", req' = req, pp' = pp + 1, pc # "idle", pc' # "idle"
    PROVE  TodoOfFTL' = TodoOfFTL \ OnPage /\ OnPage \subseteq TodoOfFTL
  <1>1. lpn \in Nat /\ lpn' = lpn + 1
    <2>1. lpn \in Nat /\ req.lba \div SECTORS_PER_PAGE \in Nat /\ pp \in Nat
      BY RequestSectors, DivMod DEF IndInv, TypeOK
    <2> QED BY <2>1 DEF lpn
  <1>2. \A s \in SectorsFrom(req.lba, req.nsect) : s \div SECTORS_PER_PAGE \in Nat
    BY RequestSectors
  <1> QED BY <1>1, <1>2 DEF TodoOfFTL, OnPage

\* A call begins as the disk's does.
LEMMA SubmitIs == ASSUME IndInv, HostInv, IndInv', Submit PROVE Disk!Submit
  <1>1. PICK lba \in 0 .. N_SECTORS - 1, nsect \in 0 .. MaxSect :
           /\ lba + nsect <= N_SECTORS
           /\ \/ /\ req' = [op |-> "read", lba |-> lba, nsect |-> nsect, buf |-> <<>>]
                 /\ pc' = "read"
                 /\ rbuf' = [s \in SectorsFrom(lba, nsect) |-> Junk]
              \/ \E buf \in [SectorsFrom(lba, nsect) -> Word] :
                 /\ req' = [op |-> "write", lba |-> lba, nsect |-> nsect, buf |-> buf]
                 /\ pc' = "write"
                 /\ rbuf' = <<>>
    BY DEF Submit
  <1>2. pc = "idle" /\ pp' = 0 /\ UNCHANGED ftlVars /\ req.op = "idle"
    BY DEF Submit, HostInv, IndInv, CallInv
  <1>3. DiskOfFTL' = DiskOfFTL
    BY <1>2 DEF DiskOfFTL, SectorAt, Written, ftlVars
  <1>4. TodoOfFTL' = SectorsFrom(lba, nsect)
    <2>1. req'.lba = lba /\ req'.nsect = nsect /\ pc' # "idle"
      BY <1>1
    <2>2. lba \in Nat /\ nsect \in Nat
      BY Capacity DEF N_SECTORS, N_LPNS
    <2>3. lpn' = lba \div SECTORS_PER_PAGE /\ lba \div SECTORS_PER_PAGE \in Nat
      <3>1. lpn' = 0 + lba \div SECTORS_PER_PAGE
        BY <1>2, <2>1 DEF lpn
      <3>2. lba \div SECTORS_PER_PAGE \in Nat
        BY <2>2, DivMod
      <3> QED BY <3>1, <3>2
    <2>4. \A s \in SectorsFrom(lba, nsect) : s \div SECTORS_PER_PAGE >= lba \div SECTORS_PER_PAGE
      <3> TAKE s \in SectorsFrom(lba, nsect)
      <3>1. s \in Nat /\ s >= lba
        BY <2>2 DEF SectorsFrom
      <3> QED BY <2>2, <3>1
    <2> QED BY <2>1, <2>3, <2>4 DEF TodoOfFTL
  <1> QED BY <1>1, <1>2, <1>3, <1>4 DEF Disk!Submit, Disk!Lbas, Disk!SectorsFrom, SectorsFrom

\* A call that returns has no sector left to do.
LEMMA ReturnIs == ASSUME IndInv, HostInv, IndInv', Return PROVE Disk!Return
  <1>1. /\ pc \in {"read", "write"} /\ pp = send_kazu /\ UNCHANGED ftlVars
        /\ req' = Idle /\ rbuf' = <<>> /\ pc' = "idle"
    BY DEF Return
  <1>2. req.op # "idle"
    BY <1>1 DEF IndInv, CallInv
  <1>3. DiskOfFTL' = DiskOfFTL
    BY <1>1 DEF DiskOfFTL, SectorAt, Written, ftlVars
  <1>4. TodoOfFTL = {}
    <2> DEFINE last == req.lba + req.nsect - 1
    <2>1. req.lba \in Nat /\ req.nsect \in Nat
      BY DEF IndInv, TypeOK
    <2>2. req.lba \div SECTORS_PER_PAGE \in Nat /\ last \div SECTORS_PER_PAGE \in Int
      BY <2>1, DivMod
    <2>3. lpn = last \div SECTORS_PER_PAGE + 1
      BY <1>1, <2>1, <2>2 DEF lpn, send_kazu
    <2>4. ASSUME NEW s \in SectorsFrom(req.lba, req.nsect)
          PROVE  s \div SECTORS_PER_PAGE <= last \div SECTORS_PER_PAGE
      <3>1. s \in Nat /\ last \in Nat /\ s <= last
        BY <2>1 DEF SectorsFrom
      <3> QED BY <3>1
    <2>5. \A s \in SectorsFrom(req.lba, req.nsect) : s \div SECTORS_PER_PAGE \in Nat
      BY <1>2, RequestSectors
    <2> QED BY <2>2, <2>3, <2>4, <2>5 DEF TodoOfFTL
  <1>5. TodoOfFTL' = {}
    BY <1>1 DEF TodoOfFTL
  <1> QED BY <1>1, <1>2, <1>3, <1>4, <1>5 DEF Disk!Return, Disk!Idle, Idle

\* The copy of the page is what the disk is to hold.
LEMMA ProgramIs ==
    ASSUME IndInv, HostInv, IndInv', Program
    PROVE  OnPage \subseteq TodoOfFTL /\ Disk!Store(OnPage)
  <1> DEFINE b == bank
             l == halved_lpn
             n == next_ppn[b]
             new == [data |-> data, spare |-> l]
  <1>1. TypeOK /\ CallInv /\ pc \in {"program", "write_through"} /\ req.op = "write" /\ pp < send_kazu
    BY DEF IndInv, Program, AboutToProgram, CallInv, TypeOK
  <1>2. b \in Banks /\ l \in HalvedLpns
    BY <1>1, BankType, HalvedLpnType DEF TypeOK
  <1>3. n \in Ppns /\ ~Written(b, n) /\ WriteCode(nand[b], BlkOf(n), PageOf(n)) = "SUCCESS"
    <2>1. ~InGC(b)
      BY <1>1 DEF InGC
    <2>2. n \in Int /\ gc_trigger_ppn[b] \in Int /\ n <= gc_trigger_ppn[b]
      BY <1>1, <1>2 DEF TypeOK, IndInv, Frontier, Ppns
    <2>3. n < gc_trigger_ppn[b]
      BY <1>1, <2>2 DEF CallInv, Program, AboutToProgram, AtTrigger
    <2> QED BY <1>2, <2>1, <2>3, FrontierIsWritable
  <1>4. /\ nand' = [nand EXCEPT ![b] = NandWrite(nand[b], BlkOf(n), PageOf(n), new)]
        /\ L2P' = [L2P EXCEPT ![b][l] = n]
        /\ pc' = "write" /\ pp' = pp + 1 /\ UNCHANGED <<req, rbuf>>
    BY DEF Program
  <1>5. new \in Page /\ nand \in [Banks -> Chip] /\ L2P \in [Banks -> [HalvedLpns -> Ppns \cup {-1}]]
    BY <1>1, <1>2 DEF TypeOK, Page
  <1>6. /\ NandWrite(nand[b], BlkOf(n), PageOf(n), new) \in Chip
        /\ NandWrite(nand[b], BlkOf(n), PageOf(n), new).cell = [nand[b].cell EXCEPT ![n] = new]
        /\ NandWrite(nand[b], BlkOf(n), PageOf(n), new).blk_index
              = [nand[b].blk_index EXCEPT ![BlkOf(n)] = PageOf(n) + 1]
    <2>1. nand[b] \in Chip
      BY <1>2, <1>5
    <2>2. n \in Ppns /\ WriteCode(nand[b], BlkOf(n), PageOf(n)) = "SUCCESS"
      BY <1>3
    <2>3. new \in Page
      BY <1>5
    <2> QED BY <2>1, <2>2, <2>3, NandWriteFacts
  <1>7. \A i \in Offsets : new.data[i] = Packed(i)
    BY <1>1 DEF HostInv
  <1> HIDE DEF b, l, n, new
  <1>8. /\ \A c \in Banks, q \in Ppns :
              nand'[c].cell[q] = IF c = b /\ q = n THEN new ELSE nand[c].cell[q]
        /\ \A c \in Banks, m \in HalvedLpns :
              L2P'[c][m] = IF c = b /\ m = l THEN n ELSE L2P[c][m]
    <2>1. \A c \in Banks : nand[c] \in Chip
      BY <1>5
    <2> QED BY <1>2, <1>4, <1>5, <1>6, <2>1 DEF Chip
  <1>9. ASSUME NEW c \in Banks, NEW m \in HalvedLpns, NEW i \in Offsets, c = b, m = l
        PROVE  WordAt(c, m, i)' = new.data[i]
    <2>1. L2P'[c][m] = n /\ n # -1 /\ nand'[c].cell[n] = new
      BY <1>2, <1>3, <1>8, <1>9 DEF Ppns
    <2> QED BY <2>1 DEF WordAt
  <1>10. ASSUME NEW c \in Banks, NEW m \in HalvedLpns, NEW i \in Offsets, ~(c = b /\ m = l)
         PROVE  WordAt(c, m, i)' = WordAt(c, m, i)
    <2>1. L2P[c][m] # -1 => L2P[c][m] \in Ppns /\ Written(c, L2P[c][m])
      BY <1>5 DEF IndInv, MappedPagesAreCurrent
    <2> QED BY <1>3, <1>8, <1>10, <2>1 DEF WordAt
  <1>11. lpn \in Nat /\ SectorsFrom(req.lba, req.nsect) \subseteq Lbas
    BY <1>1, RequestSectors
  <1>12. \A lba \in Lbas : SectorAt(lba)' = IF lba \in OnPage THEN req.buf[lba] ELSE SectorAt(lba)
    <2> TAKE lba \in Lbas
    <2>1. /\ BankOf(lba) \in Banks /\ HalvedOf(lba) \in HalvedLpns
          /\ lba % SECTORS_PER_PAGE \in Offsets
      BY Places
    <2>2. /\ SectorAt(lba) = WordAt(BankOf(lba), HalvedOf(lba), lba % SECTORS_PER_PAGE)
          /\ SectorAt(lba)' = WordAt(BankOf(lba), HalvedOf(lba), lba % SECTORS_PER_PAGE)'
      BY SectorIs, SectorIsNext
    <2>3. CASE lba \div SECTORS_PER_PAGE = lpn
      <3>1. BankOf(lba) = b /\ HalvedOf(lba) = l /\ lba = LbaAt(lba % SECTORS_PER_PAGE)
        BY <2>3, PageSectors DEF b, l
      <3>2. SectorAt(lba)' = Packed(lba % SECTORS_PER_PAGE)
        BY <1>7, <1>9, <2>1, <2>2, <3>1
      <3>3. lba \in OnPage <=> InRequest(lba % SECTORS_PER_PAGE)
        BY <2>3, <3>1 DEF OnPage, InRequest
      <3> QED BY <2>2, <3>1, <3>2, <3>3 DEF Packed, b, l
    <2>4. CASE lba \div SECTORS_PER_PAGE # lpn
      <3>1. ~(BankOf(lba) = b /\ HalvedOf(lba) = l)
        BY <1>11, <2>4, PageSectors DEF b, l
      <3>2. lba \notin OnPage
        BY <2>4 DEF OnPage
      <3> QED BY <1>10, <2>1, <2>2, <3>1, <3>2
    <2> QED BY <2>3, <2>4
  <1>13. DiskOfFTL' = [lba \in Lbas |-> IF lba \in OnPage THEN req.buf[lba] ELSE DiskOfFTL[lba]]
    BY <1>12 DEF DiskOfFTL, Lbas
  <1>14. TodoOfFTL' = TodoOfFTL \ OnPage /\ OnPage \subseteq TodoOfFTL
    BY <1>1, <1>4, TodoShrinks
  <1> QED BY <1>1, <1>4, <1>13, <1>14 DEF Disk!Store, Disk!Lbas, Lbas

\* A page that was never written reads as blank but for the sector that may be
\* forgotten; one that was written reads as it is.
LEMMA FetchIs ==
    ASSUME IndInv, HostInv, IndInv', FetchPage
    PROVE  OnPage \subseteq TodoOfFTL /\ Disk!Fetch(OnPage)
  <1> DEFINE ppn == L2P[bank][halved_lpn]
  <1>1. /\ TypeOK /\ pc = "read" /\ req.op = "read" /\ pp < send_kazu
        /\ UNCHANGED ftlVars /\ UNCHANGED <<req, pc>> /\ pp' = pp + 1
    BY DEF IndInv, CallInv, FetchPage
  <1>2. bank \in Banks /\ halved_lpn \in HalvedLpns
    BY <1>1, BankType, HalvedLpnType DEF TypeOK
  <1>3. DiskOfFTL' = DiskOfFTL
    BY <1>1 DEF DiskOfFTL, SectorAt, Written, ftlVars
  <1>4. TodoOfFTL' = TodoOfFTL \ OnPage /\ OnPage \subseteq TodoOfFTL
    BY <1>1, TodoShrinks
  <1>5. lpn \in Nat /\ SectorsFrom(req.lba, req.nsect) \subseteq Lbas
    BY <1>1, RequestSectors
  <1>6. DOMAIN rbuf = SectorsFrom(req.lba, req.nsect)
    BY <1>1 DEF HostInv
  <1>7. \A s \in OnPage :
           /\ s \in Lbas /\ s % SECTORS_PER_PAGE \in Offsets /\ s = LbaAt(s % SECTORS_PER_PAGE)
           /\ DiskOfFTL[s] = WordAt(bank, halved_lpn, s % SECTORS_PER_PAGE)
    <2> TAKE s \in OnPage
    <2>1. s \in Lbas /\ s \div SECTORS_PER_PAGE = lpn
      BY <1>5 DEF OnPage
    <2>2. DiskOfFTL[s] = SectorAt(s)
      BY <2>1 DEF DiskOfFTL, Lbas
    <2> QED BY <2>1, <2>2, SectorIs, Places, PageSectors
  <1>8. \E F \in SUBSET {lba \in OnPage : Disk!Forgotten(lba)} :
           rbuf' = [s \in DOMAIN rbuf |-> IF s \in OnPage \ F THEN DiskOfFTL[s] ELSE rbuf[s]]
    <2>1. CASE ppn = -1
      <3> DEFINE F == {s \in OnPage : ~BlankFilled(s % SECTORS_PER_PAGE)}
      <3>1. rbuf' = [s \in DOMAIN rbuf |->
                        IF \E i \in Offsets : s = LbaAt(i) /\ BlankFilled(i)
                        THEN Blank ELSE rbuf[s]]
        BY <2>1 DEF FetchPage
      <3>2. \A s \in OnPage : DiskOfFTL[s] = Blank
        BY <1>7, <2>1 DEF WordAt
      <3>3. \A s \in F : s \in OnPage /\ Disk!Forgotten(s)
        BY <1>7, <3>2 DEF Disk!Forgotten, BlankFilled, InRequest, OnPage
      <3>4. ASSUME NEW s \in DOMAIN rbuf
            PROVE  (\E i \in Offsets : s = LbaAt(i) /\ BlankFilled(i)) <=> s \in OnPage \ F
        <4>1. s \in Lbas
          BY <1>5, <1>6
        <4>2. ASSUME NEW i \in Offsets, s = LbaAt(i), BlankFilled(i) PROVE s \in OnPage \ F
          <5>1. s \div SECTORS_PER_PAGE = lpn /\ i = s % SECTORS_PER_PAGE
            BY <1>5, <4>1, <4>2, PageSectors
          <5> QED BY <1>6, <4>2, <5>1 DEF OnPage
        <4>3. ASSUME s \in OnPage \ F PROVE \E i \in Offsets : s = LbaAt(i) /\ BlankFilled(i)
          BY <1>7, <4>3
        <4> QED BY <4>2, <4>3
      <3>5. rbuf' = [s \in DOMAIN rbuf |-> IF s \in OnPage \ F THEN DiskOfFTL[s] ELSE rbuf[s]]
        <4> HIDE DEF F
        <4> QED BY <3>1, <3>2, <3>4
      <3>6. F \in SUBSET {lba \in OnPage : Disk!Forgotten(lba)}
        BY <3>3
      <3> HIDE DEF F
      <3> QED BY <3>5, <3>6
    <2>2. CASE ppn # -1
      <3>1. /\ data' = ReadPage(bank, ppn, data)
            /\ rbuf' = [s \in DOMAIN rbuf |->
                        IF s \div SECTORS_PER_PAGE = lpn
                        THEN data'[s % SECTORS_PER_PAGE] ELSE rbuf[s]]
        BY <2>2 DEF FetchPage
      <3>2. \A i \in Offsets : data'[i] = WordAt(bank, halved_lpn, i)
        BY <1>2, <2>2, <3>1, ReadPageIs
      <3>3. \A s \in DOMAIN rbuf : s \div SECTORS_PER_PAGE = lpn <=> s \in OnPage
        BY <1>6 DEF OnPage
      <3>4. \A s \in OnPage : data'[s % SECTORS_PER_PAGE] = DiskOfFTL[s]
        BY <1>7, <3>2
      <3>5. rbuf' = [s \in DOMAIN rbuf |-> IF s \in OnPage \ {} THEN DiskOfFTL[s] ELSE rbuf[s]]
        BY <3>1, <3>3, <3>4
      <3> QED BY <3>5
    <2> QED BY <2>1, <2>2
  <1> QED BY <1>1, <1>3, <1>4, <1>8 DEF Disk!Fetch

\* The other steps do not show.
LEMMA Stutters ==
    ASSUME IndInv, HostInv, IndInv', UNCHANGED <<req, pp, rbuf>>, pc # "idle", pc' # "idle",
           DiskOfFTL' = DiskOfFTL
    PROVE  UNCHANGED Disk!vars
  <1>1. lpn' = lpn
    BY DEF lpn
  <1>2. TodoOfFTL' = TodoOfFTL
    BY <1>1 DEF TodoOfFTL
  <1> QED BY <1>2 DEF Disk!vars

\* A step of the layer is one of the disk, or does not show.
LEMMA DiskStep ==
    IndInv /\ HostInv /\ IndInv' /\ [Next]_vars => [Disk!Next]_(Disk!vars)
  <1> SUFFICES ASSUME IndInv, HostInv, IndInv', [Next]_vars PROVE [Disk!Next]_(Disk!vars)
    OBVIOUS
  <1>1. CASE Submit
    BY <1>1, SubmitIs DEF Disk!Next
  <1>2. CASE Return
    BY <1>2, ReturnIs DEF Disk!Next
  <1>3. CASE Program
    BY <1>3, ProgramIs DEF Disk!Next
  <1>4. CASE FetchPage
    BY <1>4, FetchIs DEF Disk!Next
  <1>5. CASE PackPage \/ GCStart
    <2>1. /\ UNCHANGED ftlVars /\ UNCHANGED <<req, pp, rbuf>> /\ pc # "idle" /\ pc' # "idle"
      BY <1>5 DEF PackPage, GCStart
    <2>2. DiskOfFTL' = DiskOfFTL
      BY <2>1 DEF DiskOfFTL, SectorAt, Written, ftlVars
    <2> QED BY <2>1, <2>2, Stutters
  <1>6. CASE GCCopy
    <2>1. UNCHANGED <<req, pp, rbuf>> /\ pc # "idle" /\ pc' # "idle"
      BY <1>6 DEF GCCopy
    <2> QED BY <1>6, <2>1, GCCopyWords, SameDisk, Stutters
  <1>7. CASE GCFinish
    <2>1. UNCHANGED <<req, pp, rbuf>> /\ pc # "idle" /\ pc' # "idle"
      BY <1>7 DEF GCFinish
    <2> QED BY <1>7, <2>1, GCFinishWords, SameDisk, Stutters
  <1>8. CASE UNCHANGED vars
    BY <1>8 DEF vars, callVars, ftlVars, Disk!vars, DiskOfFTL, SectorAt, Written, TodoOfFTL, lpn
  <1> QED BY <1>1, <1>2, <1>3, <1>4, <1>5, <1>6, <1>7, <1>8 DEF Next, Step

\* A layer that was never written is a blank disk.
LEMMA DiskInit == Init => Disk!Init
  <1> SUFFICES ASSUME Init PROVE Disk!Init
    OBVIOUS
  <1>1. \A lba \in Lbas : SectorAt(lba) = Blank
    <2> TAKE lba \in Lbas
    <2>1. BankOf(lba) \in Banks /\ HalvedOf(lba) \in HalvedLpns
      BY Places
    <2> QED BY <2>1 DEF Init, SectorAt, BankOf, HalvedOf
  <1>2. DiskOfFTL = [lba \in Lbas |-> Blank]
    BY <1>1 DEF DiskOfFTL, Lbas
  <1> QED BY <1>2 DEF Init, TodoOfFTL, Idle, Disk!Init, Disk!Lbas, Disk!Idle, Lbas

\* What a call has packed is still what it has to write when the collection it
\* starts has ended (ftl.c:126-170, 289-300).
THEOREM PackedStays == Spec => []HostInv
  BY Invariance, InitHost, StepHost, PTL DEF Spec

\* ftl_read and ftl_write are a disk: a sector is what was last written to it,
\* whatever is collected, on partial pages too, for every geometry.
THEOREM FTLIsADisk == Spec => ImplementsDisk
  BY Invariance, PackedStays, DiskInit, DiskStep, PTL DEF Spec, ImplementsDisk, Disk!Spec
=============================================================================
