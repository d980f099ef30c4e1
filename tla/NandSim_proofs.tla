--------------------------- MODULE NandSim_proofs ---------------------------
(***************************************************************************)
(* The chip of nand.c, for every geometry and every contents.  That        *)
(* iswritten and blk_index agree (WrittenPrefix) is inductive once the     *)
(* types are known; with it a block is the log of its pages up to          *)
(* blk_index, a call appends to one log, empties one, or changes nothing,  *)
(* and its return code is that of the abstract chip.                       *)
(***************************************************************************)
EXTENDS NandSim, SequenceTheorems, TLAPS

USE NandSimAssumption DEF NandSimAssumption

-----------------------------------------------------------------------------
\* Geometry: a page number is the pair of its block and its place in it.
LEMMA DivMod ==
    ASSUME NEW P \in Nat \ {0}
    PROVE  /\ \A b \in Nat, p \in 0 .. P - 1 :
                 (b * P + p) \div P = b /\ (b * P + p) % P = p
           /\ \A x \in Nat : /\ x = (x \div P) * P + (x % P)
                             /\ x % P \in 0 .. P - 1
           /\ \A B \in Nat : /\ \A b \in 0 .. B - 1, p \in 0 .. P - 1 : b * P + p \in 0 .. B * P - 1
                             /\ \A x \in 0 .. B * P - 1 : x \div P \in 0 .. B - 1
  <1>1. ASSUME NEW b \in Nat, NEW p \in 0 .. P - 1
        PROVE  (b * P + p) \div P = b /\ (b * P + p) % P = p
    BY <1>1
  <1>2. ASSUME NEW x \in Nat
        PROVE  x = (x \div P) * P + (x % P) /\ x % P \in 0 .. P - 1
    BY <1>2
  <1>3. ASSUME NEW B \in Nat, NEW b \in 0 .. B - 1, NEW p \in 0 .. P - 1
        PROVE  b * P + p \in 0 .. B * P - 1
    BY <1>3
  <1>4. ASSUME NEW B \in Nat, NEW x \in 0 .. B * P - 1
        PROVE  x \div P \in 0 .. B - 1
    BY <1>4
  <1> QED BY <1>1, <1>2, <1>3, <1>4

LEMMA PpnFacts ==
    /\ \A blk \in Blks, page \in Pages :
          /\ Ppn(blk, page) \in Ppns
          /\ BlkOf(Ppn(blk, page)) = blk
          /\ PageOf(Ppn(blk, page)) = page
    /\ \A ppn \in Ppns : /\ BlkOf(ppn) \in Blks
                         /\ PageOf(ppn) \in Pages
                         /\ ppn = Ppn(BlkOf(ppn), PageOf(ppn))
  <1>1. ASSUME NEW blk \in Blks, NEW page \in Pages
        PROVE  Ppn(blk, page) \in Ppns /\ BlkOf(Ppn(blk, page)) = blk /\ PageOf(Ppn(blk, page)) = page
    <2>1. blk \in Nat /\ page \in 0 .. PAGES_PER_BLK - 1 /\ blk \in 0 .. BLKS_PER_BANK - 1
      BY DEF Blks, Pages
    <2>2. blk * PAGES_PER_BLK + page \in 0 .. BLKS_PER_BANK * PAGES_PER_BLK - 1
      BY <2>1
    <2>3. (blk * PAGES_PER_BLK + page) \div PAGES_PER_BLK = blk
      BY <2>1
    <2>4. (blk * PAGES_PER_BLK + page) % PAGES_PER_BLK = page
      BY <2>1
    <2> QED BY <2>2, <2>3, <2>4 DEF Ppn, BlkOf, PageOf, Ppns
  <1>2. ASSUME NEW ppn \in Ppns
        PROVE  /\ BlkOf(ppn) \in Blks
               /\ PageOf(ppn) \in Pages
               /\ ppn = Ppn(BlkOf(ppn), PageOf(ppn))
    <2>1. ppn \in Nat /\ ppn \in 0 .. BLKS_PER_BANK * PAGES_PER_BLK - 1
      BY DEF Ppns
    <2> QED BY <2>1, DivMod DEF Ppn, BlkOf, PageOf, Blks, Pages
  <1> QED BY <1>1, <1>2

-----------------------------------------------------------------------------
\* One bank.
IsPrefix(chip) ==
    \A ppn \in Ppns : chip.cell[ppn] # Erased <=> PageOf(ppn) < chip.blk_index[BlkOf(ppn)]

\* An erased bank.
LEMMA EmptyFacts == EmptyBank \in Bank /\ IsPrefix(EmptyBank)
  <1>1. EmptyBank \in Bank
    BY DEF EmptyBank, Bank
  <1>2. \A ppn \in Ppns : PageOf(ppn) \in Pages /\ BlkOf(ppn) \in Blks
    BY PpnFacts
  <1> QED BY <1>1, <1>2 DEF EmptyBank, IsPrefix, Pages

\* What nand_write returns tells where the page lies in the log of its block.
LEMMA WriteCodeFacts ==
    ASSUME NEW chip \in Bank, IsPrefix(chip), NEW blk \in Blks, NEW page \in Pages
    PROVE  /\ chip.blk_index[blk] \in 0 .. PAGES_PER_BLK
           /\ WriteCode(chip, blk, page) =
                  IF page = chip.blk_index[blk] THEN "SUCCESS" ELSE "POSITION"
           /\ ReadCode(chip, blk, page) =
                  IF page < chip.blk_index[blk] THEN "SUCCESS" ELSE "EMPTY"
  <1>1. Ppn(blk, page) \in Ppns /\ BlkOf(Ppn(blk, page)) = blk /\ PageOf(Ppn(blk, page)) = page
    BY PpnFacts
  <1>2. chip.blk_index[blk] \in 0 .. PAGES_PER_BLK
    BY DEF Bank
  <1>3. chip.cell[Ppn(blk, page)] # Erased <=> page < chip.blk_index[blk]
    BY <1>1 DEF IsPrefix
  <1>4. page \in Int
    BY DEF Pages
  <1> QED BY <1>2, <1>3, <1>4 DEF WriteCode, ReadCode

\* A nand_write that succeeds keeps the bank in shape.
LEMMA WriteFacts ==
    ASSUME NEW chip \in Bank, IsPrefix(chip), NEW blk \in Blks, NEW page \in Pages,
           NEW content \in Page, page = chip.blk_index[blk]
    PROVE  LET new == NandWrite(chip, blk, page, content) IN
           /\ new \in Bank /\ IsPrefix(new)
           /\ new.cell = [chip.cell EXCEPT ![Ppn(blk, page)] = content]
           /\ new.blk_index = [chip.blk_index EXCEPT ![blk] = page + 1]
  <1> DEFINE new == NandWrite(chip, blk, page, content)
  <1>1. new = [cell      |-> [chip.cell EXCEPT ![Ppn(blk, page)] = content],
               blk_index |-> [chip.blk_index EXCEPT ![blk] = page + 1]]
    BY WriteCodeFacts DEF NandWrite
  <1>2. page + 1 \in 0 .. PAGES_PER_BLK
    BY DEF Pages
  <1>3. new \in Bank
    BY <1>1, <1>2, PpnFacts DEF Bank
  <1>4. ASSUME NEW ppn \in Ppns
        PROVE  new.cell[ppn] # Erased <=> PageOf(ppn) < new.blk_index[BlkOf(ppn)]
    <2>1. /\ BlkOf(ppn) \in Blks /\ PageOf(ppn) \in Int /\ page \in Int
          /\ ppn = Ppn(BlkOf(ppn), PageOf(ppn))
          /\ PageOf(Ppn(blk, page)) = page /\ BlkOf(Ppn(blk, page)) = blk
          /\ chip.blk_index \in [Blks -> 0 .. PAGES_PER_BLK]
          /\ chip.cell \in [Ppns -> Page \cup {Erased}]
      BY PpnFacts DEF Pages, Bank
    <2>2. CASE ppn = Ppn(blk, page)
      BY <1>1, <2>1, <2>2
    <2>3. CASE ppn # Ppn(blk, page) /\ BlkOf(ppn) = blk
      <3>1. PageOf(ppn) # page
        BY <2>1, <2>3
      <3>2. chip.cell[ppn] # Erased <=> PageOf(ppn) < page
        BY <2>3 DEF IsPrefix
      <3>3. new.cell[ppn] = chip.cell[ppn] /\ new.blk_index[BlkOf(ppn)] = page + 1
        BY <1>1, <2>1, <2>3
      <3> QED BY <2>1, <3>1, <3>2, <3>3
    <2>4. CASE BlkOf(ppn) # blk
      <3>1. new.cell[ppn] = chip.cell[ppn] /\ new.blk_index[BlkOf(ppn)] = chip.blk_index[BlkOf(ppn)]
        BY <1>1, <2>1, <2>4
      <3> QED BY <3>1 DEF IsPrefix
    <2> QED BY <2>2, <2>3, <2>4
  <1> QED BY <1>1, <1>3, <1>4 DEF IsPrefix

\* So does a nand_erase.
LEMMA EraseFacts ==
    ASSUME NEW chip \in Bank, IsPrefix(chip), NEW blk \in Blks, chip.blk_index[blk] # 0
    PROVE  LET new == NandErase(chip, blk) IN
           /\ new \in Bank /\ IsPrefix(new)
           /\ \A ppn \in Ppns : BlkOf(ppn) # blk => new.cell[ppn] = chip.cell[ppn]
           /\ new.blk_index = [chip.blk_index EXCEPT ![blk] = 0]
  <1> DEFINE new == NandErase(chip, blk)
  <1>1. new = [cell      |-> [ppn \in Ppns |-> IF BlkOf(ppn) = blk THEN Erased ELSE chip.cell[ppn]],
               blk_index |-> [chip.blk_index EXCEPT ![blk] = 0]]
    BY DEF NandErase, EraseCode
  <1>2. new \in Bank
    BY <1>1 DEF Bank
  <1>3. ASSUME NEW ppn \in Ppns
        PROVE  new.cell[ppn] # Erased <=> PageOf(ppn) < new.blk_index[BlkOf(ppn)]
    <2>1. BlkOf(ppn) \in Blks /\ PageOf(ppn) \in Pages /\ chip.blk_index \in [Blks -> 0 .. PAGES_PER_BLK]
      BY PpnFacts DEF Bank
    <2>2. CASE BlkOf(ppn) = blk
      BY <1>1, <2>1, <2>2 DEF Pages
    <2>3. CASE BlkOf(ppn) # blk
      BY <1>1, <2>1, <2>3 DEF IsPrefix
    <2> QED BY <2>2, <2>3
  <1> QED BY <1>1, <1>2, <1>3 DEF IsPrefix

-----------------------------------------------------------------------------
\* The invariant.
IInv == TypeOK /\ WrittenPrefix

\* Each bank is in shape.
LEMMA BankInv == ASSUME IInv, NEW bank \in Banks PROVE nand[bank] \in Bank /\ IsPrefix(nand[bank])
  BY DEF IInv, TypeOK, WrittenPrefix, IsPrefix

\* A call changes at most one bank, and keeps it in shape.
LEMMA BankStep ==
    ASSUME IInv, NEW bank \in Banks, NEW chip \in Bank, IsPrefix(chip),
           nand' = [nand EXCEPT ![bank] = chip],
           reply' \in [rc   : {"SUCCESS", "INVALID", "POSITION", "OVERWRITE", "EMPTY"},
                       page : Page \cup {<<>>}]
    PROVE  IInv'
  <1>1. TypeOK'
    BY DEF IInv, TypeOK
  <1>2. WrittenPrefix'
    <2> SUFFICES ASSUME NEW b \in Banks, NEW ppn \in Ppns
                 PROVE  nand'[b].cell[ppn] # Erased <=> PageOf(ppn) < nand'[b].blk_index[BlkOf(ppn)]
      BY DEF WrittenPrefix
    <2>1. nand'[b] = IF b = bank THEN chip ELSE nand[b]
      BY DEF IInv, TypeOK
    <2>2. IsPrefix(nand[b])
      BY BankInv
    <2> QED BY <2>1, <2>2 DEF IsPrefix
  <1> QED BY <1>1, <1>2 DEF IInv

LEMMA SameStep ==
    ASSUME IInv, UNCHANGED nand,
           reply' \in [rc   : {"SUCCESS", "INVALID", "POSITION", "OVERWRITE", "EMPTY"},
                       page : Page \cup {<<>>}]
    PROVE  IInv'
  BY DEF IInv, TypeOK, WrittenPrefix

LEMMA ReplyType ==
    \A rc \in {"SUCCESS", "INVALID", "POSITION", "OVERWRITE", "EMPTY"} :
        Reply(rc) \in [rc   : {"SUCCESS", "INVALID", "POSITION", "OVERWRITE", "EMPTY"},
                       page : Page \cup {<<>>}]
  BY DEF Reply

\* Each call keeps the invariant.
LEMMA WriteInv ==
    ASSUME IInv, NEW bank, NEW blk, NEW page, NEW content \in Page, Write(bank, blk, page, content)
    PROVE  IInv'
  <1>1. CASE bank \notin Banks
    BY <1>1, SameStep, ReplyType DEF Write
  <1>2. CASE bank \in Banks
    <2>1. nand[bank] \in Bank /\ IsPrefix(nand[bank])
      BY <1>2, BankInv
    <2>2. /\ nand' = [nand EXCEPT ![bank] = NandWrite(nand[bank], blk, page, content)]
          /\ reply' = Reply(WriteCode(nand[bank], blk, page))
      BY <1>2 DEF Write
    <2>3. WriteCode(nand[bank], blk, page) \in {"SUCCESS", "INVALID", "POSITION", "OVERWRITE"}
      BY DEF WriteCode
    <2>4. /\ NandWrite(nand[bank], blk, page, content) \in Bank
          /\ IsPrefix(NandWrite(nand[bank], blk, page, content))
      <3>1. CASE WriteCode(nand[bank], blk, page) = "SUCCESS"
        <4>1. blk \in Blks /\ page \in Pages /\ page = nand[bank].blk_index[blk]
          BY <3>1 DEF WriteCode
        <4> QED BY <2>1, <4>1, WriteFacts
      <3>2. CASE WriteCode(nand[bank], blk, page) # "SUCCESS"
        BY <2>1, <3>2 DEF NandWrite
      <3> QED BY <3>1, <3>2
    <2> QED BY <1>2, <2>2, <2>3, <2>4, BankStep, ReplyType
  <1> QED BY <1>1, <1>2

LEMMA ReadInv ==
    ASSUME IInv, NEW bank, NEW blk, NEW page, Read(bank, blk, page)
    PROVE  IInv'
  <1>1. CASE bank \notin Banks
    BY <1>1, SameStep, ReplyType DEF Read
  <1>2. CASE bank \in Banks
    <2>1. nand[bank] \in Bank
      BY <1>2, BankInv
    <2>2. /\ UNCHANGED nand
          /\ reply' = [rc   |-> ReadCode(nand[bank], blk, page),
                       page |-> NandRead(nand[bank], blk, page, <<>>)]
      BY <1>2 DEF Read
    <2>3. ReadCode(nand[bank], blk, page) \in {"SUCCESS", "INVALID", "EMPTY"}
      BY DEF ReadCode
    <2>4. NandRead(nand[bank], blk, page, <<>>) \in Page \cup {<<>>}
      <3>1. CASE ReadCode(nand[bank], blk, page) = "SUCCESS"
        <4>1. blk \in Blks /\ page \in Pages /\ nand[bank].cell[Ppn(blk, page)] # Erased
          BY <3>1 DEF ReadCode
        <4>2. nand[bank].cell[Ppn(blk, page)] \in Page
          BY <2>1, <4>1, PpnFacts DEF Bank
        <4> QED BY <3>1, <4>2 DEF NandRead
      <3> QED BY <3>1 DEF NandRead
    <2> QED BY <2>2, <2>3, <2>4, SameStep
  <1> QED BY <1>1, <1>2

LEMMA EraseInv ==
    ASSUME IInv, NEW bank, NEW blk, Erase(bank, blk)
    PROVE  IInv'
  <1>1. CASE bank \notin Banks
    BY <1>1, SameStep, ReplyType DEF Erase
  <1>2. CASE bank \in Banks
    <2>1. nand[bank] \in Bank /\ IsPrefix(nand[bank])
      BY <1>2, BankInv
    <2>2. /\ nand' = [nand EXCEPT ![bank] = NandErase(nand[bank], blk)]
          /\ reply' = Reply(EraseCode(nand[bank], blk))
      BY <1>2 DEF Erase
    <2>3. EraseCode(nand[bank], blk) \in {"SUCCESS", "INVALID", "EMPTY"}
      BY DEF EraseCode
    <2>4. NandErase(nand[bank], blk) \in Bank /\ IsPrefix(NandErase(nand[bank], blk))
      <3>1. CASE EraseCode(nand[bank], blk) = "SUCCESS"
        BY <2>1, <3>1, EraseFacts DEF EraseCode
      <3>2. CASE EraseCode(nand[bank], blk) # "SUCCESS"
        BY <2>1, <3>2 DEF NandErase
      <3> QED BY <3>1, <3>2
    <2> QED BY <1>2, <2>2, <2>3, <2>4, BankStep, ReplyType
  <1> QED BY <1>1, <1>2

LEMMA InitInv == Init => IInv
  <1> SUFFICES ASSUME Init PROVE IInv
    OBVIOUS
  <1>1. TypeOK
    BY EmptyFacts, ReplyType DEF Init, TypeOK
  <1>2. WrittenPrefix
    BY EmptyFacts DEF Init, WrittenPrefix, IsPrefix
  <1> QED BY <1>1, <1>2 DEF IInv

LEMMA StepInv == IInv /\ [Next]_vars => IInv'
  <1> SUFFICES ASSUME IInv, [Next]_vars PROVE IInv'
    OBVIOUS
  <1>1. CASE Next
    BY <1>1, WriteInv, ReadInv, EraseInv DEF Next
  <1>2. CASE UNCHANGED vars
    BY <1>2 DEF vars, IInv, TypeOK, WrittenPrefix
  <1> QED BY <1>1, <1>2

\* Types and the agreement of iswritten with blk_index hold after any calls.
THEOREM ChipInvariance == Spec => []IInv
  BY InitInv, StepInv, PTL DEF Spec

\* The tables of the chip keep their ranges: no blk_index passes the end of its
\* block, and a read that succeeds returns a page that was written.
THEOREM ChipTypeCorrect == Spec => []TypeOK
  BY ChipInvariance, PTL DEF IInv

\* iswritten and blk_index agree, whatever the calls and their addresses.
THEOREM BlocksAreLogs == Spec => []WrittenPrefix
  BY ChipInvariance, PTL DEF IInv

-----------------------------------------------------------------------------
\* The chip implements NandDevice.  A log is the sequence of the pages of its
\* block up to blk_index.
LEMMA LogFacts ==
    ASSUME IInv, NEW bank \in Banks, NEW blk \in Blks
    PROVE  LET log == LogOfNand[bank][blk]
               n   == nand[bank].blk_index[blk]
           IN  /\ n \in 0 .. PAGES_PER_BLK
               /\ log = [i \in 1 .. n |-> nand[bank].cell[Ppn(blk, i - 1)]]
               /\ log \in Seq(Page) /\ Len(log) = n
               /\ log = <<>> <=> n = 0
  <1> DEFINE n == nand[bank].blk_index[blk]
             log == LogOfNand[bank][blk]
  <1>1. nand[bank] \in Bank /\ IsPrefix(nand[bank])
    BY BankInv
  <1>2. n \in 0 .. PAGES_PER_BLK
    BY <1>1 DEF Bank
  <1>3. log = [i \in 1 .. n |-> nand[bank].cell[Ppn(blk, i - 1)]]
    BY DEF LogOfNand, LogOf
  <1>4. ASSUME NEW i \in 1 .. n PROVE nand[bank].cell[Ppn(blk, i - 1)] \in Page
    <2>1. i - 1 \in Pages /\ i - 1 < n
      BY <1>2 DEF Pages
    <2>2. nand[bank].cell[Ppn(blk, i - 1)] # Erased /\ Ppn(blk, i - 1) \in Ppns
      BY <1>1, <2>1, PpnFacts DEF IsPrefix
    <2> QED BY <1>1, <2>2 DEF Bank
  <1> HIDE DEF log
  <1>5. n \in Nat /\ log \in [1 .. n -> Page]
    BY <1>2, <1>3, <1>4
  <1> HIDE DEF n
  <1>6. log \in Seq(Page) /\ Len(log) = n
    BY <1>5
  <1>7. log = <<>> <=> n = 0
    BY <1>6, EmptySeq
  <1> QED BY <1>2, <1>3, <1>6, <1>7 DEF n, log

LEMMA LogSame ==
    ASSUME IInv, NEW bank \in Banks, NEW blk \in Blks,
           nand'[bank].blk_index[blk] = nand[bank].blk_index[blk],
           \A page \in Pages : nand'[bank].cell[Ppn(blk, page)] = nand[bank].cell[Ppn(blk, page)]
    PROVE  LogOfNand'[bank][blk] = LogOfNand[bank][blk]
  <1> DEFINE n == nand[bank].blk_index[blk]
  <1>1. n \in 0 .. PAGES_PER_BLK
    BY LogFacts
  <1>2. LogOfNand'[bank][blk] = [i \in 1 .. n |-> nand'[bank].cell[Ppn(blk, i - 1)]]
    BY DEF LogOfNand, LogOf
  <1>3. LogOfNand[bank][blk] = [i \in 1 .. n |-> nand[bank].cell[Ppn(blk, i - 1)]]
    BY DEF LogOfNand, LogOf
  <1>4. \A i \in 1 .. n : nand'[bank].cell[Ppn(blk, i - 1)] = nand[bank].cell[Ppn(blk, i - 1)]
    BY <1>1 DEF Pages
  <1> QED BY <1>2, <1>3, <1>4

\* A write that succeeds appends to the log of its block,
LEMMA LogAppended ==
    ASSUME IInv, IInv', NEW bank \in Banks, NEW blk \in Blks, NEW page \in Pages,
           NEW content \in Page, page = nand[bank].blk_index[blk],
           nand' = [nand EXCEPT ![bank] = NandWrite(nand[bank], blk, page, content)]
    PROVE  LogOfNand' = [LogOfNand EXCEPT ![bank][blk] = Append(@, content)]
  <1> DEFINE new == NandWrite(nand[bank], blk, page, content)
             n   == nand[bank].blk_index[blk]
  <1>1. /\ nand[bank] \in Bank /\ IsPrefix(nand[bank])
        /\ nand'[bank] = new /\ \A b \in Banks : b # bank => nand'[b] = nand[b]
    BY BankInv DEF IInv, TypeOK
  <1>2. /\ new.cell = [nand[bank].cell EXCEPT ![Ppn(blk, page)] = content]
        /\ new.blk_index = [nand[bank].blk_index EXCEPT ![blk] = page + 1]
    BY <1>1, WriteFacts
  <1>3. /\ \A b \in Banks, k \in Blks : nand[b].blk_index \in [Blks -> 0 .. PAGES_PER_BLK]
        /\ nand[bank].cell \in [Ppns -> Page \cup {Erased}]
    BY BankInv DEF Bank
  <1>4. ASSUME NEW b \in Banks, NEW k \in Blks, b # bank \/ k # blk
        PROVE  LogOfNand'[b][k] = LogOfNand[b][k]
    <2>1. \A p \in Pages : /\ Ppn(k, p) \in Ppns /\ BlkOf(Ppn(k, p)) = k
                          /\ Ppn(blk, page) \in Ppns /\ BlkOf(Ppn(blk, page)) = blk
      BY PpnFacts
    <2>2. nand'[b].blk_index[k] = nand[b].blk_index[k]
      BY <1>1, <1>2, <1>3, <1>4
    <2>3. \A p \in Pages : nand'[b].cell[Ppn(k, p)] = nand[b].cell[Ppn(k, p)]
      BY <1>1, <1>2, <1>3, <1>4, <2>1
    <2> QED BY <2>2, <2>3, LogSame
  <1>5. LogOfNand'[bank][blk] = Append(LogOfNand[bank][blk], content)
    <2> DEFINE log == LogOfNand[bank][blk]
               next == LogOfNand'[bank][blk]
    <2>1. /\ n \in 0 .. PAGES_PER_BLK /\ log \in Seq(Page) /\ Len(log) = n
          /\ log = [i \in 1 .. n |-> nand[bank].cell[Ppn(blk, i - 1)]]
      BY LogFacts
    <2>2. nand'[bank].blk_index[blk] = n + 1
      BY <1>1, <1>2, <1>3
    <2>3. next = [i \in 1 .. n + 1 |-> nand'[bank].cell[Ppn(blk, i - 1)]]
      BY <2>2 DEF LogOfNand, LogOf
    <2>4. ASSUME NEW i \in 1 .. n
          PROVE  nand'[bank].cell[Ppn(blk, i - 1)] = nand[bank].cell[Ppn(blk, i - 1)]
      <3>1. i - 1 \in Pages /\ i - 1 # page
        BY <2>1 DEF Pages
      <3>2. Ppn(blk, i - 1) \in Ppns /\ Ppn(blk, i - 1) # Ppn(blk, page)
        BY <3>1, PpnFacts
      <3> QED BY <1>1, <1>2, <1>3, <3>2
    <2>5. nand'[bank].cell[Ppn(blk, (n + 1) - 1)] = content
      <3>1. Ppn(blk, page) \in Ppns /\ (n + 1) - 1 = page
        BY <2>1, PpnFacts
      <3> QED BY <1>1, <1>2, <1>3, <3>1
    <2> HIDE DEF log, next
    <2>6. \A i \in 1 .. n : log[i] = nand[bank].cell[Ppn(blk, i - 1)]
      BY <2>1
    <2> HIDE DEF n
    <2>7. next = [i \in 1 .. n + 1 |-> IF i = n + 1 THEN content ELSE log[i]]
      <3>1. \A i \in 1 .. n + 1 : i \in 1 .. n \/ i = n + 1
        BY <2>1
      <3> QED BY <2>1, <2>3, <2>4, <2>5, <2>6, <3>1
    <2>8. next = Append(log, content)
      BY <2>1, <2>7
    <2> QED BY <2>8 DEF log, next
  <1>6. LogOfNand' = [b \in Banks |-> [k \in Blks |-> LogOfNand'[b][k]]]
    BY DEF LogOfNand
  <1>7. LogOfNand = [b \in Banks |-> [k \in Blks |-> LogOfNand[b][k]]]
    BY DEF LogOfNand
  <1> DEFINE old == LogOfNand
             nxt == LogOfNand'
  <1> HIDE DEF old, nxt
  <1> QED BY <1>4, <1>5, <1>6, <1>7 DEF old, nxt

\* and an erase that succeeds empties it.
LEMMA LogEmptied ==
    ASSUME IInv, IInv', NEW bank \in Banks, NEW blk \in Blks, nand[bank].blk_index[blk] # 0,
           nand' = [nand EXCEPT ![bank] = NandErase(nand[bank], blk)]
    PROVE  LogOfNand' = [LogOfNand EXCEPT ![bank] =
                            [b \in Blks |-> IF b \in {blk} THEN <<>> ELSE @[b]]]
  <1> DEFINE new == NandErase(nand[bank], blk)
  <1>1. /\ nand[bank] \in Bank /\ IsPrefix(nand[bank])
        /\ nand'[bank] = new /\ \A b \in Banks : b # bank => nand'[b] = nand[b]
    BY BankInv DEF IInv, TypeOK
  <1>2. /\ \A ppn \in Ppns : BlkOf(ppn) # blk => new.cell[ppn] = nand[bank].cell[ppn]
        /\ new.blk_index = [nand[bank].blk_index EXCEPT ![blk] = 0]
    BY <1>1, EraseFacts
  <1>3. \A b \in Banks : nand[b].blk_index \in [Blks -> 0 .. PAGES_PER_BLK]
    BY BankInv DEF Bank
  <1>4. ASSUME NEW b \in Banks, NEW k \in Blks, b # bank \/ k # blk
        PROVE  LogOfNand'[b][k] = LogOfNand[b][k]
    <2>1. \A p \in Pages : Ppn(k, p) \in Ppns /\ BlkOf(Ppn(k, p)) = k
      BY PpnFacts
    <2>2. nand'[b].blk_index[k] = nand[b].blk_index[k]
      BY <1>1, <1>2, <1>3, <1>4
    <2>3. \A p \in Pages : nand'[b].cell[Ppn(k, p)] = nand[b].cell[Ppn(k, p)]
      BY <1>1, <1>2, <1>4, <2>1
    <2> QED BY <2>2, <2>3, LogSame
  <1>5. LogOfNand'[bank][blk] = <<>>
    <2>1. nand'[bank].blk_index[blk] = 0
      BY <1>1, <1>2, <1>3
    <2>2. LogOfNand'[bank][blk] = [i \in 1 .. 0 |-> nand'[bank].cell[Ppn(blk, i - 1)]]
      BY <2>1 DEF LogOfNand, LogOf
    <2> QED BY <2>2
  <1>6. LogOfNand' = [b \in Banks |-> [k \in Blks |-> LogOfNand'[b][k]]]
    BY DEF LogOfNand
  <1>7. LogOfNand = [b \in Banks |-> [k \in Blks |-> LogOfNand[b][k]]]
    BY DEF LogOfNand
  <1> DEFINE old == LogOfNand
             nxt == LogOfNand'
  <1> HIDE DEF old, nxt
  <1> QED BY <1>4, <1>5, <1>6, <1>7 DEF old, nxt

\* Each call is a call of the abstract chip, with the same arguments.
LEMMA WriteImplements ==
    ASSUME IInv, IInv', NEW bank, NEW blk, NEW page, NEW content \in Page,
           Write(bank, blk, page, content)
    PROVE  Device!Write(bank, blk, page, content)
  <1>1. CASE ~Device!Valid(bank, blk, page)
    <2>1. bank \notin Banks \/ blk \notin Blks \/ page \notin Pages
      BY <1>1 DEF Device!Valid, Device!Banks, Device!Blks, Device!Pages, Banks, Blks, Pages
    <2>2. reply' = Reply("INVALID") /\ nand' = nand
      <3>1. CASE bank \notin Banks
        BY <3>1 DEF Write
      <3>2. CASE bank \in Banks
        <4>1. WriteCode(nand[bank], blk, page) = "INVALID"
          BY <2>1, <3>2 DEF WriteCode
        <4>2. NandWrite(nand[bank], blk, page, content) = nand[bank]
          BY <4>1 DEF NandWrite
        <4> QED BY <3>2, <4>1, <4>2 DEF Write, IInv, TypeOK
      <3> QED BY <3>1, <3>2
    <2>3. LogOfNand' = LogOfNand
      BY <2>2 DEF LogOfNand, LogOf
    <2> QED BY <1>1, <2>2, <2>3 DEF Device!Write, Device!Refuse, Device!Reply, Reply
  <1>2. CASE Device!Valid(bank, blk, page)
    <2>1. bank \in Banks /\ blk \in Blks /\ page \in Pages
      BY <1>2 DEF Device!Valid, Device!Banks, Device!Blks, Device!Pages, Banks, Blks, Pages
    <2> DEFINE n == nand[bank].blk_index[blk]
    <2>2. /\ nand[bank] \in Bank /\ IsPrefix(nand[bank])
          /\ n \in 0 .. PAGES_PER_BLK /\ Len(LogOfNand[bank][blk]) = n
      BY <2>1, BankInv, LogFacts
    <2>3. WriteCode(nand[bank], blk, page) = IF page = n THEN "SUCCESS" ELSE "POSITION"
      BY <2>1, <2>2, WriteCodeFacts
    <2>4. /\ nand' = [nand EXCEPT ![bank] = NandWrite(nand[bank], blk, page, content)]
          /\ reply' = Reply(WriteCode(nand[bank], blk, page))
      BY <2>1 DEF Write
    <2>5. CASE page = n
      <3>1. LogOfNand' = [LogOfNand EXCEPT ![bank][blk] = Append(@, content)]
        BY <2>1, <2>4, <2>5, LogAppended
      <3>2. reply' = Device!Reply("SUCCESS") /\ page = Len(LogOfNand[bank][blk])
        BY <2>2, <2>3, <2>4, <2>5 DEF Device!Reply, Reply
      <3> QED BY <1>2, <3>1, <3>2 DEF Device!Write
    <2>6. CASE page # n
      <3>1. nand' = nand
        BY <2>2, <2>3, <2>4, <2>6 DEF NandWrite, IInv, TypeOK
      <3>2. LogOfNand' = LogOfNand
        BY <3>1 DEF LogOfNand, LogOf
      <3>3. reply' = Device!Reply("POSITION")
        BY <2>3, <2>4, <2>6 DEF Device!Reply, Reply
      <3>4. page < Len(LogOfNand[bank][blk]) \/ page > Len(LogOfNand[bank][blk])
        BY <2>1, <2>2, <2>6 DEF Pages
      <3> QED BY <1>2, <3>2, <3>3, <3>4 DEF Device!Write, Device!Refuse
    <2> QED BY <2>5, <2>6
  <1> QED BY <1>1, <1>2

LEMMA ReadImplements ==
    ASSUME IInv, NEW bank, NEW blk, NEW page, Read(bank, blk, page)
    PROVE  Device!Read(bank, blk, page)
  <1>0. LogOfNand' = LogOfNand
    BY DEF Read, LogOfNand, LogOf
  <1>1. CASE ~Device!Valid(bank, blk, page)
    <2>1. bank \notin Banks \/ blk \notin Blks \/ page \notin Pages
      BY <1>1 DEF Device!Valid, Device!Banks, Device!Blks, Device!Pages, Banks, Blks, Pages
    <2>2. reply' = Reply("INVALID")
      BY <2>1 DEF Read, ReadCode, NandRead, Reply
    <2> QED BY <1>0, <1>1, <2>2 DEF Device!Read, Device!Refuse, Device!Reply, Reply
  <1>2. CASE Device!Valid(bank, blk, page)
    <2>1. bank \in Banks /\ blk \in Blks /\ page \in Pages
      BY <1>2 DEF Device!Valid, Device!Banks, Device!Blks, Device!Pages, Banks, Blks, Pages
    <2> DEFINE n == nand[bank].blk_index[blk]
               log == LogOfNand[bank][blk]
    <2>2. /\ nand[bank] \in Bank /\ IsPrefix(nand[bank])
          /\ n \in 0 .. PAGES_PER_BLK /\ Len(log) = n
          /\ log = [i \in 1 .. n |-> nand[bank].cell[Ppn(blk, i - 1)]]
      BY <2>1, BankInv, LogFacts
    <2>3. ReadCode(nand[bank], blk, page) = IF page < n THEN "SUCCESS" ELSE "EMPTY"
      BY <2>1, <2>2, WriteCodeFacts
    <2>4. reply' = [rc   |-> ReadCode(nand[bank], blk, page),
                    page |-> NandRead(nand[bank], blk, page, <<>>)]
      BY <2>1 DEF Read
    <2>5. page \in Nat
      BY <2>1 DEF Pages
    <2>6. CASE page < n
      <3>1. page + 1 \in 1 .. n /\ (page + 1) - 1 = page
        BY <2>2, <2>5, <2>6
      <3>2. log[page + 1] = nand[bank].cell[Ppn(blk, page)]
        BY <2>2, <3>1
      <3>3. reply' = [rc |-> "SUCCESS", page |-> log[page + 1]]
        BY <2>3, <2>4, <2>6, <3>2 DEF NandRead
      <3> QED BY <1>0, <1>2, <2>2, <2>6, <3>3 DEF Device!Read
    <2>7. CASE ~(page < n)
      <3>1. reply' = Device!Reply("EMPTY")
        BY <2>3, <2>4, <2>7 DEF NandRead, Device!Reply
      <3>2. page >= Len(log)
        BY <2>2, <2>5, <2>7
      <3> QED BY <1>0, <1>2, <3>1, <3>2 DEF Device!Read, Device!Refuse
    <2> QED BY <2>6, <2>7
  <1> QED BY <1>1, <1>2

LEMMA EraseImplements ==
    ASSUME IInv, IInv', NEW bank, NEW blk, Erase(bank, blk)
    PROVE  Device!Erase(bank, blk)
  <1>0. Device!Unit(blk) = {blk} /\ Device!Blks = Blks /\ 0 \in Pages
    BY DEF Device!Unit, Device!Blks, Blks, Pages
  <1>1. CASE ~Device!Valid(bank, blk, 0)
    <2>1. bank \notin Banks \/ blk \notin Blks
      BY <1>0, <1>1 DEF Device!Valid, Device!Banks, Device!Blks, Device!Pages, Banks, Blks, Pages
    <2>2. reply' = Reply("INVALID") /\ nand' = nand
      <3>1. CASE bank \notin Banks
        BY <3>1 DEF Erase
      <3>2. CASE bank \in Banks
        BY <2>1, <3>2 DEF Erase, EraseCode, NandErase, IInv, TypeOK
      <3> QED BY <3>1, <3>2
    <2>3. LogOfNand' = LogOfNand
      BY <2>2 DEF LogOfNand, LogOf
    <2> QED BY <1>1, <2>2, <2>3 DEF Device!Erase, Device!Refuse, Device!Reply, Reply
  <1>2. CASE Device!Valid(bank, blk, 0)
    <2>1. bank \in Banks /\ blk \in Blks
      BY <1>2 DEF Device!Valid, Device!Banks, Device!Blks, Banks, Blks
    <2> DEFINE n == nand[bank].blk_index[blk]
    <2>2. LogOfNand[bank][blk] = <<>> <=> n = 0
      BY <2>1, LogFacts
    <2>3. /\ nand' = [nand EXCEPT ![bank] = NandErase(nand[bank], blk)]
          /\ reply' = Reply(EraseCode(nand[bank], blk))
          /\ EraseCode(nand[bank], blk) = IF n = 0 THEN "EMPTY" ELSE "SUCCESS"
      BY <2>1 DEF Erase, EraseCode
    <2>4. CASE n = 0
      <3>1. nand' = nand
        BY <2>1, <2>3, <2>4 DEF NandErase, IInv, TypeOK
      <3>2. LogOfNand' = LogOfNand
        BY <3>1 DEF LogOfNand, LogOf
      <3>3. reply' = Device!Reply("EMPTY")
        BY <2>3, <2>4 DEF Device!Reply, Reply
      <3> QED BY <1>0, <1>2, <2>2, <2>4, <3>2, <3>3 DEF Device!Erase, Device!Refuse
    <2>5. CASE n # 0
      <3>1. LogOfNand' = [LogOfNand EXCEPT ![bank] =
                            [b \in Blks |-> IF b \in {blk} THEN <<>> ELSE @[b]]]
        BY <2>1, <2>3, <2>5, LogEmptied
      <3>2. reply' = Device!Reply("SUCCESS")
        BY <2>3, <2>5 DEF Device!Reply, Reply
      <3> QED BY <1>0, <1>2, <2>2, <2>5, <3>1, <3>2 DEF Device!Erase
    <2> QED BY <2>4, <2>5
  <1> QED BY <1>1, <1>2

LEMMA DeviceInit == Init => Device!Init
  <1> SUFFICES ASSUME Init PROVE Device!Init
    OBVIOUS
  <1>1. \A bank \in Banks, blk \in Blks : nand[bank].blk_index[blk] = 0
    BY DEF Init, EmptyBank
  <1>2. \A bank \in Banks, blk \in Blks : LogOf(bank, blk) = <<>>
    BY <1>1 DEF LogOf
  <1>3. LogOfNand = [bank \in Banks |-> [blk \in Blks |-> <<>>]]
    BY <1>2 DEF LogOfNand
  <1> QED BY <1>3 DEF Init, Device!Init, Device!Banks, Device!Blks, Banks, Blks, Device!Reply, Reply

\* The chip is a set of append-only logs: every call replies and acts as the
\* comments of nand.c say, but for the code of a rewrite, which it leaves open.
THEOREM ChipImplementsDevice == Spec => ImplementsDevice
  <1>1. IInv /\ IInv' /\ [Next]_vars => [Device!Next]_(Device!vars)
    <2> SUFFICES ASSUME IInv, IInv', [Next]_vars PROVE [Device!Next]_(Device!vars)
      OBVIOUS
    <2>1. CASE UNCHANGED vars
      BY <2>1 DEF vars, Device!vars, LogOfNand, LogOf
    <2>2. CASE Next
      BY <2>2, WriteImplements, ReadImplements, EraseImplements DEF Next, Device!Next
    <2> QED BY <2>1, <2>2
  <1> QED BY ChipInvariance, DeviceInit, <1>1, PTL DEF Spec, ImplementsDevice, Device!Spec

=============================================================================
