--------------------------- MODULE NandHw1_proofs ---------------------------
(***************************************************************************)
(* The chip of Lab #1, for every geometry and every contents.  The flags   *)
(* of a block's pages stand for one number, the position of the block      *)
(* (Position); what the model counts (LengthOf) is that number.  A write   *)
(* that succeeds moves it by one, an erase sets that of every block of the *)
(* bank back to 0, and so the chip is a set of logs erased by banks.       *)
(***************************************************************************)
EXTENDS NandHw1, Sequences, FiniteSetTheorems, SequenceTheorems, TLAPS

USE NandHw1Assumption DEF NandHw1Assumption

-----------------------------------------------------------------------------
\* The flags of a block say that n pages are written.
Position(written, next, n) ==
    \A page \in Pages : /\ written[page] <=> page < n
                        /\ next[page] <=> page = n

Flags == [Banks -> [Blks -> [Pages -> BOOLEAN]]]

IInv ==
    /\ content \in [Banks -> [Blks -> [Pages -> Page \cup {Zero}]]]
    /\ WRITTEN \in Flags /\ BE_WRITTEN \in Flags
    /\ \A bank \in Banks, blk \in Blks :
          \E n \in 0 .. PAGES_PER_BLK : Position(WRITTEN[bank][blk], BE_WRITTEN[bank][blk], n)

\* LengthOf is the position.
LEMMA PositionIsLength ==
    ASSUME NEW bank, NEW blk, NEW n \in 0 .. PAGES_PER_BLK,
           Position(WRITTEN[bank][blk], BE_WRITTEN[bank][blk], n)
    PROVE  LengthOf(bank, blk) = n
  <1>1. {page \in Pages : WRITTEN[bank][blk][page]} = 0 .. n - 1
    BY DEF Position, Pages
  <1>2. Cardinality(0 .. n - 1) = n
    BY FS_Interval
  <1> QED BY <1>1, <1>2 DEF LengthOf

\* So are the flags of a block on which nothing is written.
LEMMA FirstPosition ==
    ASSUME NEW written, NEW next, written = [page \in Pages |-> FALSE],
           next = [page \in Pages |-> page = 0]
    PROVE  Position(written, next, 0)
  <1> SUFFICES ASSUME NEW page \in Pages
               PROVE  (written[page] <=> page < 0) /\ (next[page] <=> page = 0)
    BY Zenon DEF Position
  <1>1. ~written[page] /\ (next[page] <=> page = 0)
    BY Zenon
  <1>2. ~(page < 0)
    BY DEF Pages
  <1> QED BY <1>1, <1>2

LEMMA LengthFacts ==
    ASSUME IInv, NEW bank \in Banks, NEW blk \in Blks
    PROVE  /\ LengthOf(bank, blk) \in 0 .. PAGES_PER_BLK
           /\ Position(WRITTEN[bank][blk], BE_WRITTEN[bank][blk], LengthOf(bank, blk))
  BY PositionIsLength DEF IInv

LEMMA PrimedLength ==
    ASSUME NEW bank, NEW blk, NEW n \in 0 .. PAGES_PER_BLK,
           Position(WRITTEN'[bank][blk], BE_WRITTEN'[bank][blk], n)
    PROVE  LengthOf(bank, blk)' = n
  <1>1. {page \in Pages : WRITTEN'[bank][blk][page]} = 0 .. n - 1
    BY DEF Position, Pages
  <1>2. Cardinality(0 .. n - 1) = n
    BY FS_Interval
  <1> QED BY <1>1, <1>2 DEF LengthOf

-----------------------------------------------------------------------------
\* What the calls do to the position of a block.
LEMMA WriteCodeFacts ==
    ASSUME IInv, NEW bank \in Banks, NEW blk \in Blks, NEW page \in Pages
    PROVE  WriteCode(bank, blk, page) =
               IF page < LengthOf(bank, blk) THEN "OVERWRITE"
               ELSE IF page > LengthOf(bank, blk) THEN "POSITION" ELSE "SUCCESS"
  <1>1. LengthOf(bank, blk) \in Int /\ page \in Int
    BY LengthFacts DEF Pages
  <1>2. /\ WRITTEN[bank][blk][page] <=> page < LengthOf(bank, blk)
        /\ BE_WRITTEN[bank][blk][page] <=> page = LengthOf(bank, blk)
    BY LengthFacts DEF Position
  <1> QED BY <1>1, <1>2 DEF WriteCode

\* A write that succeeds moves the position of its block by one.
LEMMA WriteFacts ==
    ASSUME IInv, NEW bank \in Banks, NEW blk \in Blks, NEW page \in Pages, NEW new \in Page,
           page = LengthOf(bank, blk), Write(bank, blk, page, new)
    PROVE  /\ content' = [content EXCEPT ![bank][blk][page] = new]
           /\ IInv'
           /\ \A b \in Banks, k \in Blks :
                LengthOf(b, k)' = IF b = bank /\ k = blk THEN page + 1 ELSE LengthOf(b, k)
  <1>1. WriteCode(bank, blk, page) = "SUCCESS"
    BY WriteCodeFacts DEF Pages
  <1>2. /\ content' = [content EXCEPT ![bank][blk][page] = new]
        /\ WRITTEN' = [WRITTEN EXCEPT ![bank][blk][page] = TRUE]
        /\ BE_WRITTEN' = [BE_WRITTEN EXCEPT ![bank][blk] = HandOn(@, page)]
    BY <1>1 DEF Write
  <1>3. page + 1 \in 0 .. PAGES_PER_BLK /\ page \in Nat
    BY DEF Pages
  <1>4. HandOn(BE_WRITTEN[bank][blk], page) \in [Pages -> BOOLEAN]
    <2> DEFINE flags == BE_WRITTEN[bank][blk]
    <2>1. \A p \in Pages : flags[p] \in BOOLEAN
      BY DEF IInv, Flags
    <2>2. \A p \in Pages :
             (IF p = page THEN FALSE ELSE IF p = page + 1 THEN TRUE ELSE flags[p]) \in BOOLEAN
      BY <2>1, Zenon
    <2> QED BY <2>2, Zenon DEF HandOn
  <1>5. /\ content' \in [Banks -> [Blks -> [Pages -> Page \cup {Zero}]]]
        /\ WRITTEN' \in Flags
    BY <1>2 DEF IInv, Flags
  <1>6. BE_WRITTEN' \in Flags
    BY <1>2, <1>4 DEF IInv, Flags
  <1>7. Position(WRITTEN'[bank][blk], BE_WRITTEN'[bank][blk], page + 1)
    <2>1. /\ WRITTEN'[bank][blk] = [WRITTEN[bank][blk] EXCEPT ![page] = TRUE]
          /\ BE_WRITTEN'[bank][blk] = HandOn(BE_WRITTEN[bank][blk], page)
      BY <1>2 DEF IInv, Flags
    <2>2. ASSUME NEW p \in Pages
          PROVE  /\ WRITTEN'[bank][blk][p] <=> p < page + 1
                 /\ BE_WRITTEN'[bank][blk][p] <=> p = page + 1
      <3>1. /\ WRITTEN[bank][blk][p] <=> p < page
            /\ BE_WRITTEN[bank][blk][p] <=> p = page
        BY LengthFacts DEF Position
      <3>2. p \in Nat /\ WRITTEN[bank][blk] \in [Pages -> BOOLEAN]
        BY DEF Pages, IInv, Flags
      <3>3. WRITTEN'[bank][blk][p] = IF p = page THEN TRUE ELSE WRITTEN[bank][blk][p]
        BY <2>1, <3>2
      <3>4. BE_WRITTEN'[bank][blk][p] =
                IF p = page THEN FALSE ELSE IF p = page + 1 THEN TRUE ELSE BE_WRITTEN[bank][blk][p]
        BY <2>1 DEF HandOn
      <3>5. WRITTEN'[bank][blk][p] <=> p < page + 1
        BY <1>3, <3>1, <3>2, <3>3
      <3>6. BE_WRITTEN'[bank][blk][p] <=> p = page + 1
        BY <1>3, <3>1, <3>2, <3>4
      <3> QED BY <3>5, <3>6
    <2> QED BY <2>2 DEF Position
  <1>8. ASSUME NEW b \in Banks, NEW k \in Blks, b # bank \/ k # blk
        PROVE  WRITTEN'[b][k] = WRITTEN[b][k] /\ BE_WRITTEN'[b][k] = BE_WRITTEN[b][k]
    BY <1>2, <1>8 DEF IInv, Flags
  <1>9. IInv'
    <2>1. \A b \in Banks, k \in Blks :
             \E n \in 0 .. PAGES_PER_BLK : Position(WRITTEN'[b][k], BE_WRITTEN'[b][k], n)
      BY <1>3, <1>7, <1>8 DEF IInv
    <2> QED BY <1>5, <1>6, <2>1 DEF IInv
  <1>10. ASSUME NEW b \in Banks, NEW k \in Blks
         PROVE  LengthOf(b, k)' = IF b = bank /\ k = blk THEN page + 1 ELSE LengthOf(b, k)
    <2>1. CASE b = bank /\ k = blk
      BY <1>3, <1>7, <2>1, PrimedLength
    <2>2. CASE b # bank \/ k # blk
      BY <1>8, <2>2 DEF LengthOf
    <2> QED BY <2>1, <2>2
  <1> QED BY <1>2, <1>9, <1>10

\* An erase that succeeds sets the positions of its bank to 0.
LEMMA EraseFacts ==
    ASSUME IInv, NEW bank \in Banks, NEW blk \in Blks,
           EraseCode(bank, blk) = "SUCCESS", Erase(bank, blk)
    PROVE  /\ content' = [content EXCEPT ![bank] = Blank(Zero)]
           /\ IInv'
           /\ \A b \in Banks, k \in Blks :
                LengthOf(b, k)' = IF b = bank THEN 0 ELSE LengthOf(b, k)
  <1>1. /\ content' = [content EXCEPT ![bank] = Blank(Zero)]
        /\ WRITTEN' = [WRITTEN EXCEPT ![bank] = Blank(FALSE)]
        /\ BE_WRITTEN' = [BE_WRITTEN EXCEPT ![bank] = FirstPages]
    BY DEF Erase
  <1>2. /\ content' \in [Banks -> [Blks -> [Pages -> Page \cup {Zero}]]]
        /\ WRITTEN' \in Flags /\ BE_WRITTEN' \in Flags
    BY <1>1 DEF IInv, Flags, Blank, FirstPages
  <1>3. ASSUME NEW k \in Blks PROVE Position(WRITTEN'[bank][k], BE_WRITTEN'[bank][k], 0)
    <2>1. /\ WRITTEN'[bank][k] = [page \in Pages |-> FALSE]
          /\ BE_WRITTEN'[bank][k] = [page \in Pages |-> page = 0]
      BY <1>1 DEF IInv, Flags, Blank, FirstPages
    <2> QED BY <2>1, FirstPosition
  <1>4. ASSUME NEW b \in Banks, NEW k \in Blks, b # bank
        PROVE  WRITTEN'[b][k] = WRITTEN[b][k] /\ BE_WRITTEN'[b][k] = BE_WRITTEN[b][k]
    BY <1>1, <1>4 DEF IInv, Flags
  <1>5. IInv'
    <2>1. \A b \in Banks, k \in Blks :
             \E n \in 0 .. PAGES_PER_BLK : Position(WRITTEN'[b][k], BE_WRITTEN'[b][k], n)
      BY <1>3, <1>4 DEF IInv
    <2> QED BY <1>2, <2>1 DEF IInv
  <1>6. ASSUME NEW b \in Banks, NEW k \in Blks
        PROVE  LengthOf(b, k)' = IF b = bank THEN 0 ELSE LengthOf(b, k)
    <2>1. CASE b = bank
      BY <1>3, <2>1, PrimedLength
    <2>2. CASE b # bank
      BY <1>4, <2>2 DEF LengthOf
    <2> QED BY <2>1, <2>2
  <1> QED BY <1>1, <1>5, <1>6

-----------------------------------------------------------------------------
\* The invariant.
LEMMA InitInv == Init => IInv
  <1> SUFFICES ASSUME Init PROVE IInv
    OBVIOUS
  <1>1. /\ content \in [Banks -> [Blks -> [Pages -> Page \cup {Zero}]]]
        /\ WRITTEN \in Flags /\ BE_WRITTEN \in Flags
    BY DEF Init, Flags, Blank, FirstPages
  <1>2. ASSUME NEW bank \in Banks, NEW blk \in Blks
        PROVE  Position(WRITTEN[bank][blk], BE_WRITTEN[bank][blk], 0)
    BY FirstPosition DEF Init, Blank, FirstPages
  <1> QED BY <1>1, <1>2 DEF IInv

LEMMA SameInv == IInv /\ UNCHANGED <<content, WRITTEN, BE_WRITTEN>> => IInv'
  BY DEF IInv

LEMMA StepInv == IInv /\ [Next]_vars => IInv'
  <1> SUFFICES ASSUME IInv, [Next]_vars PROVE IInv'
    OBVIOUS
  <1>1. ASSUME NEW bank, NEW blk, NEW page, NEW new \in Page, Write(bank, blk, page, new)
        PROVE  IInv'
    <2>1. CASE WriteCode(bank, blk, page) = "SUCCESS"
      <3>1. bank \in Banks /\ blk \in Blks /\ page \in Pages /\ BE_WRITTEN[bank][blk][page]
        BY <2>1 DEF WriteCode
      <3>2. page = LengthOf(bank, blk)
        BY <3>1, LengthFacts DEF Position
      <3> QED BY <1>1, <3>1, <3>2, WriteFacts
    <2> QED BY <1>1, <2>1, SameInv DEF Write
  <1>2. ASSUME NEW bank, NEW blk, Erase(bank, blk)
        PROVE  IInv'
    <2>1. CASE EraseCode(bank, blk) = "SUCCESS"
      BY <1>2, <2>1, EraseFacts DEF EraseCode
    <2> QED BY <1>2, <2>1, SameInv DEF Erase
  <1>3. CASE Next
    BY <1>1, <1>2, <1>3, SameInv DEF Next, Read
  <1> QED BY <1>3, SameInv DEF vars

\* The flags of every block describe one position after any calls.
THEOREM Hw1Invariance == Spec => []IInv
  BY InitInv, StepInv, PTL DEF Spec

\* The flags of a block's pages always describe one position.
THEOREM FlagsAgree == Spec => []OnePosition
  <1>1. IInv => OnePosition
    BY LengthFacts DEF OnePosition, Position
  <1> QED BY <1>1, Hw1Invariance, PTL

-----------------------------------------------------------------------------
\* The chip implements NandDevice, erased by banks.
LEMMA LogFacts ==
    ASSUME IInv, NEW bank \in Banks, NEW blk \in Blks
    PROVE  LET log == LogOfNand[bank][blk]
               n   == LengthOf(bank, blk)
           IN  /\ n \in 0 .. PAGES_PER_BLK
               /\ log = [i \in 1 .. n |-> content[bank][blk][i - 1]]
               /\ log \in Seq(Page \cup {Zero}) /\ Len(log) = n
               /\ log = <<>> <=> n = 0
  <1> DEFINE n == LengthOf(bank, blk)
             log == LogOfNand[bank][blk]
  <1>1. n \in 0 .. PAGES_PER_BLK
    BY LengthFacts
  <1>2. log = [i \in 1 .. n |-> content[bank][blk][i - 1]]
    BY DEF LogOfNand, LogOf
  <1>3. ASSUME NEW i \in 1 .. n PROVE content[bank][blk][i - 1] \in Page \cup {Zero}
    <2>1. i - 1 \in Pages
      BY <1>1 DEF Pages
    <2> QED BY <2>1 DEF IInv
  <1> HIDE DEF log, n
  <1>4. n \in Nat /\ log \in [1 .. n -> Page \cup {Zero}]
    BY <1>1, <1>2, <1>3
  <1>5. log \in Seq(Page \cup {Zero}) /\ Len(log) = n
    BY <1>4
  <1>6. log = <<>> <=> n = 0
    BY <1>5, EmptySeq
  <1> QED BY <1>1, <1>2, <1>5, <1>6 DEF n, log

LEMMA LogSame ==
    ASSUME IInv, NEW bank \in Banks, NEW blk \in Blks,
           LengthOf(bank, blk)' = LengthOf(bank, blk), content'[bank][blk] = content[bank][blk]
    PROVE  LogOfNand'[bank][blk] = LogOfNand[bank][blk]
  BY DEF LogOfNand, LogOf

\* A write that succeeds appends to the log of its block,
LEMMA LogAppended ==
    ASSUME IInv, NEW bank \in Banks, NEW blk \in Blks, NEW page \in Pages, NEW new \in Page,
           page = LengthOf(bank, blk), Write(bank, blk, page, new)
    PROVE  LogOfNand' = [LogOfNand EXCEPT ![bank][blk] = Append(@, new)]
  <1> DEFINE n == LengthOf(bank, blk)
  <1>1. /\ content' = [content EXCEPT ![bank][blk][page] = new]
        /\ \A b \in Banks, k \in Blks :
             LengthOf(b, k)' = IF b = bank /\ k = blk THEN page + 1 ELSE LengthOf(b, k)
    BY WriteFacts
  <1>2. content \in [Banks -> [Blks -> [Pages -> Page \cup {Zero}]]]
    BY DEF IInv
  <1>3. ASSUME NEW b \in Banks, NEW k \in Blks, b # bank \/ k # blk
        PROVE  LogOfNand'[b][k] = LogOfNand[b][k]
    <2>1. content'[b][k] = content[b][k]
      BY <1>1, <1>2, <1>3
    <2>2. LengthOf(b, k)' = LengthOf(b, k)
      BY <1>1, <1>3
    <2> QED BY <2>1, <2>2, LogSame
  <1>4. LogOfNand'[bank][blk] = Append(LogOfNand[bank][blk], new)
    <2> DEFINE log == LogOfNand[bank][blk]
               next == LogOfNand'[bank][blk]
    <2>1. /\ n \in 0 .. PAGES_PER_BLK /\ log \in Seq(Page \cup {Zero}) /\ Len(log) = n
          /\ log = [i \in 1 .. n |-> content[bank][blk][i - 1]]
      BY LogFacts
    <2>2. LengthOf(bank, blk)' = n + 1
      BY <1>1
    <2>3. next = [i \in 1 .. n + 1 |-> content'[bank][blk][i - 1]]
      BY <2>2 DEF LogOfNand, LogOf
    <2>4. ASSUME NEW i \in 1 .. n
          PROVE  content'[bank][blk][i - 1] = content[bank][blk][i - 1]
      <3>1. i - 1 \in Pages /\ i - 1 # page
        BY <2>1 DEF Pages
      <3> QED BY <1>1, <1>2, <3>1
    <2>5. content'[bank][blk][(n + 1) - 1] = new
      <3>1. (n + 1) - 1 = page
        BY <2>1
      <3> QED BY <1>1, <1>2, <3>1
    <2> HIDE DEF log, next
    <2>6. \A i \in 1 .. n : log[i] = content[bank][blk][i - 1]
      BY <2>1
    <2> HIDE DEF n
    <2>7. next = [i \in 1 .. n + 1 |-> IF i = n + 1 THEN new ELSE log[i]]
      <3>1. \A i \in 1 .. n + 1 : i \in 1 .. n \/ i = n + 1
        BY <2>1
      <3> QED BY <2>1, <2>3, <2>4, <2>5, <2>6, <3>1
    <2>8. next = Append(log, new)
      BY <2>1, <2>7
    <2> QED BY <2>8 DEF log, next
  <1>5. LogOfNand' = [b \in Banks |-> [k \in Blks |-> LogOfNand'[b][k]]]
    BY DEF LogOfNand
  <1>6. LogOfNand = [b \in Banks |-> [k \in Blks |-> LogOfNand[b][k]]]
    BY DEF LogOfNand
  <1> DEFINE old == LogOfNand
             nxt == LogOfNand'
  <1> HIDE DEF old, nxt
  <1> QED BY <1>3, <1>4, <1>5, <1>6 DEF old, nxt

\* and an erase that succeeds empties the logs of its bank.
LEMMA LogsEmptied ==
    ASSUME IInv, NEW bank \in Banks, NEW blk \in Blks,
           EraseCode(bank, blk) = "SUCCESS", Erase(bank, blk)
    PROVE  LogOfNand' = [LogOfNand EXCEPT ![bank] =
                            [b \in Blks |-> IF b \in Blks THEN <<>> ELSE @[b]]]
  <1>1. /\ content' = [content EXCEPT ![bank] = Blank(Zero)]
        /\ \A b \in Banks, k \in Blks : LengthOf(b, k)' = IF b = bank THEN 0 ELSE LengthOf(b, k)
    BY EraseFacts
  <1>2. ASSUME NEW b \in Banks, NEW k \in Blks, b # bank
        PROVE  LogOfNand'[b][k] = LogOfNand[b][k]
    <2>1. content'[b][k] = content[b][k] /\ LengthOf(b, k)' = LengthOf(b, k)
      BY <1>1, <1>2 DEF IInv
    <2> QED BY <2>1, LogSame
  <1>3. ASSUME NEW k \in Blks PROVE LogOfNand'[bank][k] = <<>>
    <2>1. LengthOf(bank, k)' = 0
      BY <1>1
    <2>2. LogOfNand'[bank][k] = [i \in 1 .. 0 |-> content'[bank][k][i - 1]]
      BY <2>1 DEF LogOfNand, LogOf
    <2> QED BY <2>2
  <1>4. LogOfNand' = [b \in Banks |-> [k \in Blks |-> LogOfNand'[b][k]]]
    BY DEF LogOfNand
  <1>5. LogOfNand = [b \in Banks |-> [k \in Blks |-> LogOfNand[b][k]]]
    BY DEF LogOfNand
  <1> DEFINE old == LogOfNand
             nxt == LogOfNand'
  <1> HIDE DEF old, nxt
  <1> QED BY <1>2, <1>3, <1>4, <1>5 DEF old, nxt

LEMMA SameLogs == UNCHANGED <<content, WRITTEN>> => LogOfNand' = LogOfNand
  BY DEF LogOfNand, LogOf, LengthOf

\* Each call is a call of the abstract chip, with the same arguments.
LEMMA ValidFacts ==
    /\ \A bank, blk, page :
         BankErasedDevice!Valid(bank, blk, page) <=> bank \in Banks /\ blk \in Blks /\ page \in Pages
    /\ \A rc : BankErasedDevice!Reply(rc) = Reply(rc)
    /\ \A blk : BankErasedDevice!Unit(blk) = Blks
    /\ BankErasedDevice!Blks = Blks
  BY DEF BankErasedDevice!Valid, BankErasedDevice!Banks, BankErasedDevice!Blks,
     BankErasedDevice!Pages, BankErasedDevice!Reply, BankErasedDevice!Unit,
     Banks, Blks, Pages, Reply

LEMMA WriteImplements ==
    ASSUME IInv, NEW bank, NEW blk, NEW page, NEW new \in Page, Write(bank, blk, page, new)
    PROVE  BankErasedDevice!Write(bank, blk, page, new)
  <1>0. reply' = Reply(WriteCode(bank, blk, page))
    BY DEF Write
  <1>1. CASE ~BankErasedDevice!Valid(bank, blk, page)
    <2>1. WriteCode(bank, blk, page) = "INVALID"
      BY <1>1, ValidFacts DEF WriteCode
    <2>2. LogOfNand' = LogOfNand
      BY <2>1, SameLogs DEF Write
    <2> QED BY <1>0, <1>1, <2>1, <2>2, ValidFacts DEF BankErasedDevice!Write, BankErasedDevice!Refuse
  <1>2. CASE BankErasedDevice!Valid(bank, blk, page)
    <2> DEFINE n == LengthOf(bank, blk)
    <2>1. bank \in Banks /\ blk \in Blks /\ page \in Pages
      BY <1>2, ValidFacts
    <2>2. n \in Nat /\ page \in Nat /\ Len(LogOfNand[bank][blk]) = n
      <3>1. n \in 0 .. PAGES_PER_BLK /\ Len(LogOfNand[bank][blk]) = n
        BY <2>1, LogFacts
      <3>2. page \in Nat
        BY <2>1 DEF Pages
      <3> QED BY <3>1, <3>2
    <2>3. WriteCode(bank, blk, page) =
             IF page < n THEN "OVERWRITE" ELSE IF page > n THEN "POSITION" ELSE "SUCCESS"
      BY <2>1, WriteCodeFacts
    <2>4. CASE page = n
      <3>1. LogOfNand' = [LogOfNand EXCEPT ![bank][blk] = Append(@, new)]
        BY <2>1, <2>4, LogAppended
      <3>2. reply' = BankErasedDevice!Reply("SUCCESS") /\ page = Len(LogOfNand[bank][blk])
        BY <1>0, <2>2, <2>3, <2>4, ValidFacts
      <3> QED BY <1>2, <3>1, <3>2 DEF BankErasedDevice!Write
    <2>5. CASE page # n
      <3>1. WriteCode(bank, blk, page) # "SUCCESS"
        BY <2>2, <2>3, <2>5
      <3>2. LogOfNand' = LogOfNand
        BY <3>1, SameLogs DEF Write
      <3>3. CASE page < n
        BY <1>0, <1>2, <2>2, <2>3, <3>2, <3>3, ValidFacts
           DEF BankErasedDevice!Write, BankErasedDevice!Refuse
      <3>4. CASE page > n
        BY <1>0, <1>2, <2>2, <2>3, <3>2, <3>4, ValidFacts
           DEF BankErasedDevice!Write, BankErasedDevice!Refuse
      <3> QED BY <2>2, <2>5, <3>3, <3>4
    <2> QED BY <2>4, <2>5
  <1> QED BY <1>1, <1>2

LEMMA ReadImplements ==
    ASSUME IInv, NEW bank, NEW blk, NEW page, Read(bank, blk, page)
    PROVE  BankErasedDevice!Read(bank, blk, page)
  <1>0. LogOfNand' = LogOfNand
    BY SameLogs DEF Read
  <1>1. CASE ~BankErasedDevice!Valid(bank, blk, page)
    BY <1>0, <1>1, ValidFacts DEF Read, BankErasedDevice!Read, BankErasedDevice!Refuse
  <1>2. CASE BankErasedDevice!Valid(bank, blk, page)
    <2> DEFINE n == LengthOf(bank, blk)
               log == LogOfNand[bank][blk]
    <2>1. bank \in Banks /\ blk \in Blks /\ page \in Pages
      BY <1>2, ValidFacts
    <2>2. /\ n \in Nat /\ page \in Nat /\ Len(log) = n
          /\ log = [i \in 1 .. n |-> content[bank][blk][i - 1]]
      BY <2>1, LogFacts DEF Pages
    <2>3. WRITTEN[bank][blk][page] <=> page < n
      BY <2>1, LengthFacts DEF Position
    <2>4. CASE page < n
      <3>1. page + 1 \in 1 .. n /\ (page + 1) - 1 = page
        BY <2>2, <2>4
      <3>2. log[page + 1] = content[bank][blk][page]
        BY <2>2, <3>1
      <3>3. reply' = [rc |-> "SUCCESS", page |-> log[page + 1]]
        BY <2>1, <2>3, <2>4, <3>2 DEF Read
      <3> QED BY <1>0, <1>2, <2>2, <2>4, <3>3 DEF BankErasedDevice!Read
    <2>5. CASE ~(page < n)
      <3>1. reply' = BankErasedDevice!Reply("EMPTY")
        BY <2>1, <2>3, <2>5, ValidFacts DEF Read
      <3>2. page >= Len(log)
        BY <2>2, <2>5
      <3> QED BY <1>0, <1>2, <3>1, <3>2 DEF BankErasedDevice!Read, BankErasedDevice!Refuse
    <2> QED BY <2>4, <2>5
  <1> QED BY <1>1, <1>2

LEMMA EraseImplements ==
    ASSUME IInv, NEW bank, NEW blk, Erase(bank, blk)
    PROVE  BankErasedDevice!Erase(bank, blk)
  <1>0. reply' = Reply(EraseCode(bank, blk)) /\ 0 \in Pages
    BY DEF Erase, Pages
  <1>1. CASE ~BankErasedDevice!Valid(bank, blk, 0)
    <2>1. EraseCode(bank, blk) = "INVALID"
      BY <1>0, <1>1, ValidFacts DEF EraseCode
    <2>2. LogOfNand' = LogOfNand
      BY <2>1, SameLogs DEF Erase
    <2> QED BY <1>0, <1>1, <2>1, <2>2, ValidFacts DEF BankErasedDevice!Erase, BankErasedDevice!Refuse
  <1>2. CASE BankErasedDevice!Valid(bank, blk, 0)
    <2>1. bank \in Banks /\ blk \in Blks
      BY <1>2, ValidFacts
    <2>2. \A b \in Blks : WRITTEN[bank][b][0] <=> LogOfNand[bank][b] # <<>>
      <3> TAKE b \in Blks
      <3>1. /\ LengthOf(bank, b) \in 0 .. PAGES_PER_BLK
            /\ LogOfNand[bank][b] = <<>> <=> LengthOf(bank, b) = 0
        BY <2>1, LogFacts
      <3>2. WRITTEN[bank][b][0] <=> 0 < LengthOf(bank, b)
        BY <1>0, <2>1, LengthFacts DEF Position
      <3> QED BY <3>1, <3>2
    <2>3. CASE \A b \in Blks : LogOfNand[bank][b] = <<>>
      <3>1. EraseCode(bank, blk) = "EMPTY"
        BY <2>1, <2>2, <2>3 DEF EraseCode
      <3>2. LogOfNand' = LogOfNand
        BY <3>1, SameLogs DEF Erase
      <3> QED BY <1>0, <1>2, <2>3, <3>1, <3>2, ValidFacts
              DEF BankErasedDevice!Erase, BankErasedDevice!Refuse
    <2>4. CASE \E b \in Blks : LogOfNand[bank][b] # <<>>
      <3>1. EraseCode(bank, blk) = "SUCCESS"
        BY <2>1, <2>2, <2>4 DEF EraseCode
      <3>2. LogOfNand' = [LogOfNand EXCEPT ![bank] =
                            [b \in Blks |-> IF b \in Blks THEN <<>> ELSE @[b]]]
        BY <2>1, <3>1, LogsEmptied
      <3> QED BY <1>0, <1>2, <2>4, <3>1, <3>2, ValidFacts DEF BankErasedDevice!Erase
    <2> QED BY <2>3, <2>4
  <1> QED BY <1>1, <1>2

LEMMA DeviceInit == Init => BankErasedDevice!Init
  <1> SUFFICES ASSUME Init PROVE BankErasedDevice!Init
    OBVIOUS
  <1>1. IInv
    BY InitInv
  <1>2. ASSUME NEW bank \in Banks, NEW blk \in Blks PROVE LogOfNand[bank][blk] = <<>>
    <2>1. Position(WRITTEN[bank][blk], BE_WRITTEN[bank][blk], 0)
      BY FirstPosition DEF Init, Blank, FirstPages
    <2>2. LengthOf(bank, blk) = 0
      <3>1. 0 \in 0 .. PAGES_PER_BLK
        OBVIOUS
      <3> QED BY <2>1, <3>1, PositionIsLength
    <2> QED BY <1>1, <2>2, LogFacts
  <1>3. LogOfNand = [bank \in Banks |-> [blk \in Blks |-> <<>>]]
    BY <1>2 DEF LogOfNand
  <1> QED BY <1>3, ValidFacts
          DEF Init, BankErasedDevice!Init, BankErasedDevice!Banks, Banks

\* The chip of Lab #1 is a set of append-only logs with the documented codes,
\* erased a bank at a time.
THEOREM Hw1ImplementsDevice == Spec => ImplementsBankErasedDevice
  <1>1. IInv /\ [Next]_vars => [BankErasedDevice!Next]_(BankErasedDevice!vars)
    <2> SUFFICES ASSUME IInv, [Next]_vars PROVE [BankErasedDevice!Next]_(BankErasedDevice!vars)
      OBVIOUS
    <2>1. CASE UNCHANGED vars
      BY <2>1, SameLogs DEF vars, BankErasedDevice!vars
    <2>2. CASE Next
      BY <2>2, WriteImplements, ReadImplements, EraseImplements DEF Next, BankErasedDevice!Next
    <2> QED BY <2>1, <2>2
  <1> QED BY Hw1Invariance, DeviceInit, <1>1, PTL
          DEF Spec, ImplementsBankErasedDevice, BankErasedDevice!Spec

=============================================================================
