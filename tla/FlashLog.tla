------------------------------ MODULE FlashLog -------------------------------
(***************************************************************************)
(* What the data blocks and the map blocks of the demand-based layer have  *)
(* in common, and the lemmas both proofs rest on.  A set R of blocks of one *)
(* kind is a log: pages are appended at next until end, a table says where *)
(* the current copy of each key lies, and a collection g copies the valid  *)
(* pages of a victim into the one empty block of R and erases the victim.  *)
(***************************************************************************)
EXTENDS MapCache, FiniteSetTheorems, WellFoundedInduction, TLAPS

-----------------------------------------------------------------------------
\* Geometry.

LEMMA Geometry ==
    /\ BLKS_PER_BANK \in Nat \ {0} /\ PAGES_PER_BLK \in Nat \ {0}
    /\ N_USER_BLOCKS_PB \in Nat \ {0} /\ N_USER_OP_BLOCKS_PB \in Nat
    /\ N_MAP_ENTRIES_PER_PAGE \in Nat \ {0} /\ N_SLOT_PB \in Nat \ {0}
    /\ N_PHY_DATA_BLK \in Nat /\ N_PHY_DATA_BLK = N_USER_BLOCKS_PB + N_USER_OP_BLOCKS_PB
    /\ 2 <= N_PHY_DATA_BLK /\ N_PHY_DATA_BLK + 2 <= BLKS_PER_BANK
  BY MapCacheAssumption DEF MapCacheAssumption, N_PHY_DATA_BLK

\* Division by a positive number.
LEMMA DivMod ==
    ASSUME NEW P \in Nat \ {0}
    PROVE  /\ \A b \in Nat, p \in 0 .. P - 1 :
                 (b * P + p) \div P = b /\ (b * P + p) % P = p
           /\ \A x \in Nat : /\ x = (x \div P) * P + (x % P)
                             /\ x % P \in 0 .. P - 1
                             /\ x \div P \in Nat
           /\ \A B \in Nat : /\ \A b \in 0 .. B - 1, p \in 0 .. P - 1 : b * P + p \in 0 .. B * P - 1
                             /\ \A x \in 0 .. B * P - 1 : x \div P \in 0 .. B - 1
  <1>1. ASSUME NEW b \in Nat, NEW p \in 0 .. P - 1
        PROVE  (b * P + p) \div P = b /\ (b * P + p) % P = p
    BY <1>1
  <1>2. ASSUME NEW x \in Nat
        PROVE  x = (x \div P) * P + (x % P) /\ x % P \in 0 .. P - 1 /\ x \div P \in Nat
    BY <1>2
  <1>3. ASSUME NEW B \in Nat, NEW b \in 0 .. B - 1, NEW p \in 0 .. P - 1
        PROVE  b * P + p \in 0 .. B * P - 1
    BY <1>3
  <1>4. ASSUME NEW B \in Nat, NEW x \in 0 .. B * P - 1
        PROVE  x \div P \in 0 .. B - 1
    BY <1>4
  <1> QED BY <1>1, <1>2, <1>3, <1>4

\* Multiplication by a positive number is monotonic.
LEMMA Products ==
    ASSUME NEW P \in Nat \ {0}, NEW a \in Nat, NEW b \in Nat
    PROVE  /\ a * P \in Nat
           /\ a < b => a * P + P <= b * P
           /\ a <= b => a * P <= b * P
           /\ (b - a) * P = b * P - a * P
  OBVIOUS

\* A page of the chip is the pair of its block and its place in the block.
LEMMA PpnFacts ==
    /\ \A blk \in Blks, page \in Pages :
          /\ Ppn(blk, page) \in Ppns
          /\ BlkOf(Ppn(blk, page)) = blk
          /\ PageOf(Ppn(blk, page)) = page
    /\ \A ppn \in Ppns : /\ BlkOf(ppn) \in Blks
                         /\ PageOf(ppn) \in Pages
                         /\ PageOf(ppn) \in Nat /\ PageOf(ppn) < PAGES_PER_BLK
                         /\ ppn \in Nat
                         /\ ppn = Ppn(BlkOf(ppn), PageOf(ppn))
  <1>1. BLKS_PER_BANK \in Nat /\ PAGES_PER_BLK \in Nat \ {0}
    BY Geometry
  <1>2. ASSUME NEW blk \in Blks, NEW page \in Pages
        PROVE  /\ Ppn(blk, page) \in Ppns
               /\ BlkOf(Ppn(blk, page)) = blk
               /\ PageOf(Ppn(blk, page)) = page
    <2>1. blk \in Nat /\ page \in 0 .. PAGES_PER_BLK - 1 /\ blk \in 0 .. BLKS_PER_BANK - 1
      BY <1>1 DEF Blks, Pages
    <2>2. /\ blk * PAGES_PER_BLK + page \in 0 .. BLKS_PER_BANK * PAGES_PER_BLK - 1
          /\ (blk * PAGES_PER_BLK + page) \div PAGES_PER_BLK = blk
          /\ (blk * PAGES_PER_BLK + page) % PAGES_PER_BLK = page
      BY <1>1, <2>1
    <2> QED BY <2>2 DEF Ppn, BlkOf, PageOf, Ppns
  <1>3. ASSUME NEW ppn \in Ppns
        PROVE  /\ BlkOf(ppn) \in Blks
               /\ PageOf(ppn) \in Pages
               /\ PageOf(ppn) \in Nat /\ PageOf(ppn) < PAGES_PER_BLK
               /\ ppn \in Nat
               /\ ppn = Ppn(BlkOf(ppn), PageOf(ppn))
    <2>1. ppn \in Nat /\ ppn \in 0 .. BLKS_PER_BANK * PAGES_PER_BLK - 1
      BY <1>1 DEF Ppns
    <2>2. PageOf(ppn) \in 0 .. PAGES_PER_BLK - 1 /\ BlkOf(ppn) \in 0 .. BLKS_PER_BANK - 1
      BY <1>1, <2>1, DivMod DEF BlkOf, PageOf
    <2>3. ppn = Ppn(BlkOf(ppn), PageOf(ppn))
      BY <1>1, <2>1, DivMod DEF Ppn, BlkOf, PageOf
    <2> QED BY <1>1, <2>1, <2>2, <2>3 DEF Blks, Pages
  <1> QED BY <1>2, <1>3

\* The pages of a block are an interval.
LEMMA BlockInterval ==
    ASSUME NEW f \in Blks
    PROVE  /\ f * PAGES_PER_BLK \in Nat
           /\ f * PAGES_PER_BLK + PAGES_PER_BLK <= BLKS_PER_BANK * PAGES_PER_BLK
           /\ \A q \in Nat : f * PAGES_PER_BLK <= q /\ q < f * PAGES_PER_BLK + PAGES_PER_BLK
                 => q \in Ppns /\ BlkOf(q) = f
           /\ \A q \in Ppns : BlkOf(q) = f => q = f * PAGES_PER_BLK + PageOf(q)
           /\ \A n \in Int : Ppn(f, n) = f * PAGES_PER_BLK + n
           /\ Ppn(f + 1, 0) = Ppn(f, PAGES_PER_BLK)
  <1>1. f \in Nat /\ f + 1 <= BLKS_PER_BANK /\ BLKS_PER_BANK \in Nat /\ PAGES_PER_BLK \in Nat \ {0}
    BY Geometry DEF Blks
  <1>2. f * PAGES_PER_BLK \in Nat
    BY <1>1
  <1>3. f * PAGES_PER_BLK + PAGES_PER_BLK <= BLKS_PER_BANK * PAGES_PER_BLK
    BY <1>1
  <1>4. ASSUME NEW q \in Nat, f * PAGES_PER_BLK <= q, q < f * PAGES_PER_BLK + PAGES_PER_BLK
        PROVE  q \in Ppns /\ BlkOf(q) = f
    <2> DEFINE p == q - f * PAGES_PER_BLK
               top == BLKS_PER_BANK * PAGES_PER_BLK
    <2>1. p \in 0 .. PAGES_PER_BLK - 1 /\ q = f * PAGES_PER_BLK + p
      BY <1>1, <1>2, <1>4
    <2>2. q < top /\ top \in Nat
      BY <1>1, <1>2, <1>3, <1>4
    <2> HIDE DEF p, top
    <2>3. (f * PAGES_PER_BLK + p) \div PAGES_PER_BLK = f
      BY <1>1, <2>1, DivMod
    <2>4. q \in 0 .. top - 1
      BY <2>2
    <2> QED BY <2>1, <2>3, <2>4 DEF BlkOf, Ppns, top
  <1>5. \A q \in Ppns : BlkOf(q) = f => q = f * PAGES_PER_BLK + PageOf(q)
    BY PpnFacts DEF Ppn
  <1>6. Ppn(f + 1, 0) = Ppn(f, PAGES_PER_BLK)
    BY <1>1 DEF Ppn
  <1> QED BY <1>2, <1>3, <1>4, <1>5, <1>6 DEF Ppn

\* Two pages in the same place of the same block are the same page.
LEMMA SamePage ==
    ASSUME NEW x \in Ppns, NEW y \in Ppns, BlkOf(x) = BlkOf(y), PageOf(x) = PageOf(y)
    PROVE  x = y
  BY PpnFacts

\* A non-empty set of numbers has a least element, and a greatest one if bounded.
LEMMA LeastNat ==
    ASSUME NEW T \in SUBSET Nat, T # {}
    PROVE  \E m \in T : \A k \in T : m <= k
  <1>1. PICK m \in T : \A y \in T : ~(<<y, m>> \in OpToRel(<, Nat))
    <2> DEFINE S == OpToRel(<, Nat)
    <2>1. IsWellFoundedOn(S, Nat)
      BY NatLessThanWellFounded
    <2> HIDE DEF S
    <2> QED BY <2>1, WFMin DEF S
  <1>2. \A y \in T : ~(y < m)
    BY <1>1 DEF OpToRel
  <1> QED BY <1>2

LEMMA GreatestNat ==
    ASSUME NEW T \in SUBSET Nat, T # {}, NEW top \in Nat, \A k \in T : k <= top
    PROVE  \E m \in T : \A k \in T : k <= m
  <1> DEFINE S == {top - k : k \in T}
  <1>1. S \in SUBSET Nat /\ S # {}
    <2>1. PICK x \in T : TRUE
      OBVIOUS
    <2>2. top - x \in S
      BY <2>1
    <2>3. S \in SUBSET Nat
      OBVIOUS
    <2> QED BY <2>2, <2>3
  <1>2. PICK s \in S : \A k \in S : s <= k
    <2> HIDE DEF S
    <2> QED BY <1>1, LeastNat
  <1>3. PICK m \in T : s = top - m
    BY <1>2
  <1>4. \A k \in T : top - m <= top - k
    BY <1>2, <1>3
  <1> QED BY <1>4

\* Lowest and Highest are what their names say.
LEMMA LowestHighest ==
    ASSUME NEW T \in SUBSET Nat, T # {}
    PROVE  /\ Lowest(T) \in T /\ \A k \in T : Lowest(T) <= k
           /\ \A top \in Nat : (\A k \in T : k <= top) =>
                 Highest(T) \in T /\ \A k \in T : k <= Highest(T)
  <1>1. Lowest(T) \in T /\ \A k \in T : Lowest(T) <= k
    BY LeastNat DEF Lowest
  <1>2. ASSUME NEW top \in Nat, \A k \in T : k <= top
        PROVE  Highest(T) \in T /\ \A k \in T : k <= Highest(T)
    <2>1. \E m \in T : \A k \in T : m >= k
      BY <1>2, GreatestNat
    <2> QED BY <2>1 DEF Highest
  <1> QED BY <1>1, <1>2

-----------------------------------------------------------------------------
\* The blocks of one kind lie together.
BlksFrom(lo, hi) == lo .. hi - 1

\* All but one of the blocks hold more pages than there are keys.
Spare(keys, lo, hi) ==
    IsFiniteSet(keys) /\ Cardinality(keys) < (hi - lo - 1) * PAGES_PER_BLK

Passed(g, q) == BlkOf(q) = g.victim /\ PageOf(q) < g.i

\* f2 is f but for x, where it is v.
Update(f2, f, S, x, v) == \A q \in S : f2[q] = IF q = x THEN v ELSE f[q]

\* f2 is f but for the pages of blk, where it is v.
Wiped(f2, f, blk, v) == \A q \in Ppns : f2[q] = IF BlkOf(q) = blk THEN v ELSE f[q]

\* The page states, and pages that say which key they are of.
Flags(valid) == \A q \in Ppns : valid[q] \in {0, 1}
Keyed(pages, keys) == \A p \in pages : p.spare \in keys /\ p # Erased

\* A block has a page that is out of use; a page can be appended.
Reclaimable(valid, blk) == \E page \in Pages : valid[Ppn(blk, page)] = 0
AnyReclaimable(R, kind, valid, status) ==
    \E blk \in R : status[blk] = kind /\ Reclaimable(valid, blk)
Fresh(chip, valid, R, ppn) ==
    /\ ppn \in Ppns /\ BlkOf(ppn) \in R
    /\ chip.cell[ppn] = Erased /\ valid[ppn] = 1
    /\ WriteCode(chip, BlkOf(ppn), PageOf(ppn)) = "SUCCESS"

\* The next step of a collection, past a page and having copied it.
Advanced(g2, g, copied) ==
    /\ g2.victim = g.victim /\ g2.free = g.free
    /\ g2.i = g.i + 1 /\ g2.cnt = g.cnt + copied

\* At the end of a collection the victim and the empty block change places.
Exchanged(status2, status, R, kind, g) ==
    \A blk \in R : status2[blk] = IF blk = g.victim THEN "EMPTY"
                                  ELSE IF blk = g.free THEN kind ELSE status[blk]

\* Every block of R is of the kind or empty, and free is the empty one.
OneEmpty(R, kind, status, free) ==
    /\ free \in R
    /\ \A blk \in R : status[blk] = IF blk = free THEN "EMPTY" ELSE kind

\* Which pages of R are written: all but the stretch from next to end, and of
\* the empty block what a collection has copied there.
Frontier(R, kind, cell, status, next, end, coll, g) ==
    /\ next <= end
    /\ \A q \in next .. end - 1 : q \in Ppns /\ BlkOf(q) \in R /\ status[BlkOf(q)] = kind
    /\ \A q \in Ppns : BlkOf(q) \in R =>
          (cell[q] # Erased <=> IF status[BlkOf(q)] = kind THEN ~(next <= q /\ q < end)
                                ELSE coll /\ PageOf(q) < g.cnt)

\* What they hold: only written pages of the kind are ever invalid.
Contents(R, kind, pages, cell, valid, status) ==
    \A q \in Ppns : BlkOf(q) \in R =>
        /\ cell[q] \in pages \cup {Erased}
        /\ valid[q] = 0 => cell[q] # Erased /\ status[BlkOf(q)] = kind

\* The table leads to valid pages that carry the key, and a valid page that
\* has not been copied is the one its key leads to.
Table(R, keys, cell, valid, table, coll, g) ==
    /\ \A k \in keys : table[k] # -1 =>
          /\ table[k] \in Ppns /\ BlkOf(table[k]) \in R
          /\ cell[table[k]] # Erased
          /\ cell[table[k]].spare = k
          /\ valid[table[k]] = 1
          /\ ~(coll /\ Passed(g, table[k]))
    /\ \A q \in Ppns : BlkOf(q) \in R /\ cell[q] # Erased /\ valid[q] = 1 =>
          table[cell[q].spare] = q \/ (coll /\ Passed(g, q))

\* A collection runs when the log is full; its victim has an invalid page, so
\* it never copies as many pages as a block has.
Collecting(R, kind, valid, status, next, end, g) ==
    /\ next = end
    /\ g.victim \in R /\ status[g.victim] = kind
    /\ g.free \in R /\ status[g.free] = "EMPTY"
    /\ g.i \in 0 .. PAGES_PER_BLK /\ g.cnt \in 0 .. g.i
    /\ g.cnt = g.i => \A page \in 0 .. g.i - 1 : valid[Ppn(g.victim, page)] = 1
    /\ \E page \in Pages : valid[Ppn(g.victim, page)] = 0

Log(R, kind, keys, pages, cell, valid, status, table, next, end, coll, g) ==
    /\ Frontier(R, kind, cell, status, next, end, coll, g)
    /\ Contents(R, kind, pages, cell, valid, status)
    /\ Table(R, keys, cell, valid, table, coll, g)
    /\ coll => Collecting(R, kind, valid, status, next, end, g)

-----------------------------------------------------------------------------
\* A step that leaves the pages of R, their states and the table alone.
LEMMA FrameLog ==
    ASSUME NEW R \in SUBSET Blks, NEW kind, NEW keys, NEW pages, Keyed(pages, keys),
           NEW cell, NEW valid, NEW status, NEW table, NEW next, NEW end, NEW coll, NEW g,
           NEW cell2, NEW valid2, NEW status2, NEW table2,
           Log(R, kind, keys, pages, cell, valid, status, table, next, end, coll, g),
           \A q \in Ppns : BlkOf(q) \in R => cell2[q] = cell[q] /\ valid2[q] = valid[q],
           \A blk \in R : status2[blk] = status[blk],
           \A k \in keys : table2[k] = table[k]
    PROVE  Log(R, kind, keys, pages, cell2, valid2, status2, table2, next, end, coll, g)
  <1> USE DEF Keyed
  <1>1. Frontier(R, kind, cell2, status2, next, end, coll, g)
    BY DEF Log, Frontier
  <1>2. Contents(R, kind, pages, cell2, valid2, status2)
    BY DEF Log, Contents
  <1>3. Table(R, keys, cell2, valid2, table2, coll, g)
    <2>1. \A q \in Ppns : BlkOf(q) \in R /\ cell[q] # Erased => cell[q].spare \in keys
      BY DEF Log, Contents
    <2> QED BY <2>1 DEF Log, Table
  <1>4. coll => Collecting(R, kind, valid2, status2, next, end, g)
    <2> SUFFICES ASSUME coll PROVE Collecting(R, kind, valid2, status2, next, end, g)
      OBVIOUS
    <2>1. Collecting(R, kind, valid, status, next, end, g)
      BY DEF Log
    <2>2. \A page \in Pages : valid2[Ppn(g.victim, page)] = valid[Ppn(g.victim, page)]
      BY <2>1, PpnFacts DEF Collecting
    <2>3. \A page \in 0 .. g.i - 1 : page \in Pages
      BY <2>1, Geometry DEF Collecting, Pages
    <2> QED BY <2>1, <2>2, <2>3 DEF Collecting
  <1> QED BY <1>1, <1>2, <1>3, <1>4 DEF Log

\* A log nothing has been appended to, its last block being the empty one.
LEMMA EmptyLog ==
    ASSUME NEW lo \in Nat, NEW hi \in Nat, lo < hi, hi <= BLKS_PER_BANK,
           NEW R, R = BlksFrom(lo, hi),
           NEW kind, kind # "EMPTY", NEW keys, NEW pages,
           NEW cell, \A q \in Ppns : cell[q] = Erased,
           NEW valid, \A q \in Ppns : valid[q] = 1,
           NEW status, OneEmpty(R, kind, status, hi - 1),
           NEW table, \A k \in keys : table[k] = -1, NEW g
    PROVE  Log(R, kind, keys, pages, cell, valid, status, table,
               Ppn(lo, 0), Ppn(hi - 1, 0), FALSE, g)
  <1> DEFINE P == PAGES_PER_BLK
             n == lo * P
             e == (hi - 1) * P
             top == BLKS_PER_BANK * P
  <1>1. P \in Nat \ {0} /\ BLKS_PER_BANK \in Nat /\ hi - 1 \in Nat
    BY Geometry
  <1>2. Ppn(lo, 0) = n /\ Ppn(hi - 1, 0) = e
    BY <1>1 DEF Ppn
  <1> HIDE DEF P
  <1>3. /\ n \in Nat /\ e \in Nat /\ top \in Nat /\ n <= e /\ e + P <= top
    BY <1>1, Products
  <1>4. ASSUME NEW q \in Ppns
        PROVE  /\ q \in Nat /\ BlkOf(q) \in Nat
               /\ (n <= q <=> lo <= BlkOf(q)) /\ (q < e <=> BlkOf(q) < hi - 1)
    <2> DEFINE b == BlkOf(q)
               m == b * P
    <2>1. b \in Nat /\ q \in Nat /\ PageOf(q) \in Nat /\ PageOf(q) < P /\ q = m + PageOf(q)
      BY PpnFacts, Geometry DEF Blks, Ppn, P
    <2> HIDE DEF b
    <2>2. /\ m \in Nat
          /\ lo <= b => n <= m
          /\ b < lo => m + P <= n
          /\ b < hi - 1 => m + P <= e
          /\ hi - 1 <= b => e <= m
      BY <1>1, <2>1, Products
    <2> HIDE DEF n, e, m
    <2> QED BY <1>1, <1>3, <2>1, <2>2 DEF b
  <1>5. ASSUME NEW q \in n .. e - 1 PROVE q \in Ppns
    <2>1. q \in Nat /\ q < top
      <3> HIDE DEF n, e, top
      <3> QED BY <1>1, <1>3
    <2> HIDE DEF n, e, top
    <2>2. q \in 0 .. top - 1
      BY <1>3, <2>1
    <2> QED BY <2>2 DEF Ppns, top, P
  <1> HIDE DEF n, e, top
  <1>6. Frontier(R, kind, cell, status, n, e, FALSE, g)
    <2>1. ASSUME NEW q \in n .. e - 1
          PROVE  q \in Ppns /\ BlkOf(q) \in R /\ status[BlkOf(q)] = kind
      <3>1. q \in Ppns /\ n <= q /\ q < e
        BY <1>3, <1>5
      <3>2. BlkOf(q) \in Nat /\ lo <= BlkOf(q) /\ BlkOf(q) < hi - 1
        BY <1>4, <3>1
      <3> QED BY <3>1, <3>2 DEF BlksFrom, OneEmpty
    <2>2. ASSUME NEW q \in Ppns, BlkOf(q) \in R
          PROVE  IF status[BlkOf(q)] = kind THEN n <= q /\ q < e ELSE TRUE
      <3>1. lo <= BlkOf(q) /\ BlkOf(q) <= hi - 1
        BY <2>2, <1>4 DEF BlksFrom
      <3>2. status[BlkOf(q)] = kind => BlkOf(q) # hi - 1
        BY <2>2 DEF OneEmpty
      <3> QED BY <1>4, <3>1, <3>2
    <2> QED BY <1>3, <2>1, <2>2 DEF Frontier
  <1>7. Contents(R, kind, pages, cell, valid, status)
    BY DEF Contents
  <1>8. Table(R, keys, cell, valid, table, FALSE, g)
    BY DEF Table
  <1> QED BY <1>2, <1>6, <1>7, <1>8 DEF Log

\* A page is appended as the current copy of k: the copy it replaces, if any,
\* is invalid from now on.
LEMMA AppendLog ==
    ASSUME NEW R \in SUBSET Blks, NEW kind, NEW keys, NEW pages,
           Keyed(pages, keys),
           NEW cell, NEW valid, NEW status, NEW table, NEW next \in Nat, NEW end \in Nat, NEW g,
           Log(R, kind, keys, pages, cell, valid, status, table, next, end, FALSE, g),
           Flags(valid),
           next < end,
           NEW k \in keys, NEW page \in pages, page.spare = k,
           NEW cell2, Update(cell2, cell, Ppns, next, page),
           NEW valid2, Update(valid2, valid, Ppns, table[k], 0),
           NEW table2, Update(table2, table, keys, k, next),
           NEW g2
    PROVE  Log(R, kind, keys, pages, cell2, valid2, status, table2, next + 1, end, FALSE, g2)
  <1> USE DEF Keyed, Flags, Update
  <1>1. next \in Ppns /\ BlkOf(next) \in R /\ status[BlkOf(next)] = kind
    BY DEF Log, Frontier
  <1>2. cell[next] = Erased /\ valid[next] = 1
    <2>1. cell[next] = Erased
      BY <1>1 DEF Log, Frontier
    <2> QED BY <1>1, <2>1 DEF Log, Contents
  <1>3. next # table[k]
    <2>1. table[k] # -1 => cell[table[k]] # Erased
      BY DEF Log, Table
    <2> QED BY <1>2, <2>1
  <1>4. Frontier(R, kind, cell2, status, next + 1, end, FALSE, g2)
    <2>1. \A q \in Ppns : q \in Nat
      BY PpnFacts
    <2>2. ASSUME NEW q \in Ppns, BlkOf(q) \in R
          PROVE  cell2[q] # Erased <=> IF status[BlkOf(q)] = kind THEN ~(next + 1 <= q /\ q < end) ELSE FALSE
      <3>1. cell[q] # Erased <=> IF status[BlkOf(q)] = kind THEN ~(next <= q /\ q < end) ELSE FALSE
        BY <2>2 DEF Log, Frontier
      <3>2. CASE q = next
        BY <1>1, <3>2
      <3>3. CASE q # next
        BY <2>1, <3>1, <3>3
      <3> QED BY <3>2, <3>3
    <2> QED BY <2>2 DEF Log, Frontier
  <1>5. Contents(R, kind, pages, cell2, valid2, status)
    <2> SUFFICES ASSUME NEW q \in Ppns, BlkOf(q) \in R
                 PROVE  /\ cell2[q] \in pages \cup {Erased}
                        /\ valid2[q] = 0 => cell2[q] # Erased /\ status[BlkOf(q)] = kind
      BY DEF Contents
    <2>1. /\ cell[q] \in pages \cup {Erased}
          /\ valid[q] = 0 => cell[q] # Erased /\ status[BlkOf(q)] = kind
      BY DEF Log, Contents
    <2>2. CASE q = table[k]
      <3>1. cell[q] # Erased
        BY <2>2, PpnFacts DEF Log, Table
      <3>2. status[BlkOf(q)] = kind
        BY <3>1 DEF Log, Frontier
      <3> QED BY <2>1, <3>1, <3>2
    <2>3. CASE q # table[k]
      BY <2>1, <2>3
    <2> QED BY <2>2, <2>3
  <1>6. Table(R, keys, cell2, valid2, table2, FALSE, g2)
    <2>1. ASSUME NEW j \in keys, table2[j] # -1
          PROVE  /\ table2[j] \in Ppns /\ BlkOf(table2[j]) \in R
                 /\ cell2[table2[j]] # Erased
                 /\ cell2[table2[j]].spare = j
                 /\ valid2[table2[j]] = 1
      <3>1. CASE j = k
        <4>1. table2[j] = next
          BY <3>1
        <4> QED BY <1>1, <1>2, <1>3, <3>1, <4>1
      <3>2. CASE j # k
        <4>1. table2[j] = table[j]
          BY <3>2
        <4>2. /\ table[j] \in Ppns /\ BlkOf(table[j]) \in R
              /\ cell[table[j]] # Erased
              /\ cell[table[j]].spare = j
              /\ valid[table[j]] = 1
          BY <2>1, <4>1 DEF Log, Table
        <4>3. table[j] # next
          BY <1>2, <4>2
        <4>4. table[j] # table[k]
          BY <2>1, <3>2, <4>1, <4>2 DEF Log, Table
        <4> QED BY <4>1, <4>2, <4>3, <4>4
      <3> QED BY <3>1, <3>2
    <2>2. ASSUME NEW q \in Ppns, BlkOf(q) \in R, cell2[q] # Erased, valid2[q] = 1
          PROVE  table2[cell2[q].spare] = q
      <3>1. CASE q = next
        BY <3>1
      <3>2. CASE q # next
        <4>1. q # table[k] /\ cell[q] # Erased /\ valid[q] = 1 /\ cell2[q] = cell[q]
          BY <2>2, <3>2
        <4>2. table[cell[q].spare] = q /\ cell[q].spare \in keys
          BY <2>2, <4>1 DEF Log, Table, Contents
        <4> QED BY <4>1, <4>2
      <3> QED BY <3>1, <3>2
    <2> QED BY <2>1, <2>2 DEF Table
  <1> QED BY <1>4, <1>5, <1>6 DEF Log

\* A full log whose victim has an invalid page starts a collection.
LEMMA StartLog ==
    ASSUME NEW R \in SUBSET Blks, NEW kind, NEW keys, NEW pages,
           NEW cell, NEW valid, NEW status, NEW table, NEW next, NEW end, NEW g, NEW g2,
           Log(R, kind, keys, pages, cell, valid, status, table, next, end, FALSE, g),
           next = end,
           g2.victim \in R, status[g2.victim] = kind,
           g2.free \in R, status[g2.free] = "EMPTY",
           g2.i = 0, g2.cnt = 0,
           Reclaimable(valid, g2.victim)
    PROVE  Log(R, kind, keys, pages, cell, valid, status, table, next, end, TRUE, g2)
  <1> USE DEF Reclaimable
  <1>1. \A q \in Ppns : ~(PageOf(q) < 0)
    BY PpnFacts
  <1>2. Frontier(R, kind, cell, status, next, end, TRUE, g2)
    BY <1>1 DEF Log, Frontier
  <1>3. Table(R, keys, cell, valid, table, TRUE, g2)
    BY <1>1 DEF Log, Table, Passed
  <1>4. Collecting(R, kind, valid, status, next, end, g2)
    BY Geometry DEF Collecting
  <1> QED BY <1>2, <1>3, <1>4 DEF Log

\* A collection never copies a whole block, and copies into its next position.
LEMMA CollectingFacts ==
    ASSUME NEW R \in SUBSET Blks, NEW kind, NEW keys, NEW pages,
           NEW cell, NEW valid, NEW status, NEW table, NEW next, NEW end, NEW g,
           Log(R, kind, keys, pages, cell, valid, status, table, next, end, TRUE, g)
    PROVE  /\ g.i \in 0 .. PAGES_PER_BLK /\ g.cnt \in 0 .. g.i
           /\ g.i \in Nat /\ g.cnt \in Nat
           /\ g.cnt \in Pages /\ g.cnt < PAGES_PER_BLK
           /\ g.victim \in Blks /\ g.free \in Blks
  <1>1. Collecting(R, kind, valid, status, next, end, g)
    BY DEF Log
  <1>2. PICK page \in Pages : valid[Ppn(g.victim, page)] = 0
    BY <1>1 DEF Collecting
  <1>3. ASSUME g.cnt = PAGES_PER_BLK PROVE FALSE
    <2>1. g.cnt = g.i /\ page \in 0 .. g.i - 1
      BY <1>1, <1>2, <1>3, Geometry DEF Collecting, Pages
    <2> QED BY <1>1, <1>2, <2>1 DEF Collecting
  <1> QED BY <1>1, <1>3, Geometry DEF Collecting, Pages

\* A collection passes an invalid page.
LEMMA SkipLog ==
    ASSUME NEW R \in SUBSET Blks, NEW kind, NEW keys, NEW pages,
           NEW cell, NEW valid, NEW status, NEW table, NEW next, NEW end, NEW g, NEW g2,
           Log(R, kind, keys, pages, cell, valid, status, table, next, end, TRUE, g),
           g.i < PAGES_PER_BLK, valid[Ppn(g.victim, g.i)] = 0,
           Advanced(g2, g, 0)
    PROVE  Log(R, kind, keys, pages, cell, valid, status, table, next, end, TRUE, g2)
  <1> DEFINE v == Ppn(g.victim, g.i)
  <1>1. /\ g.i \in 0 .. PAGES_PER_BLK /\ g.cnt \in 0 .. g.i /\ g.cnt \in Pages
        /\ g.victim \in Blks /\ g.free \in Blks
    BY CollectingFacts
  <1>2. g2.victim = g.victim /\ g2.free = g.free /\ g2.i = g.i + 1 /\ g2.cnt = g.cnt
    BY <1>1 DEF Advanced
  <1>3. g.i \in Pages /\ g.i + 1 \in 0 .. PAGES_PER_BLK /\ g.cnt \in 0 .. g.i + 1 /\ g.cnt # g.i + 1
    BY <1>1, Geometry DEF Pages
  <1>4. v \in Ppns /\ BlkOf(v) = g.victim /\ PageOf(v) = g.i
    BY <1>1, <1>3, PpnFacts
  <1>5. \A q \in Ppns : Passed(g2, q) <=> Passed(g, q) \/ q = v
    <2> SUFFICES ASSUME NEW q \in Ppns PROVE Passed(g2, q) <=> Passed(g, q) \/ q = v
      OBVIOUS
    <2>1. PageOf(q) < g.i + 1 <=> PageOf(q) < g.i \/ PageOf(q) = g.i
      BY <1>1, PpnFacts
    <2> QED BY <1>2, <1>4, <2>1, SamePage DEF Passed
  <1>6. Frontier(R, kind, cell, status, next, end, TRUE, g2)
    BY <1>2 DEF Log, Frontier
  <1>7. Table(R, keys, cell, valid, table, TRUE, g2)
    BY <1>5 DEF Log, Table
  <1>8. Collecting(R, kind, valid, status, next, end, g2)
    BY <1>2, <1>3 DEF Log, Collecting
  <1> QED BY <1>6, <1>7, <1>8 DEF Log

\* A collection copies a valid page, the current one of its key, which maps to
\* the copy from now on.
LEMMA CopyLog ==
    ASSUME NEW R \in SUBSET Blks, NEW kind, kind # "EMPTY", NEW keys, NEW pages,
           Keyed(pages, keys),
           NEW cell, NEW valid, NEW status, NEW table, NEW next \in Nat, NEW end, NEW g, NEW g2,
           Log(R, kind, keys, pages, cell, valid, status, table, next, end, TRUE, g),
           OneEmpty(R, kind, status, g.free),
           g.i < PAGES_PER_BLK, valid[Ppn(g.victim, g.i)] = 1,
           Flags(valid),
           NEW page \in pages, page.spare = cell[Ppn(g.victim, g.i)].spare,
           NEW cell2, Update(cell2, cell, Ppns, Ppn(g.free, g.cnt), page),
           NEW table2, Update(table2, table, keys, page.spare, Ppn(g.free, g.cnt)),
           Advanced(g2, g, 1)
    PROVE  Log(R, kind, keys, pages, cell2, valid, status, table2, next, end, TRUE, g2)
  <1> USE DEF Keyed, Flags, Update, Advanced
  <1> DEFINE v == Ppn(g.victim, g.i)
             dst == Ppn(g.free, g.cnt)
             k == page.spare
  <1>1. /\ g.i \in 0 .. PAGES_PER_BLK /\ g.cnt \in 0 .. g.i /\ g.cnt \in Pages
        /\ g.victim \in Blks /\ g.free \in Blks /\ g.i \in Nat /\ g.cnt \in Nat
    BY CollectingFacts
  <1>2. /\ g.victim \in R /\ status[g.victim] = kind /\ next = end
        /\ g.free \in R /\ status[g.free] = "EMPTY" /\ g.victim # g.free
    BY DEF Log, Collecting
  <1>3. g.i \in Pages /\ g.i + 1 \in 0 .. PAGES_PER_BLK /\ g.cnt + 1 \in 0 .. g.i + 1
    BY <1>1, Geometry DEF Pages
  <1>4. /\ v \in Ppns /\ BlkOf(v) = g.victim /\ PageOf(v) = g.i
        /\ dst \in Ppns /\ BlkOf(dst) = g.free /\ PageOf(dst) = g.cnt
    BY <1>1, <1>3, PpnFacts
  <1>5. \A q \in Ppns : Passed(g2, q) <=> Passed(g, q) \/ q = v
    <2> SUFFICES ASSUME NEW q \in Ppns PROVE Passed(g2, q) <=> Passed(g, q) \/ q = v
      OBVIOUS
    <2>1. PageOf(q) < g.i + 1 <=> PageOf(q) < g.i \/ PageOf(q) = g.i
      BY <1>1, PpnFacts
    <2> QED BY <1>4, <2>1, SamePage DEF Passed
  <1>6. cell[dst] = Erased /\ valid[dst] = 1
    <2>1. cell[dst] = Erased
      BY <1>1, <1>2, <1>4 DEF Log, Frontier
    <2> QED BY <1>2, <1>4, <2>1 DEF Log, Contents
  <1>7. cell[v] # Erased /\ cell[v].spare = k /\ table[k] = v /\ k \in keys
    <2>1. cell[v] # Erased
      <3>1. v \in Nat /\ ~(next <= v /\ v < end)
        BY <1>2, <1>4, PpnFacts
      <3> QED BY <1>2, <1>4, <3>1 DEF Log, Frontier
    <2>2. ~Passed(g, v)
      BY <1>1, <1>4 DEF Passed
    <2> QED BY <1>2, <1>4, <2>1, <2>2 DEF Log, Table
  <1> HIDE DEF v, dst, k
  <1>8. Frontier(R, kind, cell2, status, next, end, TRUE, g2)
    <2>1. ASSUME NEW q \in Ppns, BlkOf(q) \in R
          PROVE  cell2[q] # Erased <=> IF status[BlkOf(q)] = kind THEN ~(next <= q /\ q < end)
                                       ELSE PageOf(q) < g.cnt + 1
      <3>1. cell[q] # Erased <=> IF status[BlkOf(q)] = kind THEN ~(next <= q /\ q < end)
                                 ELSE PageOf(q) < g.cnt
        BY <2>1 DEF Log, Frontier
      <3>2. CASE q = dst
        BY <1>1, <1>2, <1>4, <3>2 DEF dst
      <3>3. CASE q # dst /\ status[BlkOf(q)] = kind
        BY <3>1, <3>3 DEF dst
      <3>4. CASE q # dst /\ status[BlkOf(q)] # kind
        <4>1. BlkOf(q) = g.free
          BY <2>1, <3>4 DEF OneEmpty
        <4>2. PageOf(q) # g.cnt
          BY <1>4, <3>4, <4>1, SamePage
        <4>3. PageOf(q) < g.cnt + 1 <=> PageOf(q) < g.cnt
          BY <1>1, <4>2, PpnFacts
        <4> QED BY <3>1, <3>4, <4>3 DEF dst
      <3> QED BY <3>2, <3>3, <3>4
    <2> QED BY <2>1 DEF Log, Frontier
  <1>9. Contents(R, kind, pages, cell2, valid, status)
    BY DEF Log, Contents
  <1>10. Table(R, keys, cell2, valid, table2, TRUE, g2)
    <2>1. ASSUME NEW j \in keys, table2[j] # -1
          PROVE  /\ table2[j] \in Ppns /\ BlkOf(table2[j]) \in R
                 /\ cell2[table2[j]] # Erased
                 /\ cell2[table2[j]].spare = j
                 /\ valid[table2[j]] = 1
                 /\ ~Passed(g2, table2[j])
      <3>1. CASE j = k
        <4>1. table2[j] = dst
          BY <3>1 DEF k, dst
        <4>2. cell2[dst] = page
          BY <1>4 DEF dst
        <4> QED BY <1>2, <1>4, <1>6, <3>1, <4>1, <4>2 DEF k, Passed
      <3>2. CASE j # k
        <4>1. table2[j] = table[j]
          BY <3>2 DEF k
        <4>2. /\ table[j] \in Ppns /\ BlkOf(table[j]) \in R
              /\ cell[table[j]] # Erased
              /\ cell[table[j]].spare = j
              /\ valid[table[j]] = 1
              /\ ~Passed(g, table[j])
          BY <2>1, <4>1 DEF Log, Table
        <4>3. table[j] # dst /\ table[j] # v
          BY <1>6, <1>7, <3>2, <4>2
        <4> QED BY <1>5, <4>1, <4>2, <4>3 DEF dst
      <3> QED BY <3>1, <3>2
    <2>2. ASSUME NEW q \in Ppns, BlkOf(q) \in R, cell2[q] # Erased, valid[q] = 1, ~Passed(g2, q)
          PROVE  table2[cell2[q].spare] = q
      <3>1. CASE q = dst
        BY <3>1 DEF dst
      <3>2. CASE q # dst
        <4>1. q # v /\ cell[q] # Erased /\ cell2[q] = cell[q] /\ ~Passed(g, q)
          BY <1>5, <2>2, <3>2 DEF dst
        <4>2. table[cell[q].spare] = q /\ cell[q].spare \in keys
          BY <2>2, <4>1 DEF Log, Table, Contents
        <4>3. cell[q].spare # k
          BY <1>7, <4>1, <4>2
        <4> QED BY <4>1, <4>2, <4>3 DEF k
      <3> QED BY <3>1, <3>2
    <2> QED BY <2>1, <2>2 DEF Table
  <1>11. Collecting(R, kind, valid, status, next, end, g2)
    <2>1. ASSUME g.cnt + 1 = g.i + 1, NEW p \in 0 .. (g.i + 1) - 1
          PROVE  valid[Ppn(g.victim, p)] = 1
      <3>1. g.cnt = g.i /\ (p = g.i \/ p \in 0 .. g.i - 1)
        BY <1>1, <2>1
      <3> QED BY <3>1 DEF Log, Collecting
    <2>2. /\ next = end
          /\ g2.victim \in R /\ status[g2.victim] = kind
          /\ g2.free \in R /\ status[g2.free] = "EMPTY"
          /\ g2.i \in 0 .. PAGES_PER_BLK /\ g2.cnt \in 0 .. g2.i
          /\ \E p \in Pages : valid[Ppn(g2.victim, p)] = 0
      BY <1>2, <1>3 DEF Log, Collecting
    <2> QED BY <2>1, <2>2 DEF Collecting
  <1> QED BY <1>8, <1>9, <1>10, <1>11 DEF Log

\* The end of a collection: the victim is erased and is the empty block from
\* now on; writing goes on behind the copies.
LEMMA FinishLog ==
    ASSUME NEW R \in SUBSET Blks, NEW kind, kind # "EMPTY", NEW keys, NEW pages,
           Keyed(pages, keys),
           NEW cell, NEW valid, NEW status, NEW table, NEW next \in Nat, NEW end, NEW g, NEW g2,
           Log(R, kind, keys, pages, cell, valid, status, table, next, end, TRUE, g),
           OneEmpty(R, kind, status, g.free),
           g.i = PAGES_PER_BLK,
           NEW cell2, Wiped(cell2, cell, g.victim, Erased),
           NEW valid2, Wiped(valid2, valid, g.victim, 1),
           NEW status2, Exchanged(status2, status, R, kind, g)
    PROVE  /\ Log(R, kind, keys, pages, cell2, valid2, status2, table,
                   Ppn(g.free, g.cnt), Ppn(g.free, PAGES_PER_BLK), FALSE, g2)
           /\ Ppn(g.free, g.cnt) < Ppn(g.free, PAGES_PER_BLK)
           /\ OneEmpty(R, kind, status2, g.victim)
  <1> USE DEF Keyed, Wiped, Exchanged
  <1> DEFINE n == Ppn(g.free, g.cnt)
             top == Ppn(g.free, PAGES_PER_BLK)
             lo == g.free * PAGES_PER_BLK
  <1>1. /\ g.cnt \in Pages /\ g.victim \in Blks /\ g.free \in Blks
        /\ g.cnt \in Nat /\ g.cnt < PAGES_PER_BLK /\ PAGES_PER_BLK \in Nat
    BY CollectingFacts, Geometry
  <1>2. /\ g.victim \in R /\ status[g.victim] = kind /\ next = end
        /\ g.free \in R /\ status[g.free] = "EMPTY" /\ g.victim # g.free
    BY DEF Log, Collecting
  <1>3. /\ lo \in Nat
        /\ \A q \in Nat : lo <= q /\ q < lo + PAGES_PER_BLK => q \in Ppns /\ BlkOf(q) = g.free
        /\ \A q \in Ppns : BlkOf(q) = g.free => q = lo + PageOf(q)
        /\ n = lo + g.cnt /\ top = lo + PAGES_PER_BLK
    BY <1>1, BlockInterval
  <1> HIDE DEF n, top, lo
  <1>4. \A q \in Ppns : Passed(g, q) <=> BlkOf(q) = g.victim
    BY PpnFacts DEF Passed
  <1>5. \A q \in Ppns : q \in Nat /\ PageOf(q) \in Nat /\ PageOf(q) < PAGES_PER_BLK
    BY PpnFacts
  <1>6. OneEmpty(R, kind, status2, g.victim)
    BY <1>2 DEF OneEmpty
  <1>7. n \in Nat /\ top \in Nat /\ n < top
    BY <1>1, <1>3
  <1>8. \A q \in n .. top - 1 : q \in Ppns /\ BlkOf(q) = g.free
    BY <1>1, <1>3, <1>7
  <1>9. ASSUME NEW q \in Ppns, BlkOf(q) \in R, BlkOf(q) # g.free
        PROVE  cell[q] # Erased /\ ~(n <= q /\ q < top)
    <2>1. status[BlkOf(q)] = kind
      BY <1>9 DEF OneEmpty
    <2>2. cell[q] # Erased
      BY <1>2, <1>5, <1>9, <2>1 DEF Log, Frontier
    <2> QED BY <1>5, <1>7, <1>8, <1>9, <2>2
  <1>10. Frontier(R, kind, cell2, status2, n, top, FALSE, g2)
    <2>1. ASSUME NEW q \in Ppns, BlkOf(q) \in R
          PROVE  cell2[q] # Erased <=> IF status2[BlkOf(q)] = kind THEN ~(n <= q /\ q < top) ELSE FALSE
      <3>1. CASE BlkOf(q) = g.victim
        BY <1>2, <3>1
      <3>2. CASE BlkOf(q) # g.victim /\ BlkOf(q) # g.free
        BY <1>9, <2>1, <3>2 DEF OneEmpty
      <3>3. CASE BlkOf(q) = g.free
        <4>1. cell2[q] = cell[q] /\ status2[BlkOf(q)] = kind
          BY <1>2, <3>3
        <4>2. cell[q] # Erased <=> PageOf(q) < g.cnt
          BY <1>2, <3>3 DEF Log, Frontier
        <4>3. q = lo + PageOf(q)
          BY <1>3, <3>3
        <4> QED BY <1>1, <1>3, <1>5, <4>1, <4>2, <4>3
      <3> QED BY <3>1, <3>2, <3>3
    <2> QED BY <1>2, <1>7, <1>8, <2>1 DEF Frontier
  <1>11. Contents(R, kind, pages, cell2, valid2, status2)
    BY <1>2 DEF Log, Contents
  <1>12. Table(R, keys, cell2, valid2, table, FALSE, g2)
    <2>1. ASSUME NEW j \in keys, table[j] # -1
          PROVE  BlkOf(table[j]) # g.victim
      BY <1>4, <2>1 DEF Log, Table
    <2> QED BY <1>4, <2>1 DEF Log, Table
  <1> QED BY <1>6, <1>7, <1>10, <1>11, <1>12 DEF Log, n, top

\* Over-provisioning: where a full log has more pages than there are keys, one
\* of its pages is invalid.
LEMMA FullLogHasInvalid ==
    ASSUME NEW lo \in Nat, NEW hi \in Nat, lo < hi, hi <= BLKS_PER_BANK,
           NEW R, R = BlksFrom(lo, hi),
           NEW kind, kind # "EMPTY", NEW keys, NEW pages, Keyed(pages, keys),
           NEW cell, NEW valid, NEW status, NEW table, NEW next \in Nat, NEW end, NEW g, NEW free,
           Log(R, kind, keys, pages, cell, valid, status, table, next, end, FALSE, g),
           OneEmpty(R, kind, status, free),
           Flags(valid),
           next = end,
           Spare(keys, lo, hi)
    PROVE  AnyReclaimable(R, kind, valid, status)
  <1> USE DEF Keyed, Flags, Reclaimable, AnyReclaimable, BlksFrom, Spare
  <1> DEFINE P == PAGES_PER_BLK
             L == lo * P
             H == hi * P
             F == free * P
             All == L .. H - 1
             Free == F .. F + P - 1
             Full == All \ Free
             f == [q \in Full |-> cell[q].spare]
  <1>1. P \in Nat \ {0} /\ BLKS_PER_BANK \in Nat /\ free \in R /\ free \in Nat /\ free \in Blks
    BY Geometry DEF OneEmpty, Blks
  <1>2. /\ L \in Nat /\ H \in Nat /\ F \in Nat
        /\ L <= F /\ F + P <= H /\ H <= BLKS_PER_BANK * P
        /\ BLKS_PER_BANK * P \in Nat
        /\ (hi - lo - 1) * P = H - L - P
    <2>1. lo <= free /\ free < hi /\ hi <= BLKS_PER_BANK
      BY <1>1
    <2>2. /\ lo * P \in Nat /\ hi * P \in Nat /\ free * P \in Nat /\ BLKS_PER_BANK * P \in Nat
          /\ lo * P <= free * P /\ free * P + P <= hi * P /\ hi * P <= BLKS_PER_BANK * P
      <3> HIDE DEF P
      <3> QED BY <1>1, <2>1, Products
    <2>3. (hi - lo - 1) * P = hi * P - lo * P - P
      BY <1>1
    <2> QED BY <2>2, <2>3
  <1> HIDE DEF P
  <1>3. ASSUME NEW q \in Full
        PROVE  q \in Ppns /\ BlkOf(q) \in R /\ BlkOf(q) # free
    <2>1. q \in Nat /\ L <= q /\ q < H /\ ~(F <= q /\ q < F + P)
      <3> HIDE DEF L, H, F
      <3> QED BY <1>1, <1>2
    <2>2. q \in Ppns
      <3> DEFINE top == BLKS_PER_BANK * P
      <3>1. q < top /\ top \in Nat
        <4> HIDE DEF L, H, F
        <4> QED BY <1>2, <2>1
      <3> HIDE DEF top
      <3>2. q \in 0 .. top - 1
        BY <2>1, <3>1
      <3> QED BY <3>2 DEF Ppns, P, top
    <2>3. /\ BlkOf(q) \in Nat /\ q = BlkOf(q) * P + PageOf(q)
          /\ PageOf(q) \in Nat /\ PageOf(q) < P /\ BlkOf(q) * P \in Nat
      <3>1. BlkOf(q) \in Nat
        BY <2>2, PpnFacts, Geometry DEF Blks
      <3>2. BlkOf(q) * P \in Nat
        BY <1>1, <3>1, Products
      <3> QED BY <2>2, <3>1, <3>2, PpnFacts DEF Ppn, P
    <2>4. ~(BlkOf(q) < lo) /\ ~(hi <= BlkOf(q))
      <3>1. BlkOf(q) < lo => BlkOf(q) * P + P <= L
        BY <1>1, <2>3, Products
      <3>2. hi <= BlkOf(q) => H <= BlkOf(q) * P
        BY <1>1, <2>3, Products
      <3> HIDE DEF L, H
      <3> QED BY <1>1, <1>2, <2>1, <2>3, <3>1, <3>2
    <2>5. BlkOf(q) = free => F <= q /\ q < F + P
      <3>1. BlkOf(q) = free => BlkOf(q) * P = F
        OBVIOUS
      <3> HIDE DEF F
      <3> QED BY <1>1, <1>2, <2>3, <3>1
    <2> QED BY <2>1, <2>2, <2>3, <2>4, <2>5
  <1> HIDE DEF L, H, F
  <1> SUFFICES ASSUME \A blk \in R, page \in Pages :
                        status[blk] = kind => valid[Ppn(blk, page)] # 0
               PROVE  FALSE
    OBVIOUS
  <1>4. ASSUME NEW q \in Full
        PROVE  f[q] \in keys /\ table[f[q]] = q
    <2>1. q \in Ppns /\ BlkOf(q) \in R /\ status[BlkOf(q)] = kind
      BY <1>3 DEF OneEmpty
    <2>2. cell[q] # Erased
      BY <2>1, PpnFacts DEF Log, Frontier
    <2>3. valid[q] = 1
      BY <2>1, PpnFacts
    <2> QED BY <2>1, <2>2, <2>3 DEF Log, Table, Contents
  <1>5. f \in Injection(Full, keys)
    <2>1. f \in [Full -> keys] /\ DOMAIN f = Full
      BY <1>4
    <2>2. \A x, y \in Full : f[x] = f[y] => x = y
      <3> HIDE DEF f, Full
      <3> QED BY <1>4
    <2> HIDE DEF f, Full
    <2> QED BY <2>1, <2>2 DEF Injection, IsInjective
  <1>6. Cardinality(Full) <= Cardinality(keys)
    <2> HIDE DEF f, Full
    <2> QED BY <1>5, FS_Injection
  <1>7. IsFiniteSet(All) /\ Cardinality(All) = H - L
    <2>1. L \in Int /\ H - 1 \in Int /\ ~(L > H - 1) /\ (H - 1) - L + 1 = H - L
      BY <1>1, <1>2
    <2> QED BY <2>1, FS_Interval
  <1>8. Cardinality(Free) = P
    <2>1. F \in Int /\ F + P - 1 \in Int /\ ~(F > F + P - 1) /\ (F + P - 1) - F + 1 = P
      BY <1>1, <1>2
    <2> QED BY <2>1, FS_Interval
  <1>9. All \cap Free = Free
    <2>1. \A q \in Free : q \in All
      BY <1>1, <1>2
    <2> HIDE DEF All, Free
    <2> QED BY <2>1
  <1>10. Cardinality(Full) = H - L - P
    <2>1. Cardinality(All \ Free) = Cardinality(All) - Cardinality(All \cap Free)
      <3> HIDE DEF All, Free
      <3> QED BY <1>7, FS_Difference
    <2> HIDE DEF All, Free
    <2> QED BY <1>7, <1>8, <1>9, <2>1
  <1>11. Cardinality(keys) \in Nat
    BY FS_CardinalityType
  <1>12. Cardinality(keys) < H - L - P
    BY <1>2 DEF P
  <1> HIDE DEF Full
  <1> QED BY <1>1, <1>2, <1>6, <1>10, <1>11, <1>12

-----------------------------------------------------------------------------
\* The chip.

\* The written pages of a block are the ones before its blk_index.
Chip(content) == [cell : [Ppns -> content], blk_index : [Blks -> 0 .. PAGES_PER_BLK]]
Prefix(chip) == \A q \in Ppns : chip.cell[q] # Erased <=> PageOf(q) < chip.blk_index[BlkOf(q)]

\* A page that is not written, the ones before it in its block being, can be.
LEMMA Writable ==
    ASSUME NEW content, NEW chip \in Chip(content), Prefix(chip),
           NEW ppn \in Ppns, chip.cell[ppn] = Erased,
           \A q \in Ppns : BlkOf(q) = BlkOf(ppn) /\ PageOf(q) < PageOf(ppn) => chip.cell[q] # Erased
    PROVE  WriteCode(chip, BlkOf(ppn), PageOf(ppn)) = "SUCCESS"
  <1> DEFINE k == chip.blk_index[BlkOf(ppn)]
             q == Ppn(BlkOf(ppn), k)
  <1>1. /\ BlkOf(ppn) \in Blks /\ PageOf(ppn) \in Pages /\ ppn = Ppn(BlkOf(ppn), PageOf(ppn))
        /\ PageOf(ppn) \in Nat /\ PageOf(ppn) < PAGES_PER_BLK /\ PAGES_PER_BLK \in Nat
    BY PpnFacts, Geometry
  <1>2. k \in 0 .. PAGES_PER_BLK /\ ~(PageOf(ppn) < k)
    BY <1>1 DEF Chip, Prefix
  <1>3. ASSUME k < PageOf(ppn) PROVE FALSE
    <2>1. k \in Pages
      BY <1>1, <1>2, <1>3 DEF Pages
    <2>2. q \in Ppns /\ BlkOf(q) = BlkOf(ppn) /\ PageOf(q) = k
      BY <1>1, <2>1, PpnFacts
    <2>3. chip.cell[q] # Erased
      BY <1>3, <2>2
    <2>4. k < k
      BY <2>2, <2>3 DEF Prefix
    <2> QED BY <1>2, <2>4
  <1>4. k = PageOf(ppn)
    BY <1>1, <1>2, <1>3
  <1> QED BY <1>1, <1>4 DEF WriteCode

\* A successful nand_write.
LEMMA NandWriteFacts ==
    ASSUME NEW content, NEW chip \in Chip(content), Prefix(chip), NEW ppn \in Ppns,
           NEW page \in content, page # Erased,
           WriteCode(chip, BlkOf(ppn), PageOf(ppn)) = "SUCCESS"
    PROVE  LET new == NandWrite(chip, BlkOf(ppn), PageOf(ppn), page) IN
           /\ new \in Chip(content)
           /\ Prefix(new)
           /\ Update(new.cell, chip.cell, Ppns, ppn, page)
  <1> USE DEF Update
  <1> DEFINE new == NandWrite(chip, BlkOf(ppn), PageOf(ppn), page)
  <1>1. BlkOf(ppn) \in Blks /\ PageOf(ppn) \in Pages /\ Ppn(BlkOf(ppn), PageOf(ppn)) = ppn
    BY PpnFacts
  <1>2. PageOf(ppn) + 1 \in 0 .. PAGES_PER_BLK
    BY <1>1, Geometry DEF Pages
  <1>3. new = [cell |-> [chip.cell EXCEPT ![ppn] = page],
               blk_index |-> [chip.blk_index EXCEPT ![BlkOf(ppn)] = PageOf(ppn) + 1]]
    BY <1>1 DEF NandWrite
  <1>4. new \in Chip(content) /\ \A q \in Ppns : new.cell[q] = IF q = ppn THEN page ELSE chip.cell[q]
    BY <1>1, <1>2, <1>3 DEF Chip
  <1>5. chip.blk_index[BlkOf(ppn)] = PageOf(ppn)
    BY <1>1 DEF WriteCode
  <1>6. ASSUME NEW q \in Ppns
        PROVE  new.cell[q] # Erased <=> PageOf(q) < new.blk_index[BlkOf(q)]
    <2>1. chip.cell[q] # Erased <=> PageOf(q) < chip.blk_index[BlkOf(q)]
      BY DEF Prefix
    <2>2. BlkOf(q) \in Blks /\ PageOf(q) \in Nat /\ PageOf(ppn) \in Nat
      BY PpnFacts
    <2>3. new.blk_index[BlkOf(q)] = IF BlkOf(q) = BlkOf(ppn) THEN PageOf(ppn) + 1
                                    ELSE chip.blk_index[BlkOf(q)]
      BY <1>1, <1>3, <2>2 DEF Chip
    <2>4. BlkOf(q) = BlkOf(ppn) /\ PageOf(q) = PageOf(ppn) => q = ppn
      BY SamePage
    <2> HIDE DEF new
    <2> QED BY <1>4, <1>5, <2>1, <2>2, <2>3, <2>4
  <1> QED BY <1>4, <1>6 DEF Prefix

\* nand_erase of any block, written or not.
LEMMA NandEraseFacts ==
    ASSUME NEW content, Erased \in content, NEW chip \in Chip(content), Prefix(chip), NEW blk \in Blks
    PROVE  LET new == NandErase(chip, blk) IN
           /\ new \in Chip(content)
           /\ Prefix(new)
           /\ Wiped(new.cell, chip.cell, blk, Erased)
  <1> USE DEF Wiped
  <1> DEFINE new == NandErase(chip, blk)
  <1>1. \A q \in Ppns : BlkOf(q) \in Blks /\ PageOf(q) \in Nat /\ ~(PageOf(q) < 0)
    BY PpnFacts
  <1>2. CASE chip.blk_index[blk] = 0
    <2>1. new = chip
      BY <1>2 DEF NandErase, EraseCode
    <2>2. \A q \in Ppns : BlkOf(q) = blk => chip.cell[q] = Erased
      BY <1>1, <1>2 DEF Prefix
    <2> QED BY <2>1, <2>2
  <1>3. CASE chip.blk_index[blk] # 0
    <2>1. new = [cell |-> [q \in Ppns |-> IF BlkOf(q) = blk THEN Erased ELSE chip.cell[q]],
                 blk_index |-> [chip.blk_index EXCEPT ![blk] = 0]]
      BY <1>3 DEF NandErase, EraseCode
    <2>2. new \in Chip(content) /\ \A q \in Ppns : new.cell[q] = IF BlkOf(q) = blk THEN Erased ELSE chip.cell[q]
      BY <2>1, Geometry DEF Chip
    <2>3. \A b \in Blks : new.blk_index[b] = IF b = blk THEN 0 ELSE chip.blk_index[b]
      BY <2>1 DEF Chip
    <2> HIDE DEF new
    <2>4. Prefix(new)
      BY <1>1, <2>2, <2>3 DEF Prefix
    <2> QED BY <2>2, <2>4 DEF new
  <1> QED BY <1>2, <1>3

\* The next position of a log that is not full can be written.
LEMMA NextWritable ==
    ASSUME NEW content, NEW chip \in Chip(content), Prefix(chip),
           NEW R \in SUBSET Blks, NEW kind, NEW keys, NEW pages,
           NEW valid, NEW status, NEW table, NEW next \in Nat, NEW end \in Nat, NEW g,
           Log(R, kind, keys, pages, chip.cell, valid, status, table, next, end, FALSE, g),
           Flags(valid),
           next < end
    PROVE  Fresh(chip, valid, R, next)
  <1> USE DEF Flags, Fresh
  <1>1. next \in Ppns /\ BlkOf(next) \in R /\ status[BlkOf(next)] = kind
    BY DEF Log, Frontier
  <1>2. chip.cell[next] = Erased
    BY <1>1 DEF Log, Frontier
  <1>3. valid[next] = 1
    BY <1>1, <1>2 DEF Log, Contents
  <1>4. ASSUME NEW q \in Ppns, BlkOf(q) = BlkOf(next), PageOf(q) < PageOf(next)
        PROVE  chip.cell[q] # Erased
    <2>1. q < next /\ q \in Nat
      <3>1. /\ q = BlkOf(next) * PAGES_PER_BLK + PageOf(q)
            /\ next = BlkOf(next) * PAGES_PER_BLK + PageOf(next)
            /\ BlkOf(next) * PAGES_PER_BLK \in Nat
        BY <1>1, <1>4, BlockInterval
      <3> QED BY <1>1, <1>4, <3>1, PpnFacts
    <2> QED BY <1>1, <1>4, <2>1 DEF Log, Frontier
  <1>5. WriteCode(chip, BlkOf(next), PageOf(next)) = "SUCCESS"
    BY <1>1, <1>2, <1>4, Writable
  <1> QED BY <1>1, <1>2, <1>3, <1>5

\* So can the next position of the empty block during a collection.
LEMMA CopyWritable ==
    ASSUME NEW content, NEW chip \in Chip(content), Prefix(chip),
           NEW R \in SUBSET Blks, NEW kind, kind # "EMPTY", NEW keys, NEW pages,
           NEW valid, NEW status, NEW table, NEW next, NEW end, NEW g,
           Log(R, kind, keys, pages, chip.cell, valid, status, table, next, end, TRUE, g),
           Flags(valid)
    PROVE  /\ Fresh(chip, valid, R, Ppn(g.free, g.cnt))
           /\ BlkOf(Ppn(g.free, g.cnt)) = g.free /\ PageOf(Ppn(g.free, g.cnt)) = g.cnt
  <1> DEFINE dst == Ppn(g.free, g.cnt)
  <1>1. g.cnt \in Pages /\ g.cnt \in Nat /\ g.free \in Blks
    BY CollectingFacts
  <1>2. dst \in Ppns /\ BlkOf(dst) = g.free /\ PageOf(dst) = g.cnt
    BY <1>1, PpnFacts
  <1>3. g.free \in R /\ status[g.free] = "EMPTY"
    BY DEF Log, Collecting
  <1> HIDE DEF dst
  <1>4. \A q \in Ppns : BlkOf(q) = g.free => (chip.cell[q] # Erased <=> PageOf(q) < g.cnt)
    BY <1>3 DEF Log, Frontier
  <1>5. chip.cell[dst] = Erased
    BY <1>1, <1>2, <1>4
  <1>6. WriteCode(chip, BlkOf(dst), PageOf(dst)) = "SUCCESS"
    BY <1>2, <1>4, <1>5, Writable
  <1>7. valid[dst] = 1
    BY <1>2, <1>3 DEF Flags, Log, Contents
  <1>8. Fresh(chip, valid, R, dst)
    BY <1>2, <1>3, <1>5, <1>6, <1>7 DEF Fresh
  <1> QED BY <1>2, <1>8 DEF dst

-----------------------------------------------------------------------------
\* greedy_data_blk and greedy_map_blk return a block of their kind, with an
\* invalid page if any block of the kind has one.
LEMMA GreedyFacts ==
    ASSUME NEW kind, NEW some \in Blks, Block_Status[some] = kind
    PROVE  /\ GreedyBlk(kind) \in Blks
           /\ Block_Status[GreedyBlk(kind)] = kind
           /\ \A blk \in Blks :
                 Block_Status[blk] = kind /\ Reclaimable(isValid, blk)
                 => Reclaimable(isValid, GreedyBlk(kind))
  <1> USE DEF Reclaimable
  <1> DEFINE Inv(blk) == {page \in Pages : isValid[Ppn(blk, page)] = 0}
             blks == {blk \in Blks : Block_Status[blk] = kind}
             best == {blk \in blks : \A b \in blks : InvalidCount(b) <= InvalidCount(blk)}
             counts == {InvalidCount(blk) : blk \in blks}
  <1>1. IsFiniteSet(Pages) /\ Cardinality(Pages) = PAGES_PER_BLK
    BY Geometry, FS_Interval DEF Pages
  <1>2. ASSUME NEW blk \in Blks
        PROVE  /\ InvalidCount(blk) \in Nat /\ InvalidCount(blk) <= PAGES_PER_BLK
               /\ InvalidCount(blk) = 0 <=> Inv(blk) = {}
    <2>1. Inv(blk) \in SUBSET Pages
      OBVIOUS
    <2>2. InvalidCount(blk) = Cardinality(Inv(blk))
      BY DEF InvalidCount
    <2> HIDE DEF Inv
    <2> QED BY <1>1, <2>1, <2>2, FS_Subset, FS_CardinalityType, FS_EmptySet
  <1>3. counts \in SUBSET Nat /\ counts # {}
    BY <1>2
  <1>4. PICK m \in counts : \A k \in counts : k <= m
    <2>1. \A k \in counts : k <= PAGES_PER_BLK
      BY <1>2
    <2> HIDE DEF counts
    <2> QED BY <1>3, <2>1, Geometry, GreatestNat
  <1>5. best # {}
    <2>1. PICK top \in blks : m = InvalidCount(top)
      BY <1>4
    <2>2. \A b \in blks : InvalidCount(b) <= InvalidCount(top)
      BY <1>4, <2>1
    <2> QED BY <2>1, <2>2
  <1>6. best \in SUBSET Nat /\ GreedyBlk(kind) = Lowest(best)
    BY DEF GreedyBlk, Blks
  <1>7. GreedyBlk(kind) \in best
    <2> HIDE DEF best
    <2> QED BY <1>5, <1>6, LowestHighest
  <1>8. ASSUME NEW blk \in blks, Inv(blk) # {} PROVE Inv(GreedyBlk(kind)) # {}
    <2>1. /\ InvalidCount(blk) \in Nat /\ InvalidCount(blk) # 0
          /\ InvalidCount(blk) <= InvalidCount(GreedyBlk(kind))
      BY <1>2, <1>7, <1>8
    <2> HIDE DEF Inv
    <2> QED BY <1>2, <1>7, <2>1
  <1> QED BY <1>7, <1>8
=============================================================================
