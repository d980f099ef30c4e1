------------------------------ MODULE Zns_proofs ------------------------------
(***************************************************************************)
(* Proofs about the ZNS+ simulator (module Zns), for every geometry and    *)
(* every list of zns_izc, under the host of CarefulSpec: it resets a zone  *)
(* that was filled through its log before it opens another log, and leaves *)
(* a sector out of every bitmap of zns_tl_open.  Without the one, block    *)
(* groups are lost; without the other, open zones are counted off twice.   *)
(*                                                                         *)
(* The argument.  Every block group has one holder, the queue of its       *)
(* channel group or a zone (Owned); of what a zone holds, as many pages    *)
(* are written as wp has passed, in the order in which the sectors of the  *)
(* zone lie on the banks, and what is free is erased (Followed).  So no    *)
(* nand_write fails, although its return code is never looked at, and what *)
(* is read to be copied is there.  A zone that is opened finds a block     *)
(* group, since a channel group has MAX_OPEN_ZONE more of them than zones, *)
(* and no more zones than that have a log (Counts).  A call is followed    *)
(* sector by sector: Working is what holds of it before and after each,    *)
(* Further how far it has come.                                            *)
(*                                                                         *)
(* The simulator implements ZonedDevice: what a zone holds depends on the  *)
(* chips only through its own block group (HeldOn), which no call on       *)
(* another zone touches (OthersKept); what a call has written is what its  *)
(* zone then holds (HeldByCall).  A read gets a sector or more each round  *)
(* and is always between two pages or past the last in flash (OnTheWay).   *)
(***************************************************************************)
EXTENDS Zns, FiniteSetTheorems, WellFoundedInduction, TLAPS

-----------------------------------------------------------------------------
\* Geometry.
LEMMA Sizes ==
    /\ NBANK \in Nat \ {0} /\ NBLK \in Nat \ {0} /\ NPAGE \in Nat \ {0}
    /\ DEG_ZONE \in Nat \ {0} /\ MAX_OPEN_ZONE \in Nat \ {0} /\ NSECT \in Nat \ {0}
    /\ MAX_OPEN_ZONE < NBLK
    /\ NUM_FCG \in Nat \ {0} /\ NBANK = NUM_FCG * DEG_ZONE
    /\ MAX_ZONE \in Nat \ {0} /\ ZONE_SIZE \in Nat \ {0}
  <1>1. /\ NBANK \in Nat \ {0} /\ NBLK \in Nat \ {0} /\ NPAGE \in Nat \ {0}
        /\ DEG_ZONE \in Nat \ {0} /\ MAX_OPEN_ZONE \in Nat \ {0} /\ NSECT \in Nat \ {0}
        /\ MAX_OPEN_ZONE < NBLK /\ NBANK % DEG_ZONE = 0
    BY ZnsAssumption DEF ZnsAssumption
  <1>2. NUM_FCG \in Nat \ {0} /\ NBANK = NUM_FCG * DEG_ZONE
    BY <1>1 DEF NUM_FCG
  <1>3. \A a, b \in Nat \ {0} : a * b \in Nat \ {0}
    OBVIOUS
  <1>4. NBLK - MAX_OPEN_ZONE \in Nat \ {0}
    BY <1>1
  <1>5. MAX_ZONE \in Nat \ {0}
    BY <1>2, <1>3, <1>4 DEF MAX_ZONE
  <1>6. ZONE_SIZE \in Nat \ {0}
    BY <1>1, <1>3 DEF ZONE_SIZE
  <1> QED BY <1>1, <1>2, <1>5, <1>6

\* Division by a positive number.
LEMMA DivMod ==
    ASSUME NEW P \in Nat \ {0}
    PROVE  /\ \A b \in Nat, p \in 0 .. P - 1 :
                 (b * P + p) \div P = b /\ (b * P + p) % P = p
           /\ \A x \in Nat : /\ x = (x \div P) * P + (x % P)
                             /\ x % P \in 0 .. P - 1
                             /\ x \div P \in Nat
           /\ \A B \in Nat : /\ \A b \in 0 .. B - 1, p \in 0 .. P - 1 : b * P + p \in 0 .. B * P - 1
                             /\ \A x \in 0 .. B * P - 1 : x \div P \in 0 .. B - 1
  <1>1. ASSUME NEW b \in Nat, NEW p \in 0 .. P - 1
        PROVE  (b * P + p) \div P = b /\ (b * P + p) % P = p
    BY <1>1
  <1>2. ASSUME NEW x \in Nat
        PROVE  x = (x \div P) * P + (x % P) /\ x % P \in 0 .. P - 1 /\ x \div P \in Nat
    BY <1>2
  <1>3. ASSUME NEW B \in Nat, NEW b \in 0 .. B - 1, NEW p \in 0 .. P - 1
        PROVE  b * P + p \in 0 .. B * P - 1
    BY <1>3
  <1>4. ASSUME NEW B \in Nat, NEW x \in 0 .. B * P - 1
        PROVE  x \div P \in 0 .. B - 1
    BY <1>4
  <1> QED BY <1>1, <1>2, <1>3, <1>4

\* A page of a chip is the pair of its block and its place in the block.
LEMMA PpnFacts ==
    \A blk \in Fbgs, page \in Pages :
        /\ Ppn(blk, page) \in Ppns
        /\ BlkOf(Ppn(blk, page)) = blk
        /\ \A b \in Fbgs, p \in Pages : Ppn(b, p) = Ppn(blk, page) => b = blk /\ p = page
  <1>1. \A blk \in Fbgs, page \in Pages :
           /\ Ppn(blk, page) \in Ppns /\ BlkOf(Ppn(blk, page)) = blk
           /\ Ppn(blk, page) % NPAGE = page
    BY Sizes, DivMod DEF Fbgs, Pages, Ppn, Ppns, BlkOf
  <1> QED BY <1>1

\* The place of a page among those of its zone.
PageNo(bank, page) == page * DEG_ZONE + (bank % DEG_ZONE)

\* The page of a sector, in the banks of the zone's channel group.
LEMMA SectorPlace ==
    ASSUME NEW zone \in Zones, NEW s \in Sectors
    PROVE  /\ lba_to_bank(zone, s) \in BanksOf(zone_to_fcg(zone))
           /\ lba_to_page(s) \in Pages
           /\ PageNo(lba_to_bank(zone, s), lba_to_page(s)) = s \div NSECT
           /\ s % NSECT \in 0 .. NSECT - 1
           /\ s = (s \div NSECT) * NSECT + (s % NSECT)
           /\ s \div NSECT \in Nat
  <1> DEFINE fcg == zone_to_fcg(zone)
             J == s \div NSECT
             o == J % DEG_ZONE
             p == J \div DEG_ZONE
  <1>1. fcg \in 0 .. NUM_FCG - 1
    BY Sizes DEF zone_to_fcg, Zones
  <1>2. s \in Nat /\ s < ZONE_SIZE
    BY Sizes DEF Sectors
  <1>3. J \in Nat /\ s % NSECT \in 0 .. NSECT - 1 /\ s = J * NSECT + (s % NSECT)
    BY <1>2, Sizes, DivMod
  <1>4. o \in 0 .. DEG_ZONE - 1 /\ p \in Nat /\ J = p * DEG_ZONE + o
    BY <1>3, Sizes, DivMod
  <1> DEFINE P == DEG_ZONE * NSECT
             r == o * NSECT + (s % NSECT)
  <1>5. P \in Nat \ {0} /\ r \in 0 .. P - 1
    <2>1. \A a, b \in Nat \ {0} : a * b \in Nat \ {0}
      OBVIOUS
    <2>2. \A b \in 0 .. DEG_ZONE - 1, q \in 0 .. NSECT - 1 : b * NSECT + q \in 0 .. DEG_ZONE * NSECT - 1
      BY Sizes, DivMod
    <2>3. P \in Nat \ {0}
      BY <2>1, Sizes
    <2> HIDE DEF o
    <2>4. r \in 0 .. P - 1
      BY <2>2, <1>3, <1>4
    <2> QED BY <2>3, <2>4
  <1>6. s = p * P + r
    <2>1. /\ \A a, q, n \in Nat : (a + q) * n = a * n + q * n
          /\ \A a, d, n \in Nat : (a * d) * n = a * (d * n)
          /\ \A a, b \in Nat : a * b \in Nat
      OBVIOUS
    <2> HIDE DEF o, p, J
    <2>2. J * NSECT = (p * DEG_ZONE) * NSECT + o * NSECT
      BY <2>1, <1>4, Sizes
    <2>3. (p * DEG_ZONE) * NSECT = p * P
      BY <2>1, <1>4, Sizes
    <2>4. p * P \in Nat /\ o * NSECT \in Nat /\ s % NSECT \in Nat
      BY <2>1, <1>3, <1>4, <1>5, Sizes
    <2> HIDE DEF P
    <2> QED BY <2>2, <2>3, <2>4, <1>3
  <1>7. s \div P = p
    <2> HIDE DEF p, P, r
    <2>0. P \in Nat \ {0} /\ p \in Nat /\ r \in 0 .. P - 1
      BY <1>4, <1>5
    <2>1. \A b \in Nat, q \in 0 .. P - 1 : (b * P + q) \div P = b
      BY <2>0, DivMod
    <2>2. (p * P + r) \div P = p
      BY <2>0, <2>1
    <2> QED BY <1>6, <2>2
  <1>8. p \in 0 .. NPAGE - 1
    <2>1. \A a, b, c \in Nat : (a * b) * c = b * (a * c)
      OBVIOUS
    <2>2. ZONE_SIZE = NPAGE * P
      BY <2>1, Sizes DEF ZONE_SIZE
    <2>3. s \in 0 .. NPAGE * P - 1
      BY <1>2, <2>2, Sizes
    <2> HIDE DEF P
    <2> QED BY <1>5, <1>7, <2>3, Sizes, DivMod
  <1>9. lba_to_page(s) = p
    BY <1>7, <1>8, Sizes DEF lba_to_page
  <1>10. lba_to_bank(zone, s) = fcg * DEG_ZONE + o
    BY DEF lba_to_bank
  <1> HIDE DEF fcg, o, p, J
  <1>11. /\ (fcg * DEG_ZONE + o) \div DEG_ZONE = fcg /\ (fcg * DEG_ZONE + o) % DEG_ZONE = o
         /\ fcg * DEG_ZONE + o \in 0 .. NUM_FCG * DEG_ZONE - 1
    BY <1>1, <1>4, Sizes, DivMod
  <1>12. lba_to_bank(zone, s) \in BanksOf(fcg)
    BY <1>10, <1>11, Sizes DEF BanksOf, Banks
  <1> QED BY <1>3, <1>4, <1>8, <1>9, <1>10, <1>11, <1>12 DEF PageNo, Pages, fcg, J

\* A page in these banks holds sectors of the zone.
LEMMA PagePlace ==
    ASSUME NEW zone \in Zones, NEW bank \in BanksOf(zone_to_fcg(zone)), NEW page \in Pages
    PROVE  LET s == PageNo(bank, page) * NSECT IN
           /\ PageNo(bank, page) \in 0 .. DEG_ZONE * NPAGE - 1
           /\ \A i \in 0 .. NSECT - 1 :
                 /\ s + i \in Sectors /\ (s + i) \div NSECT = PageNo(bank, page)
                 /\ lba_to_bank(zone, s + i) = bank
                 /\ lba_to_page(s + i) = page
  <1> DEFINE J == PageNo(bank, page)
             o == bank % DEG_ZONE
             fcg == zone_to_fcg(zone)
  <1>1. bank \in Nat /\ bank \div DEG_ZONE = fcg /\ page \in 0 .. NPAGE - 1
    BY Sizes DEF BanksOf, Banks, Pages
  <1>2. o \in 0 .. DEG_ZONE - 1 /\ bank = fcg * DEG_ZONE + o
    BY <1>1, Sizes, DivMod
  <1>3. J = page * DEG_ZONE + o /\ J \in 0 .. NPAGE * DEG_ZONE - 1
    BY <1>1, <1>2, Sizes, DivMod DEF PageNo
  <1>4. J \div DEG_ZONE = page /\ J % DEG_ZONE = o
    <2> HIDE DEF o, J
    <2> QED BY <1>1, <1>2, <1>3, Sizes, DivMod
  <1>5. NPAGE * DEG_ZONE = DEG_ZONE * NPAGE /\ NPAGE * DEG_ZONE \in Nat
    BY Sizes
  <1>6. ASSUME NEW i \in 0 .. NSECT - 1
        PROVE  /\ J * NSECT + i \in Sectors /\ (J * NSECT + i) \div NSECT = J
               /\ lba_to_bank(zone, J * NSECT + i) = bank
               /\ lba_to_page(J * NSECT + i) = page
    <2> DEFINE s == J * NSECT + i
    <2> HIDE DEF J, o, fcg
    <2> HIDE DEF s
    <2>1. s \in 0 .. (NPAGE * DEG_ZONE) * NSECT - 1 /\ s \div NSECT = J
      <3> DEFINE B == NPAGE * DEG_ZONE
      <3>1. B \in Nat /\ J \in 0 .. B - 1 /\ J \in Nat
        BY <1>3, <1>5
      <3>2. NSECT \in Nat \ {0}
        BY Sizes
      <3> HIDE DEF B
      <3>3. s \in 0 .. B * NSECT - 1
        BY <3>1, <3>2, DivMod DEF s
      <3>4. s \div NSECT = J
        BY <3>1, <3>2, DivMod DEF s
      <3> QED BY <3>3, <3>4 DEF B
    <2>2. s \in Sectors
      BY <1>5, <2>1 DEF Sectors, ZONE_SIZE
    <2>3. lba_to_bank(zone, s) = bank
      BY <1>2, <1>4, <2>1 DEF lba_to_bank, fcg
    <2>4. PageNo(bank, lba_to_page(s)) = J /\ lba_to_page(s) \in Pages
      BY <2>1, <2>2, <2>3, SectorPlace
    <2>5. lba_to_page(s) \in Nat /\ lba_to_page(s) * DEG_ZONE + o = J
      BY <2>4, Sizes DEF PageNo, o, Pages
    <2>6. lba_to_page(s) = page
      <3>1. \A b \in Nat, q \in 0 .. DEG_ZONE - 1 : (b * DEG_ZONE + q) \div DEG_ZONE = b
        BY Sizes, DivMod
      <3>2. (lba_to_page(s) * DEG_ZONE + o) \div DEG_ZONE = lba_to_page(s)
        BY <1>2, <2>5, <3>1
      <3> QED BY <1>4, <2>5, <3>2
    <2> QED BY <2>1, <2>2, <2>3, <2>6 DEF s
  <1> QED BY <1>3, <1>5, <1>6

-----------------------------------------------------------------------------
\* Loops over the sectors of a call.
LEMMA LeastNat ==
    ASSUME NEW T \in SUBSET Nat, T # {}
    PROVE  \E m \in T : \A k \in T : m <= k
  <1>1. PICK m \in T : \A k \in T : ~(<<k, m>> \in OpToRel(<, Nat))
    <2> DEFINE less == OpToRel(<, Nat)
    <2>1. IsWellFoundedOn(less, Nat)
      BY NatLessThanWellFounded
    <2> HIDE DEF less
    <2> QED BY <2>1, WFMin DEF less
  <1>2. \A k \in T : ~(k < m)
    BY <1>1 DEF OpToRel
  <1> QED BY <1>2

\* What holds before a loop and is kept by each round holds after every round.
LEMMA Rounds ==
    ASSUME NEW n \in Nat, NEW good, 0 \in good,
           \A i \in 1 .. n : i - 1 \in good => i \in good
    PROVE  \A i \in 0 .. n : i \in good
  <1> DEFINE bad == {i \in 0 .. n : i \notin good}
  <1> SUFFICES ASSUME bad # {} PROVE FALSE
    OBVIOUS
  <1>0. bad \in SUBSET Nat
    OBVIOUS
  <1>1. PICK m \in bad : \A k \in bad : m <= k
    <2> HIDE DEF bad
    <2> QED BY <1>0, LeastNat
  <1>2. m \in 1 .. n
    BY <1>1
  <1>3. m - 1 \in 0 .. n
    BY <1>2
  <1> QED BY <1>1, <1>2, <1>3

\* A loop of n rounds from base computes f.  Every loop has a result, and if a
\* round leads from the good states before it to good ones, its states are good.
IsLoop(f, n, base, round) ==
    f[0] = base /\ \A i \in 1 .. n : f[i] = round[i][f[i - 1]]

LEMMA LoopResult ==
    ASSUME NEW n \in Nat, NEW S, NEW good \in [0 .. n -> SUBSET S], NEW base \in good[0],
           NEW round \in [1 .. n -> [S -> S]],
           \A i \in 1 .. n : \A s \in good[i - 1] : round[i][s] \in good[i]
    PROVE  \E f \in [0 .. n -> S] : IsLoop(f, n, base, round) /\ \A i \in 0 .. n : f[i] \in good[i]
  <1> DEFINE ok(f, k) == IsLoop(f, k, base, round) /\ \A i \in 0 .. k : f[i] \in good[i]
             able == {k \in 0 .. n : \E f \in [0 .. n -> S] : ok(f, k)}
  <1>0. base \in S
    OBVIOUS
  <1>1. 0 \in able
    <2> DEFINE f == [i \in 0 .. n |-> base]
    <2>1. f \in [0 .. n -> S] /\ f[0] = base
      BY <1>0
    <2> HIDE DEF f
    <2>2. ok(f, 0)
      BY <2>1 DEF IsLoop
    <2> QED BY <2>1, <2>2
  <1>2. ASSUME NEW k \in 1 .. n, k - 1 \in able PROVE k \in able
    <2>1. PICK f \in [0 .. n -> S] : ok(f, k - 1)
      BY <1>2
    <2> DEFINE v == round[k][f[k - 1]]
               g == [f EXCEPT ![k] = v]
    <2>2. k \in 0 .. n /\ k - 1 \in 0 .. n /\ k - 1 # k
      OBVIOUS
    <2>3. v \in S /\ v \in good[k]
      BY <2>1, <2>2
    <2>4. g \in [0 .. n -> S] /\ g[k] = v /\ \A i \in 0 .. n : i # k => g[i] = f[i]
      BY <2>2, <2>3
    <2>5. g[0] = base
      BY <2>1, <2>4 DEF IsLoop
    <2>6. ASSUME NEW i \in 1 .. k PROVE g[i] = round[i][g[i - 1]]
      <3>1. CASE i = k
        BY <2>2, <2>4, <3>1
      <3>2. CASE i # k
        <4>1. i \in 1 .. k - 1 /\ i \in 0 .. n /\ i - 1 \in 0 .. n /\ i - 1 # k
          BY <3>2
        <4> HIDE DEF g
        <4> QED BY <2>1, <2>4, <4>1, <3>2 DEF IsLoop
      <3> QED BY <3>1, <3>2
    <2>7. ASSUME NEW i \in 0 .. k PROVE g[i] \in good[i]
      <3>1. CASE i = k
        BY <2>3, <2>4, <3>1
      <3>2. CASE i # k
        <4>1. i \in 0 .. k - 1 /\ i \in 0 .. n
          BY <3>2
        <4> HIDE DEF g
        <4> QED BY <2>1, <2>4, <4>1, <3>2
      <3> QED BY <3>1, <3>2
    <2> HIDE DEF g
    <2>8. ok(g, k)
      BY <2>5, <2>6, <2>7 DEF IsLoop
    <2> QED BY <2>2, <2>4, <2>8
  <1> HIDE DEF able
  <1>3. \A k \in 0 .. n : k \in able
    BY <1>1, <1>2, Rounds
  <1>4. n \in able
    BY <1>3
  <1> QED BY <1>4 DEF able

-----------------------------------------------------------------------------
\* A call at work on a block group.
Page  == [0 .. NSECT - 1 -> Data]
Chip  == [cell : [Ppns -> Page \cup {Erased}], blk_index : [Fbgs -> 0 .. NPAGE]]
Calls == [zone : Zones, nand : [Banks -> Chip], cnt : Int,
          buf : [0 .. NSECT - 1 -> Data \cup {Zero}],
          fbg : Fbgs \cup {-1}, log : Fbgs \cup {-1}, state : States, wp : 0 .. ZONE_SIZE]

\* The written pages of a block are those before its next position.
IsLog(chips) ==
    \A bank \in Banks, blk \in Fbgs, page \in Pages :
        chips[bank].cell[Ppn(blk, page)] # Erased <=> page < chips[bank].blk_index[blk]

\* Of a block group in a channel group, the first pages are written, in the
\* order in which they hold sectors.
FirstWritten(chips, fcg, fbg, pages) ==
    \A bank \in BanksOf(fcg), page \in Pages :
        page < chips[bank].blk_index[fbg] <=> PageNo(bank, page) < pages

\* Nothing but this block group changes.
SameElsewhere(old, new, fcg, fbg) ==
    \A bank \in Banks, blk \in Fbgs : ~(bank \in BanksOf(fcg) /\ blk = fbg) =>
        /\ new[bank].blk_index[blk] = old[bank].blk_index[blk]
        /\ \A page \in Pages : new[bank].cell[Ppn(blk, page)] = old[bank].cell[Ppn(blk, page)]

Working(c, fbg) ==
    /\ c \in Calls /\ fbg \in Fbgs
    /\ c.state \in {"OPEN", "TLOPEN", "FULL"} /\ (c.state = "FULL" <=> c.wp = ZONE_SIZE)
    /\ c.state = "OPEN" => c.fbg = fbg
    /\ c.state = "TLOPEN" => c.log = fbg
    /\ IsLog(c.nand)
    /\ FirstWritten(c.nand, zone_to_fcg(c.zone), fbg, c.wp \div NSECT)
    /\ \A i \in 0 .. NSECT - 1 : i < c.wp % NSECT => c.buf[i] \in Data

\* The sector s of a zone, of which c wrote more.
Has(c, fbg, s) ==
    IF s < (c.wp \div NSECT) * NSECT
    THEN c.nand[lba_to_bank(c.zone, s)].cell[Ppn(fbg, lba_to_page(s))][s % NSECT]
    ELSE c.buf[s % NSECT]

\* d is c after n more sectors.
Further(c, d, fbg, n) ==
    /\ d.zone = c.zone /\ d.fbg = c.fbg /\ d.log = c.log /\ d.wp = c.wp + n
    /\ d.state = IF d.wp = ZONE_SIZE THEN "FULL" ELSE c.state
    /\ d.cnt = IF d.wp = ZONE_SIZE /\ c.wp # ZONE_SIZE THEN c.cnt - 1 ELSE c.cnt
    /\ SameElsewhere(c.nand, d.nand, zone_to_fcg(c.zone), fbg)
    /\ \A s \in Sectors : s < c.wp => Has(d, fbg, s) = Has(c, fbg, s)

\* The sectors after the one at wp.
LEMMA NextSector ==
    ASSUME NEW s \in Sectors
    PROVE  LET J == s \div NSECT IN
           /\ s + 1 \in 0 .. ZONE_SIZE
           /\ s % NSECT # NSECT - 1 =>
                /\ (s + 1) \div NSECT = J /\ (s + 1) % NSECT = (s % NSECT) + 1
                /\ s + 1 # ZONE_SIZE
           /\ s % NSECT = NSECT - 1 =>
                /\ (s + 1) \div NSECT = J + 1 /\ (s + 1) % NSECT = 0
                /\ s + 1 - NSECT = J * NSECT /\ J * NSECT \in Sectors
                /\ (J + 1) * NSECT = s + 1
           /\ J * NSECT <= s /\ J * NSECT \in Nat
  <1> DEFINE J == s \div NSECT
             r == s % NSECT
  <1>1. s \in Nat /\ s < ZONE_SIZE /\ ZONE_SIZE \in Nat /\ NSECT \in Nat \ {0}
    BY Sizes DEF Sectors
  <1>2. J \in Nat /\ r \in 0 .. NSECT - 1 /\ s = J * NSECT + r
    BY <1>1, DivMod
  <1>3. \A b \in Nat, q \in 0 .. NSECT - 1 : (b * NSECT + q) \div NSECT = b /\ (b * NSECT + q) % NSECT = q
    BY <1>1, DivMod
  <1>4. J * NSECT \in Nat /\ (J + 1) * NSECT = J * NSECT + NSECT
    <2>1. \A a, b \in Nat : a * b \in Nat /\ (a + 1) * b = a * b + b
      OBVIOUS
    <2> HIDE DEF J
    <2> QED BY <1>1, <1>2, <2>1
  <1>5. ZONE_SIZE % NSECT = 0
    <2> DEFINE D == DEG_ZONE * NPAGE
    <2>1. D \in Nat /\ ZONE_SIZE = D * NSECT
      BY Sizes DEF ZONE_SIZE
    <2> HIDE DEF D
    <2>2. (D * NSECT + 0) % NSECT = 0
      BY <1>1, <1>3, <2>1
    <2>3. D * NSECT + 0 = D * NSECT
      BY <1>1, <2>1
    <2> QED BY <2>1, <2>2, <2>3
  <1> HIDE DEF J, r
  <1>6. ASSUME r # NSECT - 1
        PROVE  (s + 1) \div NSECT = J /\ (s + 1) % NSECT = r + 1 /\ s + 1 # ZONE_SIZE
    <2>1. r + 1 \in 0 .. NSECT - 1 /\ s + 1 = J * NSECT + (r + 1)
      BY <1>1, <1>2, <1>4, <1>6
    <2>2. (J * NSECT + (r + 1)) \div NSECT = J /\ (J * NSECT + (r + 1)) % NSECT = r + 1
      BY <1>2, <1>3, <2>1
    <2>3. r + 1 # 0
      BY <1>1, <1>2
    <2> QED BY <1>5, <2>1, <2>2, <2>3
  <1>7. ASSUME r = NSECT - 1
        PROVE  /\ (s + 1) \div NSECT = J + 1 /\ (s + 1) % NSECT = 0
               /\ s + 1 - NSECT = J * NSECT /\ J * NSECT \in Sectors /\ (J + 1) * NSECT = s + 1
    <2>1. s + 1 = (J + 1) * NSECT + 0 /\ J + 1 \in Nat /\ 0 \in 0 .. NSECT - 1
      BY <1>1, <1>2, <1>4, <1>7
    <2>2. ((J + 1) * NSECT + 0) \div NSECT = J + 1 /\ ((J + 1) * NSECT + 0) % NSECT = 0
      BY <1>3, <2>1
    <2>3. s + 1 - NSECT = J * NSECT /\ J * NSECT \in Sectors /\ (J + 1) * NSECT = s + 1
      BY <1>1, <1>2, <1>4, <1>7 DEF Sectors
    <2> QED BY <2>1, <2>2, <2>3
  <1>8. s + 1 \in 0 .. ZONE_SIZE /\ J * NSECT <= s
    BY <1>1, <1>2, <1>4
  <1> QED BY <1>4, <1>6, <1>7, <1>8 DEF J, r

\* The page of a sector.
LEMMA InPage ==
    ASSUME NEW t \in Nat, NEW J \in Nat, J * NSECT <= t, t < J * NSECT + NSECT
    PROVE  t \div NSECT = J
  <1> DEFINE B == J * NSECT
  <1>1. \A b \in Nat, q \in 0 .. NSECT - 1 : (b * NSECT + q) \div NSECT = b
    BY Sizes, DivMod
  <1>2. B \in Nat /\ NSECT \in Nat
    BY Sizes
  <1>3. B <= t /\ t < B + NSECT
    OBVIOUS
  <1> HIDE DEF B
  <1>4. t - B \in 0 .. NSECT - 1 /\ B + (t - B) = t
    BY <1>2, <1>3
  <1> QED BY <1>1, <1>4 DEF B

\* A page of a call's block group is written where the group ends.
LEMMA FlushFacts ==
    ASSUME NEW chips \in [Banks -> Chip], NEW zone \in Zones, NEW fbg \in Fbgs,
           NEW s \in Sectors, NEW page \in Page, IsLog(chips),
           FirstWritten(chips, zone_to_fcg(zone), fbg, s \div NSECT)
    PROVE  LET bank == lba_to_bank(zone, s)
               new  == [chips EXCEPT ![bank] = NandWrite(chips[bank], fbg, lba_to_page(s), page)]
           IN  /\ new \in [Banks -> Chip]
               /\ IsLog(new)
               /\ FirstWritten(new, zone_to_fcg(zone), fbg, (s \div NSECT) + 1)
               /\ new[bank].cell[Ppn(fbg, lba_to_page(s))] = page
               /\ \A b \in Banks, blk \in Fbgs : ~(b = bank /\ blk = fbg) =>
                     new[b].blk_index[blk] = chips[b].blk_index[blk]
               /\ \A b \in Banks, blk \in Fbgs, p \in Pages :
                     ~(b = bank /\ blk = fbg /\ p = lba_to_page(s)) =>
                        new[b].cell[Ppn(blk, p)] = chips[b].cell[Ppn(blk, p)]
  <1> DEFINE fcg  == zone_to_fcg(zone)
             bank == lba_to_bank(zone, s)
             pg   == lba_to_page(s)
             J    == s \div NSECT
             old  == chips[bank]
             w    == NandWrite(old, fbg, pg, page)
             new  == [chips EXCEPT ![bank] = w]
  <1>1. /\ bank \in BanksOf(fcg) /\ pg \in Pages /\ PageNo(bank, pg) = J /\ J \in Nat
    BY SectorPlace
  <1>2. bank \in Banks /\ old \in Chip /\ pg \in Nat /\ pg < NPAGE
    BY <1>1, Sizes DEF BanksOf, Pages
  <1>3. \A b \in BanksOf(fcg) : b \in Banks
    BY DEF BanksOf
  <1> HIDE DEF bank, pg, J, fcg
  <1>4. \A b \in BanksOf(fcg), p \in Pages : PageNo(b, p) = J => b = bank /\ p = pg
    <2> TAKE b \in BanksOf(fcg), p \in Pages
    <2> HAVE PageNo(b, p) = J
    <2>1. /\ 0 \in 0 .. NSECT - 1 /\ PageNo(b, p) \in Nat
          /\ lba_to_bank(zone, PageNo(b, p) * NSECT + 0) = b
          /\ lba_to_page(PageNo(b, p) * NSECT + 0) = p
      BY PagePlace, Sizes DEF fcg
    <2>2. /\ lba_to_bank(zone, PageNo(bank, pg) * NSECT + 0) = bank
          /\ lba_to_page(PageNo(bank, pg) * NSECT + 0) = pg
      BY <1>1, <2>1, PagePlace, Sizes DEF fcg
    <2> QED BY <1>1, <2>1, <2>2
  <1>5. \A b \in BanksOf(fcg), p \in Pages : PageNo(b, p) \in Nat /\ PageNo(b, p) = p * DEG_ZONE + (b % DEG_ZONE)
    BY PagePlace, Sizes DEF fcg, PageNo
  <1>6. old.blk_index[fbg] = pg
    <2> DEFINE k == old.blk_index[fbg]
    <2>1. k \in 0 .. NPAGE
      BY <1>2 DEF Chip
    <2> HIDE DEF k
    <2>2. \A p \in Pages : p < k <=> PageNo(bank, p) < J
      BY <1>1 DEF FirstWritten, J, fcg, k
    <2>3. ~(pg < k)
      BY <1>1, <2>2
    <2>4. ~(k < pg)
      <3> SUFFICES ASSUME k < pg PROVE FALSE
        OBVIOUS
      <3>1. k \in Pages /\ ~(PageNo(bank, k) < J)
        <4>1. k \in Pages /\ k \in Int
          BY <1>2, <2>1, Sizes DEF Pages
        <4> QED BY <2>2, <4>1
      <3>2. PageNo(bank, k) = k * DEG_ZONE + (bank % DEG_ZONE) /\ J = pg * DEG_ZONE + (bank % DEG_ZONE)
        BY <1>1, <1>5, <3>1
      <3>3. k * DEG_ZONE < pg * DEG_ZONE
        BY <1>2, <2>1, Sizes
      <3>4. bank % DEG_ZONE \in Nat /\ k * DEG_ZONE \in Nat /\ pg * DEG_ZONE \in Nat
        BY <1>2, <2>1, Sizes, DivMod DEF Banks
      <3> QED BY <3>1, <3>2, <3>3, <3>4
    <2> QED BY <1>2, <2>1, <2>3, <2>4, Sizes DEF k
  <1>7. old.cell[Ppn(fbg, pg)] = Erased
    BY <1>1, <1>2, <1>6 DEF IsLog
  <1>8. /\ w.cell = [old.cell EXCEPT ![Ppn(fbg, pg)] = page]
        /\ w.blk_index = [old.blk_index EXCEPT ![fbg] = pg + 1]
        /\ w \in Chip
    <2>1. WriteCode(old, fbg, pg) = "SUCCESS"
      BY <1>1, <1>6, <1>7 DEF WriteCode, Blks, Fbgs
    <2>2. w = [cell |-> [old.cell EXCEPT ![Ppn(fbg, pg)] = page],
               blk_index |-> [old.blk_index EXCEPT ![fbg] = pg + 1]]
      BY <2>1 DEF NandWrite
    <2>3. pg + 1 \in 0 .. NPAGE /\ Ppn(fbg, pg) \in Ppns
      BY <1>1, <1>2, PpnFacts, Sizes
    <2> HIDE DEF w, old
    <2> QED BY <1>2, <2>2, <2>3 DEF Chip
  <1> HIDE DEF w
  <1>9. new \in [Banks -> Chip] /\ new[bank] = w /\ \A b \in Banks : b # bank => new[b] = chips[b]
    BY <1>2, <1>8
  <1> HIDE DEF new
  <1>10. \A b \in Banks, blk \in Fbgs :
            new[b].blk_index[blk] = IF b = bank /\ blk = fbg THEN pg + 1 ELSE chips[b].blk_index[blk]
    BY <1>2, <1>8, <1>9 DEF Chip
  <1>11. \A b \in Banks, blk \in Fbgs, p \in Pages :
            new[b].cell[Ppn(blk, p)] =
               IF b = bank /\ blk = fbg /\ p = pg THEN page ELSE chips[b].cell[Ppn(blk, p)]
    <2> TAKE b \in Banks, blk \in Fbgs, p \in Pages
    <2>1. Ppn(blk, p) \in Ppns /\ Ppn(fbg, pg) \in Ppns
          /\ (Ppn(blk, p) = Ppn(fbg, pg) => blk = fbg /\ p = pg)
      BY <1>1, PpnFacts
    <2>2. CASE b = bank
      <3>1. w.cell[Ppn(blk, p)] = IF Ppn(blk, p) = Ppn(fbg, pg) THEN page ELSE old.cell[Ppn(blk, p)]
        BY <1>2, <1>8, <2>1 DEF Chip
      <3> QED BY <1>9, <2>1, <2>2, <3>1
    <2>3. CASE b # bank
      BY <1>9, <2>3
    <2> QED BY <2>2, <2>3
  <1>12. IsLog(new)
    <2> SUFFICES ASSUME NEW b \in Banks, NEW blk \in Fbgs, NEW p \in Pages
                 PROVE  new[b].cell[Ppn(blk, p)] # Erased <=> p < new[b].blk_index[blk]
      BY DEF IsLog
    <2>1. page # Erased
      BY ErasedIsNoPage DEF Page
    <2>2. chips[b].cell[Ppn(blk, p)] # Erased <=> p < chips[b].blk_index[blk]
      BY DEF IsLog
    <2>3. p \in Int /\ pg \in Int
      BY <1>2, Sizes DEF Pages
    <2>4. CASE b = bank /\ blk = fbg
      <3>1. new[b].blk_index[blk] = pg + 1 /\ (chips[b].cell[Ppn(blk, p)] # Erased <=> p < pg)
        BY <1>6, <1>10, <2>2, <2>4
      <3> QED BY <1>11, <2>1, <2>3, <2>4, <3>1
    <2>5. CASE ~(b = bank /\ blk = fbg)
      BY <1>10, <1>11, <2>2, <2>5
    <2> QED BY <2>4, <2>5
  <1>13. FirstWritten(new, fcg, fbg, J + 1)
    <2> SUFFICES ASSUME NEW b \in BanksOf(fcg), NEW p \in Pages
                 PROVE  p < new[b].blk_index[fbg] <=> PageNo(b, p) < J + 1
      BY DEF FirstWritten
    <2>1. p < chips[b].blk_index[fbg] <=> PageNo(b, p) < J
      BY DEF FirstWritten, fcg, J
    <2>2. p \in Int /\ PageNo(b, p) \in Nat /\ b \in Banks
      BY <1>3, <1>5, Sizes DEF Pages
    <2>3. PageNo(b, p) = J <=> b = bank /\ p = pg
      BY <1>1, <1>4
    <2>4. CASE b = bank
      BY <1>1, <1>2, <1>6, <1>10, <2>1, <2>2, <2>3, <2>4
    <2>5. CASE b # bank
      BY <1>1, <1>10, <2>1, <2>2, <2>3, <2>5
    <2> QED BY <2>4, <2>5
  <1> QED BY <1>1, <1>2, <1>9, <1>10, <1>11, <1>12, <1>13 DEF fcg, bank, pg, J, new, w, old

\* Two sectors of one page are in one place.
LEMMA SamePage ==
    ASSUME NEW zone \in Zones, NEW s \in Sectors, NEW t \in Sectors
    PROVE  s \div NSECT = t \div NSECT
             <=> lba_to_bank(zone, s) = lba_to_bank(zone, t) /\ lba_to_page(s) = lba_to_page(t)
  <1>1. \A x \in Sectors :
           /\ lba_to_bank(zone, x) \in BanksOf(zone_to_fcg(zone)) /\ lba_to_page(x) \in Pages
           /\ PageNo(lba_to_bank(zone, x), lba_to_page(x)) = x \div NSECT
           /\ x % NSECT \in 0 .. NSECT - 1
           /\ x = (x \div NSECT) * NSECT + (x % NSECT)
    BY SectorPlace
  <1>2. ASSUME s \div NSECT = t \div NSECT
        PROVE  lba_to_bank(zone, s) = lba_to_bank(zone, t) /\ lba_to_page(s) = lba_to_page(t)
    <2> DEFINE b == lba_to_bank(zone, s)
               p == lba_to_page(s)
    <2>1. b \in BanksOf(zone_to_fcg(zone)) /\ p \in Pages /\ t % NSECT \in 0 .. NSECT - 1
          /\ t = PageNo(b, p) * NSECT + (t % NSECT)
      BY <1>1, <1>2
    <2> HIDE DEF b, p
    <2>2. /\ lba_to_bank(zone, PageNo(b, p) * NSECT + (t % NSECT)) = b
          /\ lba_to_page(PageNo(b, p) * NSECT + (t % NSECT)) = p
      BY <2>1, PagePlace
    <2> QED BY <2>1, <2>2 DEF b, p
  <1> QED BY <1>1, <1>2

\* One more sector.
LEMMA PutStep ==
    ASSUME NEW c, NEW fbg, Working(c, fbg), c.wp # ZONE_SIZE, NEW word \in Data
    PROVE  /\ Working(Put(c, word), fbg)
           /\ Further(c, Put(c, word), fbg, 1)
           /\ Has(Put(c, word), fbg, c.wp) = word
  <1> DEFINE s == c.wp
             r == s % NSECT
             J == s \div NSECT
             next == [c EXCEPT !.buf[r] = word, !.wp = @ + 1]
             d == Put(c, word)
  <1>1. /\ c \in Calls /\ fbg \in Fbgs /\ c.zone \in Zones
        /\ c.state \in {"OPEN", "TLOPEN"}
        /\ c.state = "OPEN" => c.fbg = fbg
        /\ c.state = "TLOPEN" => c.log = fbg
        /\ c.nand \in [Banks -> Chip] /\ IsLog(c.nand)
        /\ c.cnt \in Int /\ c.buf \in [0 .. NSECT - 1 -> Data \cup {Zero}]
        /\ \A i \in 0 .. NSECT - 1 : i < r => c.buf[i] \in Data
    BY DEF Working, Calls
  <1>2. s \in Sectors
    BY <1>1, Sizes DEF Calls, Sectors
  <1>3. r \in 0 .. NSECT - 1 /\ J \in Nat /\ s = J * NSECT + r /\ s \in Nat
    BY <1>2, SectorPlace, Sizes DEF Sectors
  <1>4. /\ s + 1 \in 0 .. ZONE_SIZE /\ J * NSECT <= s /\ J * NSECT \in Nat
        /\ r # NSECT - 1 => (s + 1) \div NSECT = J /\ (s + 1) % NSECT = r + 1 /\ s + 1 # ZONE_SIZE
        /\ r = NSECT - 1 =>
             /\ (s + 1) \div NSECT = J + 1 /\ (s + 1) % NSECT = 0
             /\ s + 1 - NSECT = J * NSECT /\ J * NSECT \in Sectors /\ (J + 1) * NSECT = s + 1
    BY <1>2, NextSector
  <1>5. FirstWritten(c.nand, zone_to_fcg(c.zone), fbg, J)
    BY DEF Working
  <1> HIDE DEF s, r, J
  <1>6. /\ next \in Calls /\ next.zone = c.zone /\ next.nand = c.nand /\ next.cnt = c.cnt
        /\ next.fbg = c.fbg /\ next.log = c.log /\ next.state = c.state /\ next.wp = s + 1
        /\ next.buf = [c.buf EXCEPT ![r] = word]
    BY <1>1, <1>3, <1>4 DEF Calls, s
  <1>7. d = IF (s + 1) % NSECT = 0 THEN buffer_flush(next) ELSE next
    BY <1>6 DEF Put, s, r
  <1>8. /\ \A i \in 0 .. NSECT - 1 : i <= r => next.buf[i] \in Data
        /\ \A i \in 0 .. NSECT - 1 : i # r => next.buf[i] = c.buf[i]
        /\ next.buf[r] = word
    <2>1. \A i \in 0 .. NSECT - 1 : next.buf[i] = IF i = r THEN word ELSE c.buf[i]
      BY <1>1, <1>3, <1>6
    <2>2. \A i \in 0 .. NSECT - 1 : i <= r => i = r \/ i < r
      BY <1>3, Sizes
    <2> HIDE DEF next
    <2> QED BY <1>1, <1>3, <2>1, <2>2
  <1> HIDE DEF next
  <1>9. ASSUME NEW t \in Sectors
        PROVE  /\ t \in Nat /\ t \div NSECT \in Nat /\ t % NSECT \in 0 .. NSECT - 1
               /\ t = (t \div NSECT) * NSECT + (t % NSECT)
    BY SectorPlace, Sizes DEF Sectors
  <1>10. CASE r # NSECT - 1
    <2>1. d = next /\ (s + 1) \div NSECT = J /\ (s + 1) % NSECT = r + 1 /\ s + 1 # ZONE_SIZE
      BY <1>3, <1>4, <1>7, <1>10, Sizes
    <2>2. Working(next, fbg)
      <3>1. \A i \in 0 .. NSECT - 1 : i < r + 1 => i <= r
        BY <1>3
      <3> QED BY <1>1, <1>5, <1>6, <1>8, <2>1, <3>1 DEF Working
    <2>3. \A t \in Sectors : t < s => Has(next, fbg, t) = Has(c, fbg, t)
      <3> TAKE t \in Sectors
      <3> HAVE t < s
      <3>1. next.wp \div NSECT = J /\ c.wp \div NSECT = J /\ next.nand = c.nand /\ next.zone = c.zone
        BY <1>6, <2>1 DEF J, s
      <3>2. CASE t < J * NSECT
        BY <3>1, <3>2 DEF Has
      <3>3. CASE ~(t < J * NSECT)
        <4>1. t % NSECT # r
          <5> SUFFICES ASSUME t % NSECT = r PROVE FALSE
            OBVIOUS
          <5>1. t = (t \div NSECT) * NSECT + r /\ t \in Nat /\ t \div NSECT \in Nat
            BY <1>9
          <5>2. t \div NSECT = J
            <6>1. t < J * NSECT + NSECT /\ J * NSECT <= t
              BY <1>3, <1>4, <3>3, <5>1, Sizes
            <6> QED BY <1>3, <5>1, <6>1, InPage
          <5> QED BY <1>3, <5>1, <5>2
        <4> QED BY <1>8, <1>9, <3>1, <3>3, <4>1 DEF Has
      <3> QED BY <3>2, <3>3
    <2>4. Has(next, fbg, s) = word
      <3>1. next.wp \div NSECT = J /\ ~(s < J * NSECT)
        BY <1>3, <1>4, <1>6, <2>1
      <3> QED BY <1>8, <3>1 DEF Has, r
    <2>5. SameElsewhere(c.nand, next.nand, zone_to_fcg(c.zone), fbg)
      BY <1>6 DEF SameElsewhere
    <2>6. Further(c, next, fbg, 1)
      BY <1>6, <2>1, <2>3, <2>5 DEF Further, s
    <2> QED BY <2>1, <2>2, <2>4, <2>6 DEF s
  <1>11. CASE r = NSECT - 1
    <2> DEFINE at == J * NSECT
               bank == lba_to_bank(c.zone, at)
               pg == lba_to_page(at)
               chips == [c.nand EXCEPT ![bank] = NandWrite(c.nand[bank], fbg, pg, next.buf)]
    <2>1. /\ d = buffer_flush(next) /\ (s + 1) \div NSECT = J + 1 /\ (s + 1) % NSECT = 0
          /\ s + 1 - NSECT = at /\ at \in Sectors /\ (J + 1) * NSECT = s + 1
      BY <1>4, <1>7, <1>11
    <2>2. at \div NSECT = J
      <3>1. \A b \in Nat, q \in 0 .. NSECT - 1 : (b * NSECT + q) \div NSECT = b
        BY Sizes, DivMod
      <3>2. 0 \in 0 .. NSECT - 1 /\ J * NSECT + 0 = at
        BY <1>4, Sizes
      <3> QED BY <1>3, <3>1, <3>2
    <2>3. next.buf \in Page
      <3>1. \A i \in 0 .. NSECT - 1 : i <= r
        BY <1>11, Sizes
      <3>2. next.buf \in [0 .. NSECT - 1 -> Data \cup {Zero}]
        BY <1>6 DEF Calls
      <3> QED BY <1>8, <3>1, <3>2 DEF Page
    <2>4. /\ chips \in [Banks -> Chip] /\ IsLog(chips)
          /\ FirstWritten(chips, zone_to_fcg(c.zone), fbg, J + 1)
          /\ chips[bank].cell[Ppn(fbg, pg)] = next.buf
          /\ \A b \in Banks, blk \in Fbgs : ~(b = bank /\ blk = fbg) =>
                chips[b].blk_index[blk] = c.nand[b].blk_index[blk]
          /\ \A b \in Banks, blk \in Fbgs, p \in Pages : ~(b = bank /\ blk = fbg /\ p = pg) =>
                chips[b].cell[Ppn(blk, p)] = c.nand[b].cell[Ppn(blk, p)]
      <3>1. FirstWritten(c.nand, zone_to_fcg(c.zone), fbg, at \div NSECT)
        BY <1>5, <2>2
      <3> HIDE DEF at
      <3> QED BY <1>1, <2>1, <2>2, <2>3, <3>1, FlushFacts
    <2>5. bank \in BanksOf(zone_to_fcg(c.zone)) /\ bank \in Banks /\ pg \in Pages
      BY <1>1, <2>1, SectorPlace DEF BanksOf
    <2> DEFINE full == s + 1 = ZONE_SIZE
    <2>6. /\ d.zone = c.zone /\ d.nand = chips /\ d.buf = NoBuffer /\ d.fbg = c.fbg /\ d.log = c.log
          /\ d.wp = s + 1 /\ d.state = (IF full THEN "FULL" ELSE c.state)
          /\ d.cnt = (IF full THEN c.cnt - 1 ELSE c.cnt)
          /\ d \in Calls
      <3> DEFINE flushed == [next EXCEPT !.nand[bank] = NandWrite(@, fbg, pg, next.buf), !.buf = NoBuffer]
      <3>1. (IF next.state = "TLOPEN" THEN next.log ELSE next.fbg) = fbg
        BY <1>1, <1>6
      <3>2. d = Filled(flushed)
        <4> HIDE DEF at
        <4>1. next.wp - NSECT = at /\ next.zone = c.zone
          BY <1>3, <1>6, <2>1, Sizes
        <4>2. buffer_flush(next) =
                 Filled([next EXCEPT !.nand[lba_to_bank(next.zone, next.wp - NSECT)] =
                                        NandWrite(@, IF next.state = "TLOPEN" THEN next.log ELSE next.fbg,
                                                  lba_to_page(next.wp - NSECT), next.buf),
                                     !.buf = NoBuffer])
          BY DEF buffer_flush
        <4> QED BY <2>1, <3>1, <4>1, <4>2 DEF bank, pg
      <3>3. NoBuffer \in [0 .. NSECT - 1 -> Data \cup {Zero}]
        BY DEF NoBuffer
      <3>4. /\ flushed \in Calls /\ flushed.zone = c.zone /\ flushed.nand = chips
            /\ flushed.buf = NoBuffer /\ flushed.fbg = c.fbg /\ flushed.log = c.log
            /\ flushed.wp = s + 1 /\ flushed.state = c.state /\ flushed.cnt = c.cnt
        <4>1. flushed = [next EXCEPT !.nand = chips, !.buf = NoBuffer]
          BY <1>6 DEF Calls
        <4> HIDE DEF flushed, chips
        <4> QED BY <1>6, <2>4, <3>3, <4>1 DEF Calls
      <3> HIDE DEF flushed, chips, d
      <3>5. CASE full
        <4>1. d = [flushed EXCEPT !.state = "FULL", !.cnt = @ - 1]
          BY <3>2, <3>4, <3>5 DEF Filled
        <4>2. "FULL" \in States
          BY DEF States
        <4>3. /\ d.zone = flushed.zone /\ d.nand = flushed.nand /\ d.buf = flushed.buf
              /\ d.fbg = flushed.fbg /\ d.log = flushed.log /\ d.wp = flushed.wp
              /\ d.state = "FULL" /\ d.cnt = flushed.cnt - 1
          BY <3>4, <4>1 DEF Calls
        <4>4. d \in Calls
          <5>1. \A f \in Calls, x \in States, n \in Int : [f EXCEPT !.state = x, !.cnt = n] \in Calls
            BY DEF Calls
          <5>2. flushed.cnt - 1 \in Int
            BY <3>4 DEF Calls
          <5>3. d = [flushed EXCEPT !.state = "FULL", !.cnt = flushed.cnt - 1]
            BY <4>1
          <5> QED BY <3>4, <4>2, <5>1, <5>2, <5>3
        <4> QED BY <3>4, <3>5, <4>3, <4>4
      <3>6. CASE ~full
        <4>1. d = flushed
          BY <3>2, <3>4, <3>6 DEF Filled
        <4> QED BY <3>4, <3>6, <4>1
      <3> QED BY <3>5, <3>6
    <2> HIDE DEF d, chips, bank, pg, at
    <2>7. Working(d, fbg)
      <3>1. \A i \in 0 .. NSECT - 1 : ~(i < d.wp % NSECT)
        BY <2>1, <2>6
      <3>2. d.wp \div NSECT = J + 1
        BY <2>1, <2>6
      <3> QED BY <1>1, <2>4, <2>6, <3>1, <3>2 DEF Working
    <2>8. SameElsewhere(c.nand, d.nand, zone_to_fcg(c.zone), fbg)
      BY <2>4, <2>5, <2>6 DEF SameElsewhere
    <2>9. ASSUME NEW t \in Sectors, t <= s
          PROVE  Has(d, fbg, t) = d.nand[lba_to_bank(c.zone, t)].cell[Ppn(fbg, lba_to_page(t))][t % NSECT]
      <3>1. d.wp \div NSECT = J + 1 /\ t < (J + 1) * NSECT
        BY <1>3, <1>9, <2>1, <2>6, <2>9
      <3> QED BY <2>6, <3>1 DEF Has
    <2>10. ASSUME NEW t \in Sectors, t \div NSECT = J, t <= s
           PROVE  Has(d, fbg, t) = next.buf[t % NSECT]
      <3>1. lba_to_bank(c.zone, t) = bank /\ lba_to_page(t) = pg
        BY <1>1, <2>1, <2>2, <2>10, SamePage DEF bank, pg
      <3> QED BY <2>4, <2>6, <2>9, <2>10, <3>1
    <2>11. Has(d, fbg, s) = word
      BY <1>2, <1>3, <1>8, <2>10 DEF J, r
    <2>12. \A t \in Sectors : t < s => Has(d, fbg, t) = Has(c, fbg, t)
      <3> TAKE t \in Sectors
      <3> HAVE t < s
      <3>0. t <= s /\ c.wp \div NSECT = J
        BY <1>3, <1>9 DEF J, s
      <3>1. CASE t \div NSECT = J
        <4>1. ~(t < J * NSECT)
          BY <1>3, <1>4, <1>9, <3>1
        <4>2. t % NSECT # r
          BY <1>3, <1>9, <3>1
        <4>3. Has(c, fbg, t) = c.buf[t % NSECT]
          BY <3>0, <4>1 DEF Has
        <4> QED BY <1>8, <1>9, <2>10, <3>0, <3>1, <4>2, <4>3
      <3>2. CASE t \div NSECT # J
        <4>1. t < J * NSECT
          <5> SUFFICES ASSUME ~(t < J * NSECT) PROVE FALSE
            OBVIOUS
          <5>1. t < J * NSECT + NSECT /\ J * NSECT <= t /\ t \in Nat
            BY <1>3, <1>4, <1>9, Sizes
          <5> QED BY <1>3, <3>2, <5>1, InPage
        <4>2. ~(lba_to_bank(c.zone, t) = bank /\ lba_to_page(t) = pg)
          BY <1>1, <2>1, <2>2, <3>2, SamePage DEF bank, pg
        <4>3. lba_to_bank(c.zone, t) \in Banks /\ lba_to_page(t) \in Pages
          BY <1>1, SectorPlace DEF BanksOf
        <4> QED BY <1>1, <2>4, <2>6, <2>9, <3>0, <4>1, <4>2, <4>3 DEF Has
      <3> QED BY <3>1, <3>2
    <2>13. Further(c, d, fbg, 1)
      BY <2>6, <2>8, <2>12 DEF Further, s
    <2> QED BY <2>7, <2>11, <2>13 DEF s, d
  <1> QED BY <1>10, <1>11

\* More sectors, and then more again.
LEMMA FurtherTwice ==
    ASSUME NEW c, NEW d, NEW e, NEW fbg, NEW m \in Nat, NEW n \in Nat,
           Working(c, fbg), Working(d, fbg), Working(e, fbg),
           Further(c, d, fbg, m), Further(d, e, fbg, n)
    PROVE  Further(c, e, fbg, m + n)
  <1>1. /\ c.wp \in Nat /\ d.wp \in Nat /\ e.wp \in Nat /\ c.cnt \in Int /\ d.cnt \in Int /\ ZONE_SIZE \in Nat
        /\ c.wp <= ZONE_SIZE /\ d.wp <= ZONE_SIZE /\ e.wp <= ZONE_SIZE
    BY Sizes DEF Working, Calls
  <1>2. /\ d.zone = c.zone /\ d.fbg = c.fbg /\ d.log = c.log /\ d.wp = c.wp + m
        /\ e.zone = d.zone /\ e.fbg = d.fbg /\ e.log = d.log /\ e.wp = d.wp + n
        /\ d.state = IF d.wp = ZONE_SIZE THEN "FULL" ELSE c.state
        /\ e.state = IF e.wp = ZONE_SIZE THEN "FULL" ELSE d.state
        /\ d.cnt = IF d.wp = ZONE_SIZE /\ c.wp # ZONE_SIZE THEN c.cnt - 1 ELSE c.cnt
        /\ e.cnt = IF e.wp = ZONE_SIZE /\ d.wp # ZONE_SIZE THEN d.cnt - 1 ELSE d.cnt
    BY DEF Further
  <1>3. e.wp = c.wp + (m + n) /\ c.wp <= d.wp
    BY <1>1, <1>2
  <1>4. d.wp = ZONE_SIZE => e.wp = ZONE_SIZE
    BY <1>1, <1>2
  <1>5. c.wp = ZONE_SIZE => d.wp = ZONE_SIZE
    BY <1>1, <1>2
  <1>6. e.state = IF e.wp = ZONE_SIZE THEN "FULL" ELSE c.state
    BY <1>2, <1>4
  <1>7. e.cnt = IF e.wp = ZONE_SIZE /\ c.wp # ZONE_SIZE THEN c.cnt - 1 ELSE c.cnt
    BY <1>2, <1>4, <1>5
  <1>8. SameElsewhere(c.nand, e.nand, zone_to_fcg(c.zone), fbg)
    BY <1>2 DEF Further, SameElsewhere
  <1>9. \A s \in Sectors : s < c.wp => Has(e, fbg, s) = Has(c, fbg, s)
    <2> TAKE s \in Sectors
    <2> HAVE s < c.wp
    <2>1. s < d.wp
      BY <1>1, <1>3, Sizes DEF Sectors
    <2> QED BY <2>1 DEF Further
  <1> QED BY <1>2, <1>3, <1>6, <1>7, <1>8, <1>9 DEF Further

\* All sectors of a call.
LEMMA PutAllFacts ==
    ASSUME NEW c, NEW fbg, Working(c, fbg), NEW words \in Seq(Data),
           c.wp + Len(words) <= ZONE_SIZE
    PROVE  /\ Working(PutAll(c, words), fbg)
           /\ Further(c, PutAll(c, words), fbg, Len(words))
           /\ \A i \in 1 .. Len(words) : Has(PutAll(c, words), fbg, c.wp + i - 1) = words[i]
  <1> DEFINE n == Len(words)
             done(d, k) == /\ Working(d, fbg) /\ Further(c, d, fbg, k)
                           /\ \A i \in 1 .. k : Has(d, fbg, c.wp + i - 1) = words[i]
             good == [k \in 0 .. n |-> {d \in Calls : done(d, k)}]
             IsPut(f) == f = [i \in 0 .. n |-> IF i = 0 THEN c ELSE Put(f[i - 1], words[i])]
             put == CHOOSE f : IsPut(f)
  <1>1. n \in Nat /\ c.wp \in Nat /\ c.wp + n <= ZONE_SIZE /\ ZONE_SIZE \in Nat
        /\ \A i \in 1 .. n : words[i] \in Data
    BY Sizes DEF Working, Calls
  <1>2. done(c, 0)
    BY <1>1 DEF Further, SameElsewhere, Working
  <1>3. ASSUME NEW k \in 1 .. n, NEW d, done(d, k - 1) PROVE done(Put(d, words[k]), k)
    <2> DEFINE e == Put(d, words[k])
    <2>1. /\ d.wp = c.wp + (k - 1) /\ k - 1 \in Nat /\ d.wp # ZONE_SIZE /\ d.wp \in Nat
      BY <1>1, <1>3 DEF Further
    <2>2. Working(e, fbg) /\ Further(d, e, fbg, 1) /\ Has(e, fbg, d.wp) = words[k]
      BY <1>1, <1>3, <2>1, PutStep
    <2> HIDE DEF e
    <2>3. Further(c, e, fbg, k)
      <3>1. Further(c, e, fbg, (k - 1) + 1)
        BY <1>3, <2>1, <2>2, FurtherTwice
      <3>2. (k - 1) + 1 = k
        BY <1>1
      <3> QED BY <3>1, <3>2
    <2>4. ASSUME NEW i \in 1 .. k PROVE Has(e, fbg, c.wp + i - 1) = words[i]
      <3>1. CASE i = k
        <4>1. c.wp + i - 1 = d.wp
          BY <1>1, <2>1, <3>1
        <4> QED BY <2>2, <3>1, <4>1
      <3>2. CASE i # k
        <4>1. i \in 1 .. k - 1 /\ c.wp + i - 1 \in Sectors /\ c.wp + i - 1 < d.wp
          BY <1>1, <2>1, <3>2 DEF Sectors
        <4> QED BY <1>3, <2>2, <4>1 DEF Further
      <3> QED BY <3>1, <3>2
    <2> QED BY <2>2, <2>3, <2>4 DEF e
  <1>4. \A d, k : done(d, k) => d \in Calls
    BY DEF Working
  <1> HIDE DEF done
  <1>5. \E f : IsPut(f)
    <2> DEFINE round == [k \in 1 .. n |-> [d \in Calls |-> IF done(d, k - 1) THEN Put(d, words[k]) ELSE d]]
    <2>1. \A k \in 1 .. n, d \in Calls : (IF done(d, k - 1) THEN Put(d, words[k]) ELSE d) \in Calls
      BY <1>3, <1>4
    <2>2. round \in [1 .. n -> [Calls -> Calls]]
      BY <2>1
    <2>3. good \in [0 .. n -> SUBSET Calls] /\ c \in good[0]
      BY <1>1, <1>2, <1>4
    <2>4. \A k \in 1 .. n : \A d \in good[k - 1] : round[k][d] \in good[k] /\ round[k][d] = Put(d, words[k])
      <3> TAKE k \in 1 .. n
      <3>1. k - 1 \in 0 .. n /\ k \in 0 .. n
        BY <1>1
      <3> TAKE d \in good[k - 1]
      <3>2. d \in Calls /\ done(d, k - 1)
        BY <3>1
      <3>3. done(Put(d, words[k]), k)
        BY <1>3, <3>2
      <3> QED BY <1>4, <3>1, <3>2, <3>3
    <2> HIDE DEF round, good
    <2>5. PICK f \in [0 .. n -> Calls] : IsLoop(f, n, c, round) /\ \A i \in 0 .. n : f[i] \in good[i]
      <3>1. n \in Nat
        BY <1>1
      <3>2. \A k \in 1 .. n : \A d \in good[k - 1] : round[k][d] \in good[k]
        BY <2>4
      <3> HIDE DEF n
      <3> QED BY <2>2, <2>3, <3>1, <3>2, LoopResult
    <2>6. \A i \in 0 .. n : f[i] = IF i = 0 THEN c ELSE Put(f[i - 1], words[i])
      <3> TAKE i \in 0 .. n
      <3>1. CASE i = 0
        BY <2>5, <3>1 DEF IsLoop
      <3>2. CASE i # 0
        <4>1. i \in 1 .. n /\ i - 1 \in 0 .. n
          BY <1>1, <3>2
        <4> QED BY <2>4, <2>5, <3>2, <4>1 DEF IsLoop
      <3> QED BY <3>1, <3>2
    <2>7. IsPut(f)
      BY <2>5, <2>6
    <2> QED BY <2>7
  <1>6. IsPut(put)
    BY <1>5
  <1>7. PutAll(c, words) = put[n]
    BY DEF PutAll
  <1> HIDE DEF put
  <1>8. put[0] = c /\ \A k \in 1 .. n : put[k] = Put(put[k - 1], words[k])
    BY <1>1, <1>6
  <1> DEFINE able == {k \in 0 .. n : done(put[k], k)}
  <1>9. 0 \in able
    BY <1>1, <1>2, <1>8
  <1>10. \A k \in 1 .. n : k - 1 \in able => k \in able
    BY <1>1, <1>3, <1>8
  <1> HIDE DEF able
  <1>11. \A k \in 0 .. n : k \in able
    BY <1>1, <1>9, <1>10, Rounds
  <1>12. done(put[n], n)
    BY <1>1, <1>11 DEF able
  <1> QED BY <1>7, <1>12 DEF done

-----------------------------------------------------------------------------
\* Block groups that a call does not touch, and those that are erased.
LEMMA BanksApart ==
    ASSUME NEW f, NEW g, NEW bank \in BanksOf(f), bank \in BanksOf(g)
    PROVE  f = g
  BY DEF BanksOf

\* What is written of other block groups does not change.
LEMMA FirstKept ==
    ASSUME NEW old, NEW new, NEW fcg, NEW fbg, SameElsewhere(old, new, fcg, fbg),
           NEW f, NEW g \in Fbgs, ~(f = fcg /\ g = fbg), NEW pages
    PROVE  FirstWritten(new, f, g, pages) <=> FirstWritten(old, f, g, pages)
  <1>1. \A bank \in BanksOf(f) : new[bank].blk_index[g] = old[bank].blk_index[g]
    <2> TAKE bank \in BanksOf(f)
    <2>1. bank \in Banks /\ ~(bank \in BanksOf(fcg) /\ g = fbg)
      BY BanksApart DEF BanksOf
    <2> QED BY <2>1 DEF SameElsewhere
  <1> QED BY <1>1 DEF FirstWritten

\* Two steps of a call touch the same block group.
LEMMA SameTwice ==
    ASSUME NEW a, NEW b, NEW c, NEW fcg, NEW fbg,
           SameElsewhere(a, b, fcg, fbg), SameElsewhere(b, c, fcg, fbg)
    PROVE  SameElsewhere(a, c, fcg, fbg)
  BY DEF SameElsewhere

\* A block group that is erased, or none.
LEMMA EraseFacts ==
    ASSUME NEW chips \in [Banks -> Chip], IsLog(chips), NEW fcg \in Fcgs, NEW fbg \in Fbgs \cup {-1}
    PROVE  LET new == ErasedIn(chips, fcg, fbg) IN
           /\ new \in [Banks -> Chip] /\ IsLog(new)
           /\ fbg \in Fbgs => FirstWritten(new, fcg, fbg, 0)
           /\ SameElsewhere(chips, new, fcg, fbg)
  <1> DEFINE new == ErasedIn(chips, fcg, fbg)
  <1>1. ASSUME NEW bank \in Banks
        PROVE  /\ new[bank] \in Chip
               /\ \A blk \in Fbgs : new[bank].blk_index[blk] =
                     IF bank \in BanksOf(fcg) /\ blk = fbg THEN 0 ELSE chips[bank].blk_index[blk]
               /\ \A blk \in Fbgs, page \in Pages : new[bank].cell[Ppn(blk, page)] =
                     IF bank \in BanksOf(fcg) /\ blk = fbg THEN Erased ELSE chips[bank].cell[Ppn(blk, page)]
    <2> DEFINE old == chips[bank]
    <2>1. old \in Chip
      OBVIOUS
    <2>2. new[bank] = IF bank \in BanksOf(fcg) THEN NandErase(old, fbg) ELSE old
      BY DEF ErasedIn
    <2> HIDE DEF new, old
    <2>3. CASE bank \notin BanksOf(fcg)
      BY <2>1, <2>2, <2>3 DEF old
    <2>4. CASE fbg = -1
      <3>1. NandErase(old, fbg) = old /\ fbg \notin Fbgs
        BY <2>4, Sizes DEF NandErase, EraseCode, Blks, Fbgs
      <3> QED BY <2>1, <2>2, <3>1 DEF old
    <2>5. CASE bank \in BanksOf(fcg) /\ fbg \in Fbgs /\ old.blk_index[fbg] = 0
      <3>1. NandErase(old, fbg) = old
        BY <2>5 DEF NandErase, EraseCode
      <3>2. ASSUME NEW page \in Pages PROVE old.cell[Ppn(fbg, page)] = Erased
        <4>1. ~(page < 0)
          BY Sizes DEF Pages
        <4> QED BY <2>5, <4>1 DEF IsLog, old
      <3> QED BY <2>1, <2>2, <2>5, <3>1, <3>2 DEF old
    <2>6. CASE bank \in BanksOf(fcg) /\ fbg \in Fbgs /\ old.blk_index[fbg] # 0
      <3>1. new[bank] = [cell |-> [ppn \in Ppns |-> IF BlkOf(ppn) = fbg THEN Erased ELSE old.cell[ppn]],
                         blk_index |-> [old.blk_index EXCEPT ![fbg] = 0]]
        BY <2>2, <2>6 DEF NandErase, EraseCode, Blks, Fbgs
      <3>2. new[bank] \in Chip
        <4>1. old.cell \in [Ppns -> Page \cup {Erased}] /\ old.blk_index \in [Fbgs -> 0 .. NPAGE] /\ 0 \in 0 .. NPAGE
          BY <2>1, Sizes DEF Chip
        <4>2. [ppn \in Ppns |-> IF BlkOf(ppn) = fbg THEN Erased ELSE old.cell[ppn]] \in [Ppns -> Page \cup {Erased}]
          BY <4>1
        <4>3. [old.blk_index EXCEPT ![fbg] = 0] \in [Fbgs -> 0 .. NPAGE]
          BY <4>1
        <4> QED BY <3>1, <4>2, <4>3 DEF Chip
      <3>3. \A blk \in Fbgs, page \in Pages : Ppn(blk, page) \in Ppns /\ BlkOf(Ppn(blk, page)) = blk
        BY PpnFacts
      <3>4. \A blk \in Fbgs, page \in Pages :
               new[bank].cell[Ppn(blk, page)] = IF blk = fbg THEN Erased ELSE old.cell[Ppn(blk, page)]
        BY <3>1, <3>3
      <3>5. \A blk \in Fbgs : new[bank].blk_index[blk] = IF blk = fbg THEN 0 ELSE old.blk_index[blk]
        BY <2>1, <3>1 DEF Chip
      <3> QED BY <2>6, <3>2, <3>4, <3>5 DEF old
    <2> QED BY <2>3, <2>4, <2>5, <2>6
  <1>2. new \in [Banks -> Chip]
    BY <1>1 DEF ErasedIn
  <1> HIDE DEF new
  <1>3. IsLog(new)
    <2> SUFFICES ASSUME NEW bank \in Banks, NEW blk \in Fbgs, NEW page \in Pages
                 PROVE  new[bank].cell[Ppn(blk, page)] # Erased <=> page < new[bank].blk_index[blk]
      BY DEF IsLog
    <2>1. ~(page < 0)
      BY Sizes DEF Pages
    <2> QED BY <1>1, <2>1 DEF IsLog
  <1>4. fbg \in Fbgs => FirstWritten(new, fcg, fbg, 0)
    <2> SUFFICES ASSUME fbg \in Fbgs, NEW bank \in BanksOf(fcg), NEW page \in Pages
                 PROVE  page < new[bank].blk_index[fbg] <=> PageNo(bank, page) < 0
      BY DEF FirstWritten
    <2>1. bank \in Banks /\ new[bank].blk_index[fbg] = 0
      BY <1>1 DEF BanksOf
    <2>2. page \in Nat /\ bank \in Nat
      BY <2>1, Sizes DEF Pages, Banks
    <2>3. page * DEG_ZONE \in Nat /\ bank % DEG_ZONE \in Nat
      BY <2>2, Sizes, DivMod
    <2> QED BY <2>1, <2>2, <2>3 DEF PageNo
  <1>5. SameElsewhere(chips, new, fcg, fbg)
    BY <1>1 DEF SameElsewhere
  <1> QED BY <1>2, <1>3, <1>4, <1>5 DEF new

-----------------------------------------------------------------------------
\* Who has a block group: the queue of its channel group, or a zone, as its
\* data or as its log.
Holders  == Zones \X {"data", "log"}
FcgOf(h) == zone_to_fcg(h[1])

Owned(queues, held) ==
    /\ queues \in [Fcgs -> Seq(Fbgs)] /\ held \in [Holders -> Fbgs \cup {-1}]
    /\ \A fcg \in Fcgs : \A i, j \in 1 .. Len(queues[fcg]) : queues[fcg][i] = queues[fcg][j] => i = j
    /\ \A h \in Holders : \A i \in 1 .. Len(queues[FcgOf(h)]) : queues[FcgOf(h)][i] # held[h]
    /\ \A h, k \in Holders : FcgOf(h) = FcgOf(k) /\ held[h] = held[k] /\ held[h] # -1 => h = k
    /\ \A fcg \in Fcgs, fbg \in Fbgs :
          \/ \E i \in 1 .. Len(queues[fcg]) : queues[fcg][i] = fbg
          \/ \E h \in Holders : FcgOf(h) = fcg /\ held[h] = fbg

LEMMA HolderType == \A h \in Holders : h[1] \in Zones /\ FcgOf(h) \in Fcgs
  <1>1. \A z \in Zones : z % NUM_FCG \in 0 .. NUM_FCG - 1
    BY Sizes, DivMod DEF Zones
  <1> QED BY <1>1 DEF Holders, FcgOf, zone_to_fcg, Fcgs

\* A holder takes the first free block group.
LEMMA Taken ==
    ASSUME NEW queues, NEW held, Owned(queues, held), NEW h \in Holders, held[h] = -1,
           queues[FcgOf(h)] # <<>>
    PROVE  /\ Head(queues[FcgOf(h)]) \in Fbgs
           /\ Owned([queues EXCEPT ![FcgOf(h)] = Tail(@)], [held EXCEPT ![h] = Head(queues[FcgOf(h)])])
  <1> DEFINE f  == FcgOf(h)
             q  == queues[f]
             g  == Head(q)
             Q  == [queues EXCEPT ![f] = Tail(q)]
             B  == [held EXCEPT ![h] = g]
  <1>1. f \in Fcgs /\ \A k \in Holders : FcgOf(k) \in Fcgs
    BY HolderType
  <1>2. /\ queues \in [Fcgs -> Seq(Fbgs)] /\ held \in [Holders -> Fbgs \cup {-1}] /\ q \in Seq(Fbgs)
    BY <1>1 DEF Owned
  <1>3. /\ Len(q) \in Nat /\ Len(q) >= 1 /\ g = q[1] /\ g \in Fbgs
        /\ Tail(q) \in Seq(Fbgs) /\ Len(Tail(q)) = Len(q) - 1
        /\ \A i \in 1 .. Len(q) - 1 : Tail(q)[i] = q[i + 1]
    BY <1>2
  <1>4. /\ Q \in [Fcgs -> Seq(Fbgs)] /\ B \in [Holders -> Fbgs \cup {-1}]
        /\ Q[f] = Tail(q) /\ \A x \in Fcgs : x # f => Q[x] = queues[x]
        /\ B[h] = g /\ \A k \in Holders : k # h => B[k] = held[k]
    BY <1>1, <1>2, <1>3
  <1>5. /\ \A i, j \in 1 .. Len(q) : q[i] = q[j] => i = j
        /\ \A k \in Holders : FcgOf(k) = f => \A i \in 1 .. Len(q) : q[i] # held[k]
    BY <1>1 DEF Owned
  <1> HIDE DEF f, q, g, Q, B
  <1>6. ASSUME NEW x \in Fcgs, NEW i \in 1 .. Len(Q[x]), NEW j \in 1 .. Len(Q[x]), Q[x][i] = Q[x][j]
        PROVE  i = j
    <2>1. CASE x = f
      <3>0. i \in 1 .. Len(q) - 1 /\ j \in 1 .. Len(q) - 1 /\ Tail(q)[i] = Tail(q)[j]
        BY <1>3, <1>4, <1>6, <2>1
      <3>1. i + 1 \in 1 .. Len(q) /\ j + 1 \in 1 .. Len(q) /\ q[i + 1] = q[j + 1]
        BY <1>3, <3>0
      <3>2. i + 1 = j + 1
        BY <1>5, <3>1
      <3> QED BY <3>2
    <2>2. CASE x # f
      BY <1>4, <1>6, <2>2 DEF Owned
    <2> QED BY <2>1, <2>2
  <1>7. ASSUME NEW k \in Holders, NEW i \in 1 .. Len(Q[FcgOf(k)]) PROVE Q[FcgOf(k)][i] # B[k]
    <2>1. CASE FcgOf(k) = f
      <3>1. i + 1 \in 1 .. Len(q) /\ Q[FcgOf(k)][i] = q[i + 1] /\ 1 \in 1 .. Len(q) /\ i + 1 # 1
        BY <1>3, <1>4, <1>7, <2>1
      <3>2. CASE k = h
        BY <1>3, <1>4, <1>5, <3>1, <3>2
      <3>3. CASE k # h
        BY <1>4, <1>5, <2>1, <3>1, <3>3
      <3> QED BY <3>2, <3>3
    <2>2. CASE FcgOf(k) # f
      <3>1. k # h
        BY <2>2 DEF f
      <3> QED BY <1>1, <1>4, <1>7, <2>2, <3>1 DEF Owned
    <2> QED BY <2>1, <2>2
  <1>8. ASSUME NEW j \in Holders, NEW k \in Holders, FcgOf(j) = FcgOf(k), B[j] = B[k], B[j] # -1
        PROVE  j = k
    <2>1. \A x \in Holders : x # h /\ FcgOf(x) = f => held[x] # g
      BY <1>3, <1>5
    <2> QED BY <1>4, <1>8, <2>1 DEF Owned, f
  <1>9. ASSUME NEW x \in Fcgs, NEW y \in Fbgs
        PROVE  \/ \E i \in 1 .. Len(Q[x]) : Q[x][i] = y
               \/ \E k \in Holders : FcgOf(k) = x /\ B[k] = y
    <2>1. CASE \E k \in Holders : FcgOf(k) = x /\ held[k] = y
      <3>1. PICK k \in Holders : FcgOf(k) = x /\ held[k] = y
        BY <2>1
      <3>2. k # h
        BY <3>1, Sizes DEF Fbgs
      <3> QED BY <1>4, <3>1, <3>2
    <2>2. CASE \E i \in 1 .. Len(queues[x]) : queues[x][i] = y
      <3>1. PICK i \in 1 .. Len(queues[x]) : queues[x][i] = y
        BY <2>2
      <3>2. CASE x # f
        BY <1>4, <3>1, <3>2
      <3>3. CASE x = f /\ i = 1
        BY <1>3, <1>4, <3>1, <3>3 DEF f, q
      <3>4. CASE x = f /\ i # 1
        <4>1. i - 1 \in 1 .. Len(q) - 1 /\ (i - 1) + 1 = i
          BY <1>3, <3>1, <3>4 DEF q
        <4>2. Q[x][i - 1] = y
          BY <1>3, <1>4, <3>1, <3>4, <4>1 DEF q
        <4> QED BY <1>3, <1>4, <3>4, <4>1, <4>2
      <3> QED BY <3>2, <3>3, <3>4
    <2> QED BY <2>1, <2>2 DEF Owned
  <1>10. Owned(Q, B)
    BY <1>4, <1>6, <1>7, <1>8, <1>9 DEF Owned
  <1> QED BY <1>3, <1>10 DEF Q, B, g, q, f

\* A queue has room for what it does not hold.
LEMMA Room ==
    ASSUME NEW queues, NEW held, Owned(queues, held), NEW h \in Holders, held[h] # -1
    PROVE  Len(queues[FcgOf(h)]) < NBLK
  <1> DEFINE q == queues[FcgOf(h)]
             T == Fbgs \ {held[h]}
  <1>1. FcgOf(h) \in Fcgs /\ held[h] \in Fbgs /\ q \in Seq(Fbgs)
    BY HolderType DEF Owned
  <1>2. IsFiniteSet(Fbgs) /\ Cardinality(Fbgs) = NBLK
    BY Sizes, FS_Interval DEF Fbgs
  <1>3. IsFiniteSet(T) /\ Cardinality(T) = NBLK - 1
    BY <1>1, <1>2, FS_RemoveElement
  <1>4. q \in Injection(1 .. Len(q), T)
    <2>1. q \in [1 .. Len(q) -> T]
      BY <1>1 DEF Owned
    <2>2. \A i, j \in 1 .. Len(q) : q[i] = q[j] => i = j
      BY <1>1 DEF Owned
    <2> QED BY <2>1, <2>2 DEF Injection, IsInjective
  <1>5. Cardinality(1 .. Len(q)) <= NBLK - 1
    BY <1>3, <1>4, FS_Injection
  <1>6. Len(q) \in Nat /\ Cardinality(1 .. Len(q)) = Len(q)
    <2>1. Len(q) \in Nat
      BY <1>1
    <2> HIDE DEF q
    <2>2. Cardinality(1 .. Len(q)) = IF 1 > Len(q) THEN 0 ELSE Len(q) - 1 + 1
      BY <2>1, FS_Interval, SMTT(30)
    <2> QED BY <2>1, <2>2
  <1> QED BY <1>5, <1>6, Sizes

\* A holder gives its block group back.
LEMMA Given ==
    ASSUME NEW queues, NEW held, Owned(queues, held), NEW h \in Holders, held[h] # -1
    PROVE  Owned([queues EXCEPT ![FcgOf(h)] = Pushed(@, held[h])], [held EXCEPT ![h] = -1])
  <1> DEFINE f == FcgOf(h)
             q == queues[f]
             g == held[h]
             a == Append(q, g)
             Q == [queues EXCEPT ![f] = a]
             B == [held EXCEPT ![h] = -1]
  <1>1. f \in Fcgs /\ \A k \in Holders : FcgOf(k) \in Fcgs
    BY HolderType
  <1>2. /\ queues \in [Fcgs -> Seq(Fbgs)] /\ held \in [Holders -> Fbgs \cup {-1}] /\ q \in Seq(Fbgs) /\ g \in Fbgs
    BY <1>1 DEF Owned
  <1>3. Pushed(q, g) = a
    BY <1>2, Room, Sizes DEF Pushed
  <1>4. /\ Len(q) \in Nat /\ a \in Seq(Fbgs) /\ Len(a) = Len(q) + 1 /\ a[Len(q) + 1] = g
        /\ \A i \in 1 .. Len(q) : a[i] = q[i]
    BY <1>2
  <1>5. /\ Q \in [Fcgs -> Seq(Fbgs)] /\ B \in [Holders -> Fbgs \cup {-1}]
        /\ Q[f] = a /\ \A x \in Fcgs : x # f => Q[x] = queues[x]
        /\ B[h] = -1 /\ \A k \in Holders : k # h => B[k] = held[k]
    BY <1>1, <1>2, <1>4
  <1>6. /\ \A i, j \in 1 .. Len(q) : q[i] = q[j] => i = j
        /\ \A k \in Holders : FcgOf(k) = f => \A i \in 1 .. Len(q) : q[i] # held[k]
        /\ \A i \in 1 .. Len(q) : q[i] # g
    BY <1>1 DEF Owned
  <1>7. -1 \notin Fbgs
    BY Sizes DEF Fbgs
  <1>8. \A k \in Holders : FcgOf(k) = f /\ k # h => held[k] # g
    BY DEF Owned
  <1> HIDE DEF f, q, g, a, Q, B
  <1>9. \A i \in 1 .. Len(q) + 1 : i \in 1 .. Len(q) \/ i = Len(q) + 1
    BY <1>4
  <1>10. ASSUME NEW x \in Fcgs, NEW i \in 1 .. Len(Q[x]), NEW j \in 1 .. Len(Q[x]), Q[x][i] = Q[x][j]
         PROVE  i = j
    <2>1. CASE x = f
      BY <1>4, <1>5, <1>6, <1>9, <1>10, <2>1
    <2>2. CASE x # f
      BY <1>5, <1>10, <2>2 DEF Owned
    <2> QED BY <2>1, <2>2
  <1>11. ASSUME NEW k \in Holders, NEW i \in 1 .. Len(Q[FcgOf(k)]) PROVE Q[FcgOf(k)][i] # B[k]
    <2>1. CASE k = h
      <3>1. Q[FcgOf(k)][i] \in Fbgs
        BY <1>1, <1>5
      <3> QED BY <1>5, <1>7, <2>1, <3>1
    <2>2. CASE k # h /\ FcgOf(k) = f
      <3>1. i \in 1 .. Len(q) + 1 /\ B[k] = held[k] /\ Q[FcgOf(k)] = a
        BY <1>4, <1>5, <1>11, <2>2
      <3>2. CASE i \in 1 .. Len(q)
        BY <1>4, <1>6, <2>2, <3>1, <3>2
      <3>3. CASE i = Len(q) + 1
        BY <1>4, <1>8, <2>2, <3>1, <3>3
      <3> QED BY <1>9, <3>1, <3>2, <3>3
    <2>3. CASE k # h /\ FcgOf(k) # f
      BY <1>1, <1>5, <1>11, <2>3 DEF Owned
    <2> QED BY <2>1, <2>2, <2>3
  <1>12. ASSUME NEW j \in Holders, NEW k \in Holders, FcgOf(j) = FcgOf(k), B[j] = B[k], B[j] # -1
         PROVE  j = k
    <2>1. j # h /\ k # h
      BY <1>5, <1>12
    <2>2. held[j] = held[k] /\ held[j] # -1
      BY <1>5, <1>12, <2>1
    <2> QED BY <1>12, <2>2 DEF Owned
  <1>13. ASSUME NEW x \in Fcgs, NEW y \in Fbgs
         PROVE  \/ \E i \in 1 .. Len(Q[x]) : Q[x][i] = y
                \/ \E k \in Holders : FcgOf(k) = x /\ B[k] = y
    <2>1. CASE \E k \in Holders : FcgOf(k) = x /\ held[k] = y
      <3>1. PICK k \in Holders : FcgOf(k) = x /\ held[k] = y
        BY <2>1
      <3>2. CASE k # h
        BY <1>5, <3>1, <3>2
      <3>3. CASE k = h
        <4>1. x = f /\ y = g /\ Len(q) + 1 \in 1 .. Len(q) + 1
          BY <1>4, <3>1, <3>3 DEF f, g
        <4> QED BY <1>4, <1>5, <4>1
      <3> QED BY <3>2, <3>3
    <2>2. CASE \E i \in 1 .. Len(queues[x]) : queues[x][i] = y
      <3>1. PICK i \in 1 .. Len(queues[x]) : queues[x][i] = y
        BY <2>2
      <3>2. CASE x # f
        BY <1>5, <3>1, <3>2
      <3>3. CASE x = f
        <4>1. i \in 1 .. Len(q) + 1 /\ Q[x][i] = y
          BY <1>4, <1>5, <3>1, <3>3 DEF q
        <4> QED BY <1>4, <1>5, <3>3, <4>1
      <3> QED BY <3>2, <3>3
    <2> QED BY <2>1, <2>2 DEF Owned
  <1>14. Owned(Q, B)
    BY <1>5, <1>10, <1>11, <1>12, <1>13 DEF Owned
  <1> QED BY <1>3, <1>14 DEF Q, B, a, g, q, f

-----------------------------------------------------------------------------
\* Counts of zones.
LEMMA FiniteZones ==
    /\ IsFiniteSet(Zones)
    /\ \A S \in SUBSET Zones : IsFiniteSet(S) /\ Cardinality(S) \in Nat
  <1>1. IsFiniteSet(Zones)
    BY Sizes, FS_Interval DEF Zones
  <1>2. \A S \in SUBSET Zones : IsFiniteSet(S) /\ Cardinality(S) \in Nat
    BY <1>1, FS_Subset, FS_CardinalityType
  <1> QED BY <1>1, <1>2

\* A channel group has fewer zones than block groups.
ZonesOf(fcg) == {z \in Zones : zone_to_fcg(z) = fcg}

LEMMA ZonesOfGroup ==
    ASSUME NEW fcg \in Fcgs
    PROVE  Cardinality(ZonesOf(fcg)) <= NBLK - MAX_OPEN_ZONE
  <1> DEFINE K == NBLK - MAX_OPEN_ZONE
             f == [z \in ZonesOf(fcg) |-> z \div NUM_FCG]
  <1>1. K \in Nat /\ NUM_FCG \in Nat \ {0}
    BY Sizes
  <1>2. Zones = 0 .. K * NUM_FCG - 1
    <2>1. NUM_FCG * K = K * NUM_FCG
      BY <1>1
    <2> QED BY <2>1 DEF Zones, MAX_ZONE
  <1> HIDE DEF K
  <1>3. \A z \in ZonesOf(fcg) : /\ z \in Nat /\ z \div NUM_FCG \in 0 .. K - 1
                                /\ z = (z \div NUM_FCG) * NUM_FCG + fcg
    <2> TAKE z \in ZonesOf(fcg)
    <2>1. z \in 0 .. K * NUM_FCG - 1 /\ z \in Nat /\ z % NUM_FCG = fcg
      <3>1. z \in Zones /\ z % NUM_FCG = fcg
        BY DEF ZonesOf, zone_to_fcg
      <3>2. z \in Nat
        BY <3>1, Sizes DEF Zones
      <3> QED BY <1>2, <3>1, <3>2
    <2> QED BY <1>1, <2>1, DivMod
  <1>4. f \in Injection(ZonesOf(fcg), 0 .. K - 1)
    <2>1. f \in [ZonesOf(fcg) -> 0 .. K - 1]
      BY <1>3
    <2>2. \A x, y \in ZonesOf(fcg) : f[x] = f[y] => x = y
      BY <1>3
    <2> QED BY <2>1, <2>2 DEF Injection, IsInjective
  <1>5. IsFiniteSet(0 .. K - 1) /\ Cardinality(0 .. K - 1) = K
    BY <1>1, FS_Interval
  <1>6. Cardinality(ZonesOf(fcg)) <= K
    BY <1>4, <1>5, FS_Injection
  <1> QED BY <1>6 DEF K

\* If few zones hold a block group, some block group is free.
LEMMA SomeFree ==
    ASSUME NEW queues, NEW held, Owned(queues, held), NEW fcg \in Fcgs,
           NEW D \in SUBSET Zones, NEW L \in SUBSET Zones,
           \A h \in Holders : FcgOf(h) = fcg /\ held[h] # -1 =>
               \/ h[1] \in D /\ h[2] = "data"
               \/ h[1] \in L /\ h[2] = "log",
           Cardinality(D) + Cardinality(L) < NBLK
    PROVE  queues[fcg] # <<>>
  <1> SUFFICES ASSUME queues[fcg] = <<>> PROVE FALSE
    OBVIOUS
  <1> DEFINE A == D \X {"data"}
             B == L \X {"log"}
             H == A \cup B
             f == [h \in H |-> IF held[h] \in Fbgs THEN held[h] ELSE 0]
  <1>1. /\ IsFiniteSet(D) /\ IsFiniteSet(L) /\ Cardinality(D) \in Nat /\ Cardinality(L) \in Nat
    BY FiniteZones
  <1>2. \A x : IsFiniteSet({x}) /\ Cardinality({x}) = 1
    BY FS_Singleton
  <1>3. IsFiniteSet(A) /\ Cardinality(A) = Cardinality(D)
    <2>1. IsFiniteSet(A) /\ Cardinality(A) = Cardinality(D) * Cardinality({"data"})
      BY <1>1, <1>2, FS_Product
    <2>2. Cardinality(D) * 1 = Cardinality(D)
      BY <1>1
    <2> HIDE DEF A
    <2> QED BY <1>2, <2>1, <2>2
  <1>4. IsFiniteSet(B) /\ Cardinality(B) = Cardinality(L)
    <2>1. IsFiniteSet(B) /\ Cardinality(B) = Cardinality(L) * Cardinality({"log"})
      BY <1>1, <1>2, FS_Product
    <2>2. Cardinality(L) * 1 = Cardinality(L)
      BY <1>1
    <2> HIDE DEF B
    <2> QED BY <1>2, <2>1, <2>2
  <1>5. IsFiniteSet(H) /\ Cardinality(H) <= Cardinality(D) + Cardinality(L)
    <2>1. Cardinality(H) = Cardinality(A) + Cardinality(B) - Cardinality(A \cap B) /\ IsFiniteSet(H)
      BY <1>3, <1>4, FS_Union
    <2>2. Cardinality(A \cap B) \in Nat
      BY <1>3, FS_Subset, FS_CardinalityType
    <2> HIDE DEF A, B, H
    <2> QED BY <1>1, <1>3, <1>4, <2>1, <2>2
  <1>6. IsFiniteSet(Fbgs) /\ Cardinality(Fbgs) = NBLK /\ 0 \in Fbgs
    BY Sizes, FS_Interval DEF Fbgs
  <1>7. f \in Surjection(H, Fbgs)
    <2>1. f \in [H -> Fbgs]
      BY <1>6
    <2>2. ASSUME NEW g \in Fbgs PROVE \E h \in H : f[h] = g
      <3>1. PICK h \in Holders : FcgOf(h) = fcg /\ held[h] = g
        BY <2>2 DEF Owned
      <3>2. held[h] # -1
        BY <3>1, Sizes DEF Fbgs
      <3>3. h \in H
        BY <3>1, <3>2 DEF Holders
      <3> QED BY <3>1, <3>3
    <2> QED BY <2>1, <2>2 DEF Surjection
  <1>8. Cardinality(Fbgs) <= Cardinality(H)
    BY <1>5, <1>7, FS_Surjection
  <1> HIDE DEF H, A, B
  <1>9. Cardinality(H) \in Nat
    BY <1>5, FS_CardinalityType
  <1> QED BY <1>1, <1>5, <1>6, <1>8, <1>9, Sizes

-----------------------------------------------------------------------------
\* What is free is erased, and the first pages[h] pages of what h holds are
\* written.
Followed(chips, queues, held, pages) ==
    /\ chips \in [Banks -> Chip] /\ IsLog(chips)
    /\ \A fcg \in Fcgs : \A i \in 1 .. Len(queues[fcg]) : FirstWritten(chips, fcg, queues[fcg][i], 0)
    /\ \A h \in Holders : held[h] # -1 => FirstWritten(chips, FcgOf(h), held[h], pages[h])

Kept(chips, queues, held, pages) == Owned(queues, held) /\ Followed(chips, queues, held, pages)

\* What a holder takes is erased.
LEMMA Takes ==
    ASSUME NEW chips, NEW queues, NEW held, NEW pages \in [Holders -> Nat], Kept(chips, queues, held, pages),
           NEW h \in Holders, held[h] = -1, queues[FcgOf(h)] # <<>>
    PROVE  /\ Head(queues[FcgOf(h)]) \in Fbgs
           /\ FirstWritten(chips, FcgOf(h), Head(queues[FcgOf(h)]), 0)
           /\ Kept(chips, [queues EXCEPT ![FcgOf(h)] = Tail(@)],
                   [held EXCEPT ![h] = Head(queues[FcgOf(h)])], [pages EXCEPT ![h] = 0])
  <1> DEFINE f == FcgOf(h)
             q == queues[f]
             Q == [queues EXCEPT ![f] = Tail(q)]
             B == [held EXCEPT ![h] = Head(q)]
             P == [pages EXCEPT ![h] = 0]
  <1>1. Head(q) \in Fbgs /\ Owned(Q, B)
    BY Taken DEF Kept
  <1>2. f \in Fcgs /\ queues \in [Fcgs -> Seq(Fbgs)] /\ held \in [Holders -> Fbgs \cup {-1}]
    BY HolderType DEF Kept, Owned
  <1>3. /\ q \in Seq(Fbgs) /\ q # <<>>
    BY <1>2
  <1> HIDE DEF q
  <1>4. /\ Len(q) \in Nat /\ Len(q) >= 1 /\ Head(q) = q[1] /\ Len(Tail(q)) = Len(q) - 1
        /\ \A i \in 1 .. Len(q) - 1 : Tail(q)[i] = q[i + 1]
    BY <1>3
  <1>5. \A i \in 1 .. Len(q) : FirstWritten(chips, f, q[i], 0)
    BY <1>2 DEF Kept, Followed, q
  <1>6. FirstWritten(chips, f, Head(q), 0)
    BY <1>4, <1>5
  <1>7. Q[f] = Tail(q) /\ (\A x \in Fcgs : x # f => Q[x] = queues[x])
        /\ B[h] = Head(q) /\ (\A k \in Holders : k # h => B[k] = held[k])
        /\ P[h] = 0 /\ (\A k \in Holders : k # h => P[k] = pages[k])
    BY <1>2
  <1> HIDE DEF Q, B, P, f
  <1>8. ASSUME NEW x \in Fcgs, NEW i \in 1 .. Len(Q[x]) PROVE FirstWritten(chips, x, Q[x][i], 0)
    <2>1. CASE x = f
      <3>1. i \in 1 .. Len(q) - 1 /\ Q[x][i] = Tail(q)[i]
        BY <1>4, <1>7, <1>8, <2>1
      <3>2. i + 1 \in 1 .. Len(q) /\ Q[x][i] = q[i + 1]
        BY <1>4, <3>1
      <3> QED BY <1>5, <2>1, <3>2
    <2>2. CASE x # f
      BY <1>7, <1>8, <2>2 DEF Kept, Followed
    <2> QED BY <2>1, <2>2
  <1>9. ASSUME NEW k \in Holders, B[k] # -1 PROVE FirstWritten(chips, FcgOf(k), B[k], P[k])
    <2>1. CASE k = h
      BY <1>6, <1>7, <2>1 DEF f
    <2>2. CASE k # h
      BY <1>7, <1>9, <2>2 DEF Kept, Followed
    <2> QED BY <2>1, <2>2
  <1>10. Followed(chips, Q, B, P)
    BY <1>8, <1>9 DEF Followed, Kept
  <1> QED BY <1>1, <1>6, <1>10 DEF Kept, Q, B, P, q, f

\* Blocks of other holders, and free ones, are others than those of h.
LEMMA Others ==
    ASSUME NEW queues, NEW held, Owned(queues, held), NEW h \in Holders, held[h] # -1
    PROVE  /\ \A k \in Holders : k # h /\ held[k] # -1 => ~(FcgOf(k) = FcgOf(h) /\ held[k] = held[h])
           /\ \A fcg \in Fcgs : \A i \in 1 .. Len(queues[fcg]) :
                 ~(fcg = FcgOf(h) /\ queues[fcg][i] = held[h])
           /\ held[h] \in Fbgs
           /\ \A k \in Holders : held[k] # -1 => held[k] \in Fbgs
           /\ \A fcg \in Fcgs : \A i \in 1 .. Len(queues[fcg]) : queues[fcg][i] \in Fbgs
  BY HolderType DEF Owned

\* A holder writes to its block group only.
LEMMA Writes ==
    ASSUME NEW chips, NEW queues, NEW held, NEW pages \in [Holders -> Nat], Kept(chips, queues, held, pages),
           NEW h \in Holders, held[h] # -1, NEW new \in [Banks -> Chip], IsLog(new),
           SameElsewhere(chips, new, FcgOf(h), held[h]),
           NEW n \in Nat, FirstWritten(new, FcgOf(h), held[h], n)
    PROVE  Kept(new, queues, held, [pages EXCEPT ![h] = n])
  <1> DEFINE P == [pages EXCEPT ![h] = n]
  <1>1. P[h] = n /\ \A k \in Holders : k # h => P[k] = pages[k]
    OBVIOUS
  <1> HIDE DEF P
  <1>2. Owned(queues, held)
    BY DEF Kept
  <1>3. ASSUME NEW x \in Fcgs, NEW i \in 1 .. Len(queues[x]) PROVE FirstWritten(new, x, queues[x][i], 0)
    <2>1. ~(x = FcgOf(h) /\ queues[x][i] = held[h]) /\ queues[x][i] \in Fbgs
      BY <1>2, <1>3, Others
    <2>2. FirstWritten(chips, x, queues[x][i], 0)
      BY <1>3 DEF Kept, Followed
    <2> QED BY <2>1, <2>2, FirstKept
  <1>4. ASSUME NEW k \in Holders, held[k] # -1 PROVE FirstWritten(new, FcgOf(k), held[k], P[k])
    <2>1. CASE k = h
      BY <1>1, <2>1
    <2>2. CASE k # h
      <3>1. ~(FcgOf(k) = FcgOf(h) /\ held[k] = held[h]) /\ held[k] \in Fbgs
        BY <1>2, <1>4, <2>2, Others
      <3>2. FirstWritten(chips, FcgOf(k), held[k], P[k])
        BY <1>1, <1>4, <2>2 DEF Kept, Followed
      <3> QED BY <3>1, <3>2, FirstKept
    <2> QED BY <2>1, <2>2
  <1> QED BY <1>2, <1>3, <1>4 DEF Kept, Followed, P

\* A block group is erased when it is given back (zns.c:281, 287).
LEMMA Gives ==
    ASSUME NEW chips, NEW queues, NEW held, NEW pages \in [Holders -> Nat], Kept(chips, queues, held, pages),
           NEW h \in Holders, held[h] # -1
    PROVE  Kept(ErasedIn(chips, FcgOf(h), held[h]), [queues EXCEPT ![FcgOf(h)] = Pushed(@, held[h])],
                [held EXCEPT ![h] = -1], pages)
  <1> DEFINE f == FcgOf(h)
             q == queues[f]
             g == held[h]
             Q == [queues EXCEPT ![f] = Pushed(q, g)]
             B == [held EXCEPT ![h] = -1]
             new == ErasedIn(chips, f, g)
  <1>1. Owned(queues, held) /\ Owned(Q, B)
    BY Given DEF Kept
  <1>2. /\ f \in Fcgs /\ queues \in [Fcgs -> Seq(Fbgs)] /\ held \in [Holders -> Fbgs \cup {-1}] /\ g \in Fbgs
    BY <1>1, HolderType DEF Owned
  <1>3. /\ new \in [Banks -> Chip] /\ IsLog(new) /\ FirstWritten(new, f, g, 0)
        /\ SameElsewhere(chips, new, f, g)
    BY <1>2, EraseFacts DEF Kept, Followed
  <1>4. /\ Q[f] = Pushed(q, g) /\ (\A x \in Fcgs : x # f => Q[x] = queues[x])
        /\ B[h] = -1 /\ (\A k \in Holders : k # h => B[k] = held[k])
    BY <1>2
  <1>5. \A i \in 1 .. Len(Pushed(q, g)) : Pushed(q, g)[i] = g \/ (i \in 1 .. Len(q) /\ Pushed(q, g)[i] = q[i])
    <2>1. q \in Seq(Fbgs)
      BY <1>2
    <2> HIDE DEF q, g
    <2> QED BY <1>2, <2>1 DEF Pushed
  <1> HIDE DEF Q, B, new
  <1>6. ASSUME NEW x \in Fcgs, NEW i \in 1 .. Len(queues[x]) PROVE FirstWritten(new, x, queues[x][i], 0)
    <2>1. ~(x = f /\ queues[x][i] = g) /\ queues[x][i] \in Fbgs
      BY <1>1, <1>6, Others
    <2>2. FirstWritten(chips, x, queues[x][i], 0)
      BY <1>6 DEF Kept, Followed
    <2> QED BY <1>3, <2>1, <2>2, FirstKept
  <1>7. ASSUME NEW x \in Fcgs, NEW i \in 1 .. Len(Q[x]) PROVE FirstWritten(new, x, Q[x][i], 0)
    <2>1. CASE x = f
      <3>1. Q[x][i] = g \/ (i \in 1 .. Len(queues[x]) /\ Q[x][i] = queues[x][i])
        BY <1>4, <1>5, <1>7, <2>1
      <3> QED BY <1>3, <1>6, <2>1, <3>1
    <2>2. CASE x # f
      BY <1>4, <1>6, <1>7, <2>2
    <2> QED BY <2>1, <2>2
  <1>8. ASSUME NEW k \in Holders, B[k] # -1 PROVE FirstWritten(new, FcgOf(k), B[k], pages[k])
    <2>1. k # h /\ B[k] = held[k] /\ held[k] # -1
      BY <1>4, <1>8
    <2>2. ~(FcgOf(k) = f /\ held[k] = g) /\ held[k] \in Fbgs
      BY <1>1, <2>1, Others
    <2>3. FirstWritten(chips, FcgOf(k), held[k], pages[k])
      BY <2>1 DEF Kept, Followed
    <2> QED BY <1>3, <2>1, <2>2, <2>3, FirstKept
  <1>9. Followed(new, Q, B, pages)
    BY <1>3, <1>7, <1>8 DEF Followed
  <1> QED BY <1>1, <1>9 DEF Kept, Q, B, new, q, g, f

\* Only the pages of what is held count.
LEMMA SamePages ==
    ASSUME NEW chips, NEW queues, NEW held, NEW pages, Kept(chips, queues, held, pages),
           NEW P, \A h \in Holders : held[h] # -1 => P[h] = pages[h]
    PROVE  Kept(chips, queues, held, P)
  BY DEF Kept, Followed

\* A zone gives back its block group, and its log if it has one.
LEMMA GivesBoth ==
    ASSUME NEW chips, NEW queues, NEW held, NEW pages \in [Holders -> Nat], Kept(chips, queues, held, pages),
           NEW z \in Zones, held[<<z, "data">>] # -1
    PROVE  LET f == zone_to_fcg(z)
               a == held[<<z, "data">>]
               b == held[<<z, "log">>]
           IN  Kept(ErasedIn(ErasedIn(chips, f, a), f, b),
                    [queues EXCEPT ![f] = IF b = -1 THEN Pushed(@, a) ELSE Pushed(Pushed(@, a), b)],
                    [held EXCEPT ![<<z, "data">>] = -1, ![<<z, "log">>] = -1], pages)
  <1> DEFINE f  == zone_to_fcg(z)
             a  == held[<<z, "data">>]
             b  == held[<<z, "log">>]
             c1 == ErasedIn(chips, f, a)
             Q1 == [queues EXCEPT ![f] = Pushed(@, a)]
             B1 == [held EXCEPT ![<<z, "data">>] = -1]
  <1>1. /\ <<z, "data">> \in Holders /\ <<z, "log">> \in Holders /\ <<z, "data">> # <<z, "log">>
        /\ FcgOf(<<z, "data">>) = f /\ FcgOf(<<z, "log">>) = f
    BY DEF Holders, FcgOf
  <1>2. Kept(c1, Q1, B1, pages)
    BY <1>1, Gives
  <1>3. /\ f \in Fcgs /\ queues \in [Fcgs -> Seq(Fbgs)] /\ held \in [Holders -> Fbgs \cup {-1}]
    BY <1>1, HolderType DEF Kept, Owned
  <1>4. B1[<<z, "log">>] = b /\ Q1[f] = Pushed(queues[f], a)
    BY <1>1, <1>3
  <1> HIDE DEF c1
  <1>5. CASE b = -1
    <2>1. ErasedIn(c1, f, b) = c1
      <3>1. c1 \in [Banks -> Chip]
        BY <1>2 DEF Kept, Followed
      <3>2. \A bank \in Banks : NandErase(c1[bank], -1) = c1[bank]
        BY Sizes DEF NandErase, EraseCode, Blks
      <3> QED BY <1>5, <3>1, <3>2 DEF ErasedIn
    <2>2. [held EXCEPT ![<<z, "data">>] = -1, ![<<z, "log">>] = -1] = B1
      BY <1>1, <1>3, <1>5
    <2> QED BY <1>2, <1>5, <2>1, <2>2 DEF c1
  <1>6. CASE b # -1
    <2>1. Kept(ErasedIn(c1, f, b), [Q1 EXCEPT ![f] = Pushed(@, b)], [B1 EXCEPT ![<<z, "log">>] = -1], pages)
      <3> HIDE DEF Q1, B1
      <3> QED BY <1>1, <1>2, <1>4, <1>6, Gives
    <2>2. [Q1 EXCEPT ![f] = Pushed(@, b)] = [queues EXCEPT ![f] = Pushed(Pushed(@, a), b)]
      BY <1>3
    <2>3. [B1 EXCEPT ![<<z, "log">>] = -1] = [held EXCEPT ![<<z, "data">>] = -1, ![<<z, "log">>] = -1]
      OBVIOUS
    <2> QED BY <1>6, <2>1, <2>2, <2>3 DEF c1
  <1> QED BY <1>5, <1>6

-----------------------------------------------------------------------------
\* The inductive invariant.
HeldBy ==
    [h \in Holders |-> IF h[2] = "data" THEN Z2FBG[h[1]] ELSE Z2LogFBG[h[1]]]

\* Of a zone that has a log, the log follows wp and the old block group is full.
PagesBy ==
    [h \in Holders |-> IF h[2] = "data" /\ Z2LogFBG[h[1]] # -1 THEN DEG_ZONE * NPAGE
                       ELSE ZD[h[1]].wp \div NSECT]

Tables ==
    /\ Open_Zone_Cnt \in Int
    /\ Z2FBG \in [Zones -> Fbgs \cup {-1}] /\ Z2LogFBG \in [Zones -> Fbgs \cup {-1}]
    /\ ZD \in [Zones -> [state : States, wp : 0 .. ZONE_SIZE]]
    /\ buffer \in [Zones -> [0 .. NSECT - 1 -> Data \cup {Zero}]]
    /\ zone_valid_map \in [Zones -> {NoMap} \cup TLMaps]

\* The state of a zone, what it holds and what its buffer holds.
Fits(zd, fbg, log, buf) ==
    /\ zd.state = "EMPTY" => fbg = -1 /\ log = -1 /\ zd.wp = 0
    /\ zd.state # "EMPTY" => fbg # -1
    /\ zd.state = "OPEN" => log = -1
    /\ zd.state = "TLOPEN" => log # -1
    /\ zd.state = "FULL" <=> zd.wp = ZONE_SIZE
    /\ \A i \in 0 .. NSECT - 1 : i < zd.wp % NSECT => buf[i] \in Data
AllFit == \A zone \in Zones : Fits(ZD[zone], Z2FBG[zone], Z2LogFBG[zone], buffer[zone])

OpenZones == {zone \in Zones : InUse(zone)}
LogZones  == {zone \in Zones : Z2LogFBG[zone] # -1}

Counts ==
    /\ Open_Zone_Cnt = Cardinality(OpenZones) /\ Open_Zone_Cnt <= MAX_OPEN_ZONE
    /\ Cardinality(LogZones) <= MAX_OPEN_ZONE

IndInv ==
    /\ Tables
    /\ AllFit
    /\ Counts
    /\ Kept(nand, FBG_Queue, HeldBy, PagesBy)

-----------------------------------------------------------------------------
\* Facts about a state of the invariant.
LEMMA ZonePages ==
    /\ ZONE_SIZE \div NSECT = DEG_ZONE * NPAGE /\ ZONE_SIZE % NSECT = 0
    /\ DEG_ZONE * NPAGE \in Nat
    /\ \A wp \in 0 .. ZONE_SIZE : wp \div NSECT \in Nat /\ wp % NSECT \in 0 .. NSECT - 1
    /\ 0 \div NSECT = 0 /\ 0 % NSECT = 0
  <1> DEFINE A == DEG_ZONE * NPAGE
  <1>1. A \in Nat
    BY Sizes
  <1>2. ZONE_SIZE = A * NSECT + 0
    BY Sizes, <1>1 DEF ZONE_SIZE
  <1> HIDE DEF A
  <1>3. (A * NSECT + 0) \div NSECT = A /\ (A * NSECT + 0) % NSECT = 0
    BY <1>1, Sizes, DivMod
  <1>4. \A wp \in 0 .. ZONE_SIZE : wp \in Nat
    OBVIOUS
  <1>5. \A wp \in Nat : wp \div NSECT \in Nat /\ wp % NSECT \in 0 .. NSECT - 1
    BY Sizes, DivMod
  <1>6. 0 = 0 * NSECT + 0 /\ 0 \in 0 .. NSECT - 1
    BY Sizes
  <1>7. (0 * NSECT + 0) \div NSECT = 0 /\ (0 * NSECT + 0) % NSECT = 0
    BY <1>6, Sizes, DivMod
  <1> QED BY <1>1, <1>2, <1>3, <1>4, <1>5, <1>6, <1>7 DEF A

\* The holders of a zone and their pages.
LEMMA Typed ==
    ASSUME Tables
    PROVE  /\ HeldBy \in [Holders -> Fbgs \cup {-1}] /\ PagesBy \in [Holders -> Nat]
           /\ \A zone \in Zones :
                /\ <<zone, "data">> \in Holders /\ <<zone, "log">> \in Holders
                /\ FcgOf(<<zone, "data">>) = zone_to_fcg(zone) /\ FcgOf(<<zone, "log">>) = zone_to_fcg(zone)
                /\ HeldBy[<<zone, "data">>] = Z2FBG[zone] /\ HeldBy[<<zone, "log">>] = Z2LogFBG[zone]
                /\ PagesBy[<<zone, "data">>] =
                      IF Z2LogFBG[zone] # -1 THEN DEG_ZONE * NPAGE ELSE ZD[zone].wp \div NSECT
                /\ PagesBy[<<zone, "log">>] = ZD[zone].wp \div NSECT
  <1>1. \A zone \in Zones : ZD[zone].wp \in 0 .. ZONE_SIZE
    BY DEF Tables
  <1>2. \A h \in Holders : h[1] \in Zones /\ h[2] \in {"data", "log"}
    BY DEF Holders
  <1>3. HeldBy \in [Holders -> Fbgs \cup {-1}]
    BY <1>2 DEF Tables, HeldBy
  <1>4. PagesBy \in [Holders -> Nat]
    BY <1>1, <1>2, ZonePages DEF PagesBy
  <1>5. \A zone \in Zones : <<zone, "data">> \in Holders /\ <<zone, "log">> \in Holders
    BY DEF Holders
  <1> QED BY <1>3, <1>4, <1>5 DEF HeldBy, PagesBy, FcgOf

\* The same of the next state.
LEMMA TypedNext ==
    ASSUME Tables'
    PROVE  /\ HeldBy' \in [Holders -> Fbgs \cup {-1}] /\ PagesBy' \in [Holders -> Nat]
           /\ \A zone \in Zones :
                /\ HeldBy'[<<zone, "data">>] = Z2FBG'[zone] /\ HeldBy'[<<zone, "log">>] = Z2LogFBG'[zone]
                /\ PagesBy'[<<zone, "data">>] =
                      IF Z2LogFBG'[zone] # -1 THEN DEG_ZONE * NPAGE ELSE ZD'[zone].wp \div NSECT
                /\ PagesBy'[<<zone, "log">>] = ZD'[zone].wp \div NSECT
  <1>1. \A zone \in Zones : ZD'[zone].wp \in 0 .. ZONE_SIZE
    BY DEF Tables
  <1>2. \A h \in Holders : h[1] \in Zones /\ h[2] \in {"data", "log"}
    BY DEF Holders
  <1>3. HeldBy' \in [Holders -> Fbgs \cup {-1}]
    BY <1>2 DEF Tables, HeldBy
  <1>4. PagesBy' \in [Holders -> Nat]
    BY <1>1, <1>2, ZonePages DEF PagesBy
  <1>5. \A zone \in Zones : <<zone, "data">> \in Holders /\ <<zone, "log">> \in Holders
    BY DEF Holders
  <1> QED BY <1>3, <1>4, <1>5 DEF HeldBy, PagesBy

\* A holder is one of two of its zone.
LEMMA TwoEach ==
    \A h \in Holders : \E zone \in Zones : h = <<zone, "data">> \/ h = <<zone, "log">>
  BY DEF Holders

\* What a written page holds.
LEMMA StoredThere ==
    ASSUME nand \in [Banks -> Chip], IsLog(nand), NEW zone \in Zones, NEW fbg \in Fbgs, NEW n \in Nat,
           FirstWritten(nand, zone_to_fcg(zone), fbg, n), NEW s \in Sectors, s \div NSECT < n
    PROVE  /\ Stored(zone, fbg, s) = nand[lba_to_bank(zone, s)].cell[Ppn(fbg, lba_to_page(s))][s % NSECT]
           /\ Stored(zone, fbg, s) \in Data
           /\ nand[lba_to_bank(zone, s)].cell[Ppn(fbg, lba_to_page(s))] \in Page
  <1> DEFINE bank == lba_to_bank(zone, s)
             page == lba_to_page(s)
             cell == nand[bank].cell[Ppn(fbg, page)]
  <1>1. /\ bank \in BanksOf(zone_to_fcg(zone)) /\ page \in Pages
        /\ PageNo(bank, page) = s \div NSECT /\ s % NSECT \in 0 .. NSECT - 1
    BY SectorPlace
  <1>2. bank \in Banks /\ Ppn(fbg, page) \in Ppns
    BY <1>1, PpnFacts DEF BanksOf
  <1>3. page < nand[bank].blk_index[fbg]
    BY <1>1 DEF FirstWritten
  <1>4. cell # Erased
    BY <1>1, <1>2, <1>3 DEF IsLog
  <1>5. cell \in Page
    BY <1>2, <1>4 DEF Chip
  <1>6. Stored(zone, fbg, s) = cell[s % NSECT]
    BY <1>1, <1>4 DEF Stored, NandRead, ReadCode, Blks, Fbgs
  <1> QED BY <1>1, <1>5, <1>6 DEF Page

\* The end of a run of sectors to copy.
LEMMA RunFacts ==
    ASSUME NEW map \in [Sectors -> {0, 1}], NEW s \in 0 .. ZONE_SIZE
    PROVE  /\ RunEnd(map, s) \in s .. ZONE_SIZE
           /\ \A i \in s .. RunEnd(map, s) - 1 : map[i] = 1
           /\ RunEnd(map, s) = ZONE_SIZE \/ map[RunEnd(map, s)] = 0
  <1> DEFINE T == {e \in s .. ZONE_SIZE : e = ZONE_SIZE \/ map[e] = 0}
  <1>1. ZONE_SIZE \in T /\ T \in SUBSET Nat
    BY Sizes
  <1>2. PICK e \in T : \A k \in T : e <= k
    <2> HIDE DEF T
    <2> QED BY <1>1, LeastNat
  <1>3. e \in s .. ZONE_SIZE /\ (e = ZONE_SIZE \/ map[e] = 0)
    OBVIOUS
  <1>4. ASSUME NEW i \in s .. e - 1 PROVE map[i] = 1
    <2>1. i \in s .. ZONE_SIZE /\ i \in Sectors /\ i < e
      BY <1>3, <1>4, Sizes DEF Sectors
    <2>2. i \notin T
      BY <1>2, <2>1
    <2> QED BY <2>1, <2>2
  <1> QED BY <1>3, <1>4 DEF RunEnd

\* A zone more, or less.
LEMMA CountAfter ==
    ASSUME NEW used \in SUBSET Zones, NEW zone \in Zones
    PROVE  /\ IsFiniteSet(used) /\ Cardinality(used) \in Nat
           /\ Cardinality(used \cup {zone}) =
                 IF zone \in used THEN Cardinality(used) ELSE Cardinality(used) + 1
           /\ Cardinality(used \ {zone}) =
                 IF zone \in used THEN Cardinality(used) - 1 ELSE Cardinality(used)
  <1>1. IsFiniteSet(used) /\ Cardinality(used) \in Nat
    BY FiniteZones
  <1>2. zone \in used => used \cup {zone} = used
    OBVIOUS
  <1>3. zone \notin used => used \ {zone} = used
    OBVIOUS
  <1> QED BY <1>1, <1>2, <1>3, FS_AddElement, FS_RemoveElement

-----------------------------------------------------------------------------
\* The calls of a state of the invariant.
LEMMA Works ==
    ASSUME NEW c, NEW d, NEW fbg, NEW n, Working(d, fbg), Further(c, d, fbg, n),
           NEW queues, NEW held, NEW pages \in [Holders -> Nat], Kept(c.nand, queues, held, pages),
           NEW h \in Holders, held[h] = fbg, FcgOf(h) = zone_to_fcg(c.zone)
    PROVE  Kept(d.nand, queues, held, [pages EXCEPT ![h] = d.wp \div NSECT])
  <1>1. /\ held[h] # -1 /\ d.nand \in [Banks -> Chip] /\ IsLog(d.nand) /\ d.wp \in 0 .. ZONE_SIZE
        /\ FirstWritten(d.nand, FcgOf(h), held[h], d.wp \div NSECT)
    <2>1. d \in Calls /\ fbg \in Fbgs /\ d.zone = c.zone
      BY DEF Working, Further
    <2>2. fbg # -1
      BY <2>1, Sizes DEF Fbgs
    <2>3. d.nand \in [Banks -> Chip] /\ d.wp \in 0 .. ZONE_SIZE
      BY <2>1 DEF Calls
    <2> QED BY <2>1, <2>2, <2>3 DEF Working
  <1>2. SameElsewhere(c.nand, d.nand, FcgOf(h), held[h])
    BY DEF Further
  <1>3. d.wp \div NSECT \in Nat
    BY <1>1, ZonePages
  <1> QED BY <1>1, <1>2, <1>3, Writes

\* The next state of a zone fits.
LEMMA Leftover ==
    ASSUME NEW d, NEW fbg, Working(d, fbg), d.fbg # -1, d.state = "OPEN" => d.log = -1
    PROVE  Fits([state |-> d.state, wp |-> d.wp], d.fbg, d.log, d.buf)
  <1>1. d.state = "TLOPEN" => d.log # -1
    BY Sizes DEF Working, Fbgs
  <1> QED BY <1>1 DEF Working, Fits

\* A zone that is reset fits, whatever its buffer still holds.
LEMMA Forgotten == \A buf : Fits([state |-> "EMPTY", wp |-> 0], -1, -1, buf)
  <1>1. \A i \in 0 .. NSECT - 1 : ~(i < 0)
    BY Sizes
  <1> QED BY <1>1, Sizes, ZonePages DEF Fits

\* A call continues with the block group its zone is being written to.
LEMMA Continues ==
    ASSUME IndInv, NEW zone \in Zones, InUse(zone)
    PROVE  LET c == At(zone)
               h == IF ZD[zone].state = "TLOPEN" THEN <<zone, "log">> ELSE <<zone, "data">>
           IN  /\ Working(c, HeldBy[h]) /\ c.wp # ZONE_SIZE /\ HeldBy[h] \in Fbgs
               /\ h \in Holders /\ FcgOf(h) = zone_to_fcg(zone)
  <1> DEFINE c == At(zone)
             h == IF ZD[zone].state = "TLOPEN" THEN <<zone, "log">> ELSE <<zone, "data">>
  <1>1. /\ ZD[zone].state \in {"OPEN", "TLOPEN"} /\ ZD[zone] \in [state : States, wp : 0 .. ZONE_SIZE]
        /\ Tables /\ Fits(ZD[zone], Z2FBG[zone], Z2LogFBG[zone], buffer[zone])
        /\ nand \in [Banks -> Chip] /\ IsLog(nand)
        /\ \A k \in Holders : HeldBy[k] # -1 => FirstWritten(nand, FcgOf(k), HeldBy[k], PagesBy[k])
    BY DEF IndInv, Tables, AllFit, InUse, Kept, Followed
  <1>2. c \in Calls
    BY <1>1 DEF At, Calls, Tables
  <1>3. /\ c.state = ZD[zone].state /\ c.wp = ZD[zone].wp /\ c.fbg = Z2FBG[zone]
        /\ c.log = Z2LogFBG[zone] /\ c.nand = nand /\ c.buf = buffer[zone] /\ c.zone = zone
    BY DEF At
  <1>4. /\ h \in Holders /\ FcgOf(h) = zone_to_fcg(zone) /\ HeldBy[h] \in Fbgs \cup {-1}
        /\ HeldBy[h] = IF ZD[zone].state = "TLOPEN" THEN Z2LogFBG[zone] ELSE Z2FBG[zone]
    BY <1>1, Typed
  <1>5. HeldBy[h] # -1 /\ HeldBy[h] \in Fbgs
    BY <1>1, <1>4 DEF Fits
  <1>6. PagesBy[h] = ZD[zone].wp \div NSECT
    BY <1>1, Typed DEF Fits
  <1>7. FirstWritten(nand, zone_to_fcg(zone), HeldBy[h], c.wp \div NSECT)
    BY <1>1, <1>3, <1>4, <1>5, <1>6
  <1>8. c.state # "FULL" /\ c.wp # ZONE_SIZE
    BY <1>1, <1>3 DEF Fits
  <1> HIDE DEF c, h
  <1>9. Working(c, HeldBy[h])
    BY <1>1, <1>2, <1>3, <1>4, <1>5, <1>7, <1>8 DEF Working, Fits
  <1> QED BY <1>4, <1>5, <1>8, <1>9 DEF c, h

\* A zone that has no block group, or no log, finds one.
LEMMA OneIsFree ==
    ASSUME IndInv, NEW zone \in Zones,
           \/ ZD[zone].state = "EMPTY"
           \/ NoLogLeft /\ Open_Zone_Cnt # MAX_OPEN_ZONE
    PROVE  FBG_Queue[zone_to_fcg(zone)] # <<>>
  <1> DEFINE f == zone_to_fcg(zone)
             D == IF ZD[zone].state = "EMPTY" THEN ZonesOf(f) \ {zone} ELSE ZonesOf(f)
             K == NBLK - MAX_OPEN_ZONE
  <1>1. Tables /\ AllFit /\ Counts /\ Owned(FBG_Queue, HeldBy)
    BY DEF IndInv, Kept
  <1>2. f \in Fcgs
    <2>1. <<zone, "data">> \in Holders /\ FcgOf(<<zone, "data">>) = f
      BY DEF Holders, FcgOf
    <2> QED BY <2>1, HolderType
  <1>3. ZonesOf(f) \in SUBSET Zones /\ zone \in ZonesOf(f) /\ Cardinality(ZonesOf(f)) <= K
    BY <1>2, ZonesOfGroup DEF ZonesOf
  <1>4. LogZones \in SUBSET Zones /\ OpenZones \in SUBSET Zones /\ D \in SUBSET Zones
    BY <1>3 DEF LogZones, OpenZones
  <1>5. Cardinality(ZonesOf(f)) \in Nat /\ Cardinality(D) \in Nat /\ Cardinality(LogZones) \in Nat
        /\ Cardinality(OpenZones) \in Nat
    BY <1>3, <1>4, FiniteZones
  <1>6. Cardinality(D) + Cardinality(LogZones) < NBLK
    <2>1. CASE ZD[zone].state = "EMPTY"
      <3>1. Cardinality(D) = Cardinality(ZonesOf(f)) - 1
        BY <1>3, <2>1, CountAfter
      <3>2. Cardinality(LogZones) <= MAX_OPEN_ZONE
        BY <1>1 DEF Counts
      <3> HIDE DEF D, f
      <3> QED BY <1>3, <1>5, <3>1, <3>2, Sizes
    <2>2. CASE ZD[zone].state # "EMPTY" /\ NoLogLeft /\ Open_Zone_Cnt # MAX_OPEN_ZONE
      <3>1. LogZones \subseteq OpenZones
        <4> SUFFICES ASSUME NEW z \in Zones, Z2LogFBG[z] # -1 PROVE InUse(z)
          BY DEF LogZones, OpenZones
        <4>1. ZD[z].state \in States /\ Fits(ZD[z], Z2FBG[z], Z2LogFBG[z], buffer[z])
          BY <1>1 DEF Tables, AllFit
        <4> QED BY <2>2, <4>1 DEF Fits, NoLogLeft, States, InUse
      <3>2. Cardinality(LogZones) <= Cardinality(OpenZones)
        BY <1>4, <3>1, FiniteZones, FS_Subset
      <3>3. Cardinality(OpenZones) < MAX_OPEN_ZONE
        BY <1>1, <1>5, <2>2, Sizes DEF Counts
      <3>4. Cardinality(D) = Cardinality(ZonesOf(f))
        BY <2>2
      <3> HIDE DEF D, f
      <3> QED BY <1>3, <1>5, <3>2, <3>3, <3>4, Sizes
    <2> QED BY <2>1, <2>2
  <1>7. ASSUME NEW h \in Holders, FcgOf(h) = f, HeldBy[h] # -1
        PROVE  (h[1] \in D /\ h[2] = "data") \/ (h[1] \in LogZones /\ h[2] = "log")
    <2>1. PICK z \in Zones : h = <<z, "data">> \/ h = <<z, "log">>
      BY TwoEach
    <2>2. CASE h = <<z, "log">>
      <3>1. Z2LogFBG[z] # -1
        BY <1>1, <1>7, <2>2, Typed
      <3> QED BY <2>2, <3>1 DEF LogZones
    <2>3. CASE h = <<z, "data">>
      <3>1. Z2FBG[z] # -1 /\ zone_to_fcg(z) = f
        BY <1>1, <1>7, <2>3, Typed
      <3>2. ZD[z].state # "EMPTY"
        BY <1>1, <3>1 DEF AllFit, Fits
      <3> QED BY <2>3, <3>1, <3>2 DEF ZonesOf
    <2> QED BY <2>1, <2>2, <2>3
  <1> HIDE DEF D, f
  <1>8. FBG_Queue[f] # <<>>
    BY <1>1, <1>2, <1>4, <1>6, <1>7, SomeFree
  <1> QED BY <1>8 DEF f

\* A zone is opened with the first free block group.
LEMMA Opens ==
    ASSUME IndInv, NEW zone \in Zones, ZD[zone].state = "EMPTY"
    PROVE  LET f == zone_to_fcg(zone)
               g == Popped(FBG_Queue[f])
               c == Opened(zone, g)
               h == <<zone, "data">>
           IN  /\ g \in Fbgs /\ Working(c, g)
               /\ c.zone = zone /\ c.nand = nand /\ c.fbg = g /\ c.log = -1 /\ c.state = "OPEN" /\ c.wp = 0
               /\ c.cnt = Open_Zone_Cnt + 1
               /\ Kept(nand, [FBG_Queue EXCEPT ![f] = Rest(@)], [HeldBy EXCEPT ![h] = g],
                       [PagesBy EXCEPT ![h] = 0])
  <1> DEFINE f == zone_to_fcg(zone)
             q == FBG_Queue[f]
             g == Popped(q)
             c == Opened(zone, g)
             h == <<zone, "data">>
  <1>1. /\ Tables /\ Kept(nand, FBG_Queue, HeldBy, PagesBy)
        /\ Fits(ZD[zone], Z2FBG[zone], Z2LogFBG[zone], buffer[zone])
    BY DEF IndInv, AllFit
  <1>2. /\ h \in Holders /\ FcgOf(h) = f /\ HeldBy[h] = -1 /\ PagesBy \in [Holders -> Nat]
    BY <1>1, Typed DEF Fits
  <1>3. q # <<>>
    BY OneIsFree
  <1>4. g = Head(q) /\ Rest(q) = Tail(q)
    BY <1>3 DEF Popped, Rest
  <1>5. /\ g \in Fbgs /\ FirstWritten(nand, f, g, 0)
        /\ Kept(nand, [FBG_Queue EXCEPT ![f] = Rest(@)], [HeldBy EXCEPT ![h] = g], [PagesBy EXCEPT ![h] = 0])
    <2> HIDE DEF h, g
    <2> QED BY <1>1, <1>2, <1>3, <1>4, Takes
  <1> HIDE DEF g
  <1>6. /\ nand \in [Banks -> Chip] /\ IsLog(nand) /\ Open_Zone_Cnt \in Int
        /\ buffer[zone] \in [0 .. NSECT - 1 -> Data \cup {Zero}]
        /\ Z2FBG[zone] \in Fbgs \cup {-1} /\ Z2LogFBG[zone] \in Fbgs \cup {-1}
        /\ ZD[zone] \in [state : States, wp : 0 .. ZONE_SIZE]
    BY <1>1 DEF Kept, Followed, Tables
  <1> DEFINE a == At(zone)
  <1>7. a \in Calls /\ a.zone = zone /\ a.nand = nand /\ a.cnt = Open_Zone_Cnt /\ a.buf = buffer[zone]
    BY <1>6 DEF At, Calls
  <1> HIDE DEF a
  <1>8. c = [a EXCEPT !.fbg = g, !.log = -1, !.state = "OPEN", !.wp = 0, !.cnt = a.cnt + 1]
    BY DEF Opened, a
  <1> HIDE DEF c
  <1>9. /\ c.zone = zone /\ c.nand = nand /\ c.fbg = g /\ c.log = -1 /\ c.state = "OPEN" /\ c.wp = 0
        /\ c.cnt = Open_Zone_Cnt + 1 /\ c.buf = buffer[zone]
    BY <1>7, <1>8 DEF Calls
  <1>10. c \in Calls
    <2>1. a.cnt + 1 \in Int /\ 0 \in 0 .. ZONE_SIZE /\ "OPEN" \in States
      BY <1>6, <1>7, Sizes DEF States
    <2>2. \A x \in Calls, n \in Int : [x EXCEPT !.fbg = g, !.log = -1, !.state = "OPEN", !.wp = 0, !.cnt = n] \in Calls
      BY <1>5, <2>1 DEF Calls
    <2> QED BY <1>7, <1>8, <2>1, <2>2
  <1>11. \A i \in 0 .. NSECT - 1 : ~(i < 0)
    BY Sizes
  <1>12. Working(c, g)
    BY <1>5, <1>6, <1>9, <1>10, <1>11, ZonePages, Sizes DEF Working
  <1> QED BY <1>5, <1>9, <1>12 DEF c, g

\* What the sectors of a zone that are copied hold.
LEMMA FullBlock ==
    ASSUME IndInv, NEW zone \in Zones, ZD[zone].state = "FULL" \/ Z2LogFBG[zone] # -1, NEW s \in Sectors
    PROVE  Stored(zone, Z2FBG[zone], s) \in Data /\ Z2FBG[zone] \in Fbgs
  <1>1. /\ Tables /\ Kept(nand, FBG_Queue, HeldBy, PagesBy)
        /\ Fits(ZD[zone], Z2FBG[zone], Z2LogFBG[zone], buffer[zone])
    BY DEF IndInv, AllFit
  <1>2. /\ <<zone, "data">> \in Holders /\ FcgOf(<<zone, "data">>) = zone_to_fcg(zone)
        /\ HeldBy[<<zone, "data">>] = Z2FBG[zone] /\ Z2FBG[zone] \in Fbgs \cup {-1}
        /\ PagesBy[<<zone, "data">>] = IF Z2LogFBG[zone] # -1 THEN DEG_ZONE * NPAGE ELSE ZD[zone].wp \div NSECT
    BY <1>1, Typed DEF Tables
  <1>3. Z2FBG[zone] # -1 /\ PagesBy[<<zone, "data">>] = DEG_ZONE * NPAGE
    BY <1>1, <1>2, ZonePages DEF Fits
  <1>4. /\ nand \in [Banks -> Chip] /\ IsLog(nand)
        /\ FirstWritten(nand, zone_to_fcg(zone), Z2FBG[zone], DEG_ZONE * NPAGE)
    BY <1>1, <1>2, <1>3 DEF Kept, Followed
  <1>5. s \div NSECT < DEG_ZONE * NPAGE /\ DEG_ZONE * NPAGE \in Nat
    <2> DEFINE A == DEG_ZONE * NPAGE
    <2>1. A \in Nat /\ ZONE_SIZE = A * NSECT
      BY ZonePages DEF ZONE_SIZE
    <2> HIDE DEF A
    <2>2. s \in 0 .. A * NSECT - 1
      BY <2>1 DEF Sectors
    <2>3. s \div NSECT \in 0 .. A - 1
      BY <2>1, <2>2, Sizes, DivMod
    <2>4. s \div NSECT < A
      BY <2>1, <2>3
    <2> QED BY <2>1, <2>4 DEF A
  <1> QED BY <1>2, <1>3, <1>4, <1>5, StoredThere

\* A log takes over the sectors up to the end of a run.
LEMMA Copies ==
    ASSUME IndInv, NEW zone \in Zones, ZD[zone].state = "FULL" \/ Z2LogFBG[zone] # -1,
           NEW c, NEW log, Working(c, log), c.zone = zone, c.fbg = Z2FBG[zone],
           NEW map \in [Sectors -> {0, 1}]
    PROVE  LET n == RunEnd(map, c.wp) - c.wp IN
           n \in Nat /\ c.wp + n = RunEnd(map, c.wp) /\ Working(CopyOff(c, map), log)
           /\ Further(c, CopyOff(c, map), log, n)
  <1> DEFINE e == RunEnd(map, c.wp)
             n == e - c.wp
             words == [i \in 1 .. n |-> Stored(c.zone, Source(c), c.wp + i - 1)]
  <1>1. c.wp \in 0 .. ZONE_SIZE
    BY DEF Working, Calls
  <1>2. e \in c.wp .. ZONE_SIZE
    BY <1>1, RunFacts
  <1> HIDE DEF e
  <1>3. n \in Nat /\ c.wp + n = e /\ e <= ZONE_SIZE /\ c.wp \in Nat /\ ZONE_SIZE \in Nat
    BY <1>1, <1>2, Sizes
  <1>4. ASSUME NEW i \in 1 .. n PROVE words[i] \in Data
    <2>1. c.wp + i - 1 \in Sectors
      BY <1>2, <1>3 DEF Sectors
    <2> QED BY <2>1, FullBlock DEF Source
  <1> HIDE DEF n
  <1>5. words \in Seq(Data) /\ Len(words) = n
    <2>1. words \in [1 .. n -> Data]
      BY <1>4
    <2> HIDE DEF words
    <2> QED BY <1>3, <2>1
  <1>6. CopyOff(c, map) = PutAll(c, words)
    BY DEF CopyOff, n, e
  <1> HIDE DEF words
  <1>7. Working(PutAll(c, words), log) /\ Further(c, PutAll(c, words), log, n)
    BY <1>3, <1>5, PutAllFacts
  <1> QED BY <1>3, <1>6, <1>7 DEF n, e

\* The words of a call.
LEMMA WordsFit ==
    ASSUME Tables, NEW zone \in Zones, NEW n \in 1 .. ZONE_SIZE - ZD[zone].wp, NEW word \in Word
    PROVE  /\ Written(zone, n, word) \in Seq(Data) /\ Len(Written(zone, n, word)) = n
           /\ n \in Nat \ {0} /\ ZD[zone].wp + n <= ZONE_SIZE
  <1> DEFINE wp == ZD[zone].wp
             words == [i \in 1 .. n |-> <<zone, wp + i - 1, word>>]
  <1>1. wp \in 0 .. ZONE_SIZE
    BY DEF Tables
  <1> HIDE DEF wp
  <1>2. n \in Nat \ {0} /\ wp + n <= ZONE_SIZE /\ \A i \in 1 .. n : wp + i - 1 \in Sectors
    BY <1>1, Sizes DEF Sectors, wp
  <1>3. words \in [1 .. n -> Data]
    BY <1>2 DEF Data
  <1> HIDE DEF words
  <1>4. words \in Seq(Data) /\ Len(words) = n
    BY <1>2, <1>3
  <1> QED BY <1>2, <1>4 DEF words, wp, Written

-----------------------------------------------------------------------------
\* The invariant holds at first.
LEMMA InitHolds == Init => IndInv
  <1> SUFFICES ASSUME Init PROVE IndInv
    OBVIOUS
  <1>0. /\ nand = [bank \in Banks |-> EmptyBank]
        /\ FBG_Queue = [fcg \in Fcgs |-> [i \in 1 .. NBLK |-> i - 1]]
        /\ Open_Zone_Cnt = 0
        /\ Z2FBG = [zone \in Zones |-> -1] /\ Z2LogFBG = [zone \in Zones |-> -1]
        /\ ZD = [zone \in Zones |-> [state |-> "EMPTY", wp |-> 0]]
        /\ buffer = [zone \in Zones |-> NoBuffer]
        /\ zone_valid_map = [zone \in Zones |-> NoMap]
    BY DEF Init
  <1>1. Tables
    <2>1. NoBuffer \in [0 .. NSECT - 1 -> Data \cup {Zero}]
      BY DEF NoBuffer
    <2>2. [state |-> "EMPTY", wp |-> 0] \in [state : States, wp : 0 .. ZONE_SIZE]
      BY Sizes DEF States
    <2> QED BY <1>0, <2>1, <2>2 DEF Tables
  <1>2. AllFit
    BY <1>0, Forgotten DEF AllFit
  <1>3. OpenZones = {} /\ LogZones = {}
    BY <1>0 DEF OpenZones, LogZones, InUse
  <1>4. Counts
    BY <1>0, <1>3, FS_EmptySet, Sizes DEF Counts
  <1>5. \A h \in Holders : HeldBy[h] = -1
    <2> TAKE h \in Holders
    <2>1. PICK z \in Zones : h = <<z, "data">> \/ h = <<z, "log">>
      BY TwoEach
    <2>2. Z2FBG[z] = -1 /\ Z2LogFBG[z] = -1
      BY <1>0
    <2> QED BY <1>1, <2>1, <2>2, Typed
  <1> DEFINE q == [i \in 1 .. NBLK |-> i - 1]
  <1>6. /\ q \in Seq(Fbgs) /\ Len(q) = NBLK /\ \A i \in 1 .. NBLK : q[i] = i - 1
    <2>1. q \in [1 .. NBLK -> Fbgs]
      BY Sizes DEF Fbgs
    <2> QED BY <2>1, Sizes
  <1>7. \A fcg \in Fcgs : FBG_Queue[fcg] = q
    BY <1>0
  <1>8. FBG_Queue \in [Fcgs -> Seq(Fbgs)]
    <2> HIDE DEF q
    <2>1. FBG_Queue = [fcg \in Fcgs |-> q]
      BY <1>0 DEF q
    <2> QED BY <1>6, <2>1
  <1> HIDE DEF q
  <1>9. Owned(FBG_Queue, HeldBy)
    <2>1. \A fcg \in Fcgs : \A i, j \in 1 .. Len(FBG_Queue[fcg]) : FBG_Queue[fcg][i] = FBG_Queue[fcg][j] => i = j
      BY <1>6, <1>7, Sizes
    <2>2. -1 \notin Fbgs
      BY Sizes DEF Fbgs
    <2>3. \A h \in Holders : \A i \in 1 .. Len(FBG_Queue[FcgOf(h)]) : FBG_Queue[FcgOf(h)][i] # HeldBy[h]
      BY <1>5, <1>6, <1>7, <2>2, HolderType
    <2>4. ASSUME NEW fcg \in Fcgs, NEW fbg \in Fbgs
          PROVE  \E i \in 1 .. Len(FBG_Queue[fcg]) : FBG_Queue[fcg][i] = fbg
      <3>1. fbg + 1 \in 1 .. NBLK /\ (fbg + 1) - 1 = fbg
        BY Sizes DEF Fbgs
      <3> QED BY <1>6, <1>7, <3>1
    <2>5. HeldBy \in [Holders -> Fbgs \cup {-1}]
      BY <1>1, Typed
    <2>6. \A h, k \in Holders : HeldBy[h] # -1 => h = k
      BY <1>5
    <2> QED BY <1>8, <2>1, <2>3, <2>4, <2>5, <2>6 DEF Owned
  <1>10. \A bank \in Banks : nand[bank] = EmptyBank
    BY <1>0
  <1>11. EmptyBank \in Chip /\ nand \in [Banks -> Chip]
    <2>1. EmptyBank.cell \in [Ppns -> Page \cup {Erased}] /\ EmptyBank.blk_index \in [Fbgs -> 0 .. NPAGE]
      BY Sizes DEF EmptyBank, Blks, Fbgs
    <2>2. EmptyBank \in Chip
      BY <2>1 DEF EmptyBank, Chip
    <2> QED BY <1>0, <2>2
  <1>12. /\ \A blk \in Fbgs : EmptyBank.blk_index[blk] = 0
         /\ \A ppn \in Ppns : EmptyBank.cell[ppn] = Erased
    BY DEF EmptyBank, Blks, Fbgs
  <1>13. IsLog(nand)
    <2> SUFFICES ASSUME NEW bank \in Banks, NEW blk \in Fbgs, NEW page \in Pages
                 PROVE  nand[bank].cell[Ppn(blk, page)] # Erased <=> page < nand[bank].blk_index[blk]
      BY DEF IsLog
    <2>1. ~(page < 0)
      BY Sizes DEF Pages
    <2> QED BY <1>10, <1>12, <2>1, PpnFacts
  <1>14. ASSUME NEW fcg \in Fcgs, NEW fbg \in Fbgs PROVE FirstWritten(nand, fcg, fbg, 0)
    <2> SUFFICES ASSUME NEW bank \in BanksOf(fcg), NEW page \in Pages
                 PROVE  page < nand[bank].blk_index[fbg] <=> PageNo(bank, page) < 0
      BY DEF FirstWritten
    <2>1. bank \in Banks /\ bank \in Nat /\ page \in Nat /\ bank % DEG_ZONE \in Nat
      <3>1. bank \in Banks /\ bank \in Nat /\ page \in Nat
        BY Sizes DEF BanksOf, Banks, Pages
      <3> QED BY <3>1, Sizes, DivMod
    <2>2. \A a, b, c \in Nat : ~(a * b + c < 0)
      OBVIOUS
    <2>3. ~(PageNo(bank, page) < 0)
      BY <2>1, <2>2, Sizes DEF PageNo
    <2>4. ~(page < 0)
      BY <2>1
    <2> QED BY <1>10, <1>12, <2>1, <2>3, <2>4
  <1>15. Followed(nand, FBG_Queue, HeldBy, PagesBy)
    <2>1. ASSUME NEW fcg \in Fcgs, NEW i \in 1 .. Len(FBG_Queue[fcg])
          PROVE  FirstWritten(nand, fcg, FBG_Queue[fcg][i], 0)
      <3>1. FBG_Queue[fcg][i] \in Fbgs
        BY <1>8, <2>1
      <3> QED BY <1>14, <3>1
    <2> QED BY <1>5, <1>11, <1>13, <2>1 DEF Followed
  <1> QED BY <1>1, <1>2, <1>4, <1>9, <1>15 DEF IndInv, Kept

-----------------------------------------------------------------------------
\* What every call that writes one zone leaves: c is at work when the zone is
\* counted as open, and d when the call ends.
LEMMA OneZone ==
    ASSUME IndInv, NEW zone \in Zones, NEW c, NEW d, NEW fbg, NEW n,
           Working(d, fbg), Further(c, d, fbg, n), c.zone = zone, c.wp # ZONE_SIZE,
           c.state \in {"OPEN", "TLOPEN"}, c.fbg # -1, c.state = "OPEN" => c.log = -1,
           c.cnt = Cardinality(OpenZones \cup {zone}), c.cnt <= MAX_OPEN_ZONE,
           Leaves(d),
           Z2FBG' = [Z2FBG EXCEPT ![zone] = c.fbg], Z2LogFBG' = [Z2LogFBG EXCEPT ![zone] = c.log],
           Cardinality(LogZones') <= MAX_OPEN_ZONE,
           zone_valid_map' \in [Zones -> {NoMap} \cup TLMaps]
    PROVE  Tables' /\ AllFit' /\ Counts'
  <1>1. Tables /\ AllFit /\ Counts
    BY DEF IndInv
  <1>2. /\ d \in Calls /\ d.zone = zone /\ d.fbg = c.fbg /\ d.log = c.log
        /\ d.state = IF d.wp = ZONE_SIZE THEN "FULL" ELSE c.state
        /\ d.cnt = IF d.wp = ZONE_SIZE THEN c.cnt - 1 ELSE c.cnt
    BY DEF Working, Further
  <1>3. /\ ZD' = [ZD EXCEPT ![zone] = [state |-> d.state, wp |-> d.wp]]
        /\ buffer' = [buffer EXCEPT ![zone] = d.buf]
        /\ Open_Zone_Cnt' = d.cnt
    BY <1>2 DEF Leaves
  <1>4. Tables'
    BY <1>1, <1>2, <1>3 DEF Tables, Calls
  <1>5. AllFit'
    <2> SUFFICES ASSUME NEW z \in Zones
                 PROVE  Fits(ZD'[z], Z2FBG'[z], Z2LogFBG'[z], buffer'[z])
      BY DEF AllFit
    <2>1. CASE z = zone
      <3>1. Fits([state |-> d.state, wp |-> d.wp], d.fbg, d.log, d.buf)
        BY <1>2, Leftover
      <3> QED BY <1>1, <1>2, <1>3, <2>1, <3>1 DEF Tables
    <2>2. CASE z # zone
      BY <1>1, <1>3, <2>2 DEF Tables, AllFit
    <2> QED BY <2>1, <2>2
  <1>6. Counts'
    <2> DEFINE all == OpenZones \cup {zone}
    <2>1. \A z \in Zones : z # zone => ZD'[z] = ZD[z]
      BY <1>1, <1>3 DEF Tables
    <2>2. ZD'[zone].state = d.state
      BY <1>1, <1>3 DEF Tables
    <2>3. all \in SUBSET Zones /\ zone \in all
      BY DEF OpenZones
    <2>4. OpenZones' = IF d.wp = ZONE_SIZE THEN all \ {zone} ELSE all
      BY <1>2, <2>1, <2>2 DEF OpenZones, InUse
    <2>5. Cardinality(all \ {zone}) = Cardinality(all) - 1 /\ Cardinality(all) \in Nat
      BY <2>3, CountAfter
    <2> HIDE DEF all
    <2>6. c.cnt = Cardinality(all)
      BY DEF all
    <2> QED BY <1>2, <1>3, <2>4, <2>5, <2>6, Sizes DEF Counts
  <1> QED BY <1>4, <1>5, <1>6

-----------------------------------------------------------------------------
\* The next state keeps what the call has kept, if both name the same holders.
LEMMA KeptNext ==
    ASSUME Tables', NEW chips, NEW queues, NEW held, NEW pages \in [Holders -> Nat],
           Kept(chips, queues, held, pages),
           nand' = chips, FBG_Queue' = queues,
           \A z \in Zones :
               /\ held[<<z, "data">>] = Z2FBG'[z] /\ held[<<z, "log">>] = Z2LogFBG'[z]
               /\ Z2FBG'[z] # -1 => pages[<<z, "data">>] =
                     IF Z2LogFBG'[z] # -1 THEN DEG_ZONE * NPAGE ELSE ZD'[z].wp \div NSECT
               /\ Z2LogFBG'[z] # -1 => pages[<<z, "log">>] = ZD'[z].wp \div NSECT
    PROVE  Kept(nand', FBG_Queue', HeldBy', PagesBy')
  <1>1. held \in [Holders -> Fbgs \cup {-1}] /\ HeldBy' \in [Holders -> Fbgs \cup {-1}]
    BY TypedNext DEF Kept, Owned
  <1>0. \A z \in Zones :
           /\ HeldBy'[<<z, "data">>] = Z2FBG'[z] /\ HeldBy'[<<z, "log">>] = Z2LogFBG'[z]
           /\ PagesBy'[<<z, "data">>] =
                 IF Z2LogFBG'[z] # -1 THEN DEG_ZONE * NPAGE ELSE ZD'[z].wp \div NSECT
           /\ PagesBy'[<<z, "log">>] = ZD'[z].wp \div NSECT
    BY TypedNext
  <1>2. held = HeldBy'
    <2>1. ASSUME NEW h \in Holders PROVE held[h] = HeldBy'[h]
      <3>1. PICK z \in Zones : h = <<z, "data">> \/ h = <<z, "log">>
        BY TwoEach
      <3>2. CASE h = <<z, "data">>
        BY <1>0, <3>2
      <3>3. CASE h = <<z, "log">>
        BY <1>0, <3>3
      <3> QED BY <3>1, <3>2, <3>3
    <2> QED BY <1>1, <2>1
  <1>3. ASSUME NEW h \in Holders, held[h] # -1 PROVE PagesBy'[h] = pages[h]
    <2>1. PICK z \in Zones : h = <<z, "data">> \/ h = <<z, "log">>
      BY TwoEach
    <2>2. CASE h = <<z, "data">>
      BY <1>0, <1>3, <2>2
    <2>3. CASE h = <<z, "log">>
      BY <1>0, <1>3, <2>3
    <2> QED BY <2>1, <2>2, <2>3
  <1>4. Kept(chips, queues, held, PagesBy')
    BY <1>3, SamePages
  <1> QED BY <1>2, <1>4

\* zns_write.
LEMMA WriteHolds ==
    ASSUME IndInv, NEW zone \in Zones, NEW n \in 1 .. ZONE_SIZE - ZD[zone].wp, NEW word \in Word,
           Write(zone, Written(zone, n, word))
    PROVE  IndInv'
  <1> DEFINE f == zone_to_fcg(zone)
             h == <<zone, "data">>
             words == Written(zone, n, word)
             open == ZD[zone].state = "EMPTY"
             g == IF open THEN Popped(FBG_Queue[f]) ELSE Z2FBG[zone]
             c == IF open THEN Opened(zone, Popped(FBG_Queue[f])) ELSE At(zone)
             d == PutAll(c, words)
             held  == [HeldBy EXCEPT ![h] = g]
             pages == IF open THEN [PagesBy EXCEPT ![h] = 0] ELSE PagesBy
             queues == IF open THEN [FBG_Queue EXCEPT ![f] = Rest(@)] ELSE FBG_Queue
  <1>1. /\ Tables /\ AllFit /\ Counts /\ Kept(nand, FBG_Queue, HeldBy, PagesBy)
        /\ Fits(ZD[zone], Z2FBG[zone], Z2LogFBG[zone], buffer[zone])
    BY DEF IndInv, AllFit
  <1>2. /\ (open /\ Open_Zone_Cnt < MAX_OPEN_ZONE) \/ (ZD[zone].state = "OPEN" /\ ~open)
        /\ Leaves(d) /\ nand' = d.nand /\ Z2FBG' = [Z2FBG EXCEPT ![zone] = d.fbg]
        /\ FBG_Queue' = queues /\ Z2LogFBG' = Z2LogFBG /\ zone_valid_map' = zone_valid_map
    BY DEF Write
  <1>3. /\ h \in Holders /\ FcgOf(h) = f /\ HeldBy \in [Holders -> Fbgs \cup {-1}] /\ PagesBy \in [Holders -> Nat]
        /\ HeldBy[h] = Z2FBG[zone] /\ Z2LogFBG[zone] = -1
    BY <1>1, <1>2, Typed DEF Fits
  <1>4. /\ Working(c, g) /\ g \in Fbgs /\ g # -1
        /\ c.zone = zone /\ c.nand = nand /\ c.fbg = g /\ c.log = -1 /\ c.state = "OPEN"
        /\ c.wp # ZONE_SIZE /\ c.wp = ZD[zone].wp
        /\ c.cnt = Cardinality(OpenZones \cup {zone}) /\ c.cnt <= MAX_OPEN_ZONE
        /\ Kept(nand, queues, held, pages)
    <2>0. /\ OpenZones \in SUBSET Zones /\ (zone \in OpenZones <=> InUse(zone))
          /\ -1 \notin Fbgs
      BY Sizes DEF OpenZones, Fbgs
    <2>1. CASE open
      <3>1. /\ g \in Fbgs /\ Working(c, g)
            /\ c.zone = zone /\ c.nand = nand /\ c.fbg = g /\ c.log = -1 /\ c.state = "OPEN" /\ c.wp = 0
            /\ c.cnt = Open_Zone_Cnt + 1
            /\ Kept(nand, queues, held, pages)
        BY <2>1, Opens
      <3>2. ZD[zone].wp = 0 /\ 0 # ZONE_SIZE /\ ~InUse(zone) /\ Open_Zone_Cnt < MAX_OPEN_ZONE
        BY <1>1, <1>2, <2>1, Sizes DEF Fits, InUse
      <3>3. Open_Zone_Cnt + 1 = Cardinality(OpenZones \cup {zone})
        BY <1>1, <2>0, <3>2, CountAfter DEF Counts
      <3>4. Open_Zone_Cnt + 1 <= MAX_OPEN_ZONE
        BY <1>1, <3>2, Sizes DEF Tables
      <3> HIDE DEF c, g, held, pages, queues
      <3> QED BY <2>0, <3>1, <3>2, <3>3, <3>4
    <2>2. CASE ~open
      <3>1. ZD[zone].state = "OPEN" /\ InUse(zone)
        BY <1>2, <2>2 DEF InUse
      <3>2. /\ Working(At(zone), HeldBy[h]) /\ At(zone).wp # ZONE_SIZE /\ HeldBy[h] \in Fbgs
        BY <3>1, Continues
      <3>3. /\ At(zone).zone = zone /\ At(zone).nand = nand /\ At(zone).fbg = Z2FBG[zone]
            /\ At(zone).log = Z2LogFBG[zone] /\ At(zone).state = "OPEN" /\ At(zone).wp = ZD[zone].wp
            /\ At(zone).cnt = Open_Zone_Cnt
        BY <3>1 DEF At
      <3>4. Open_Zone_Cnt = Cardinality(OpenZones \cup {zone}) /\ Open_Zone_Cnt <= MAX_OPEN_ZONE
        BY <1>1, <2>0, <3>1, CountAfter DEF Counts
      <3>5. held = HeldBy
        BY <1>3, <2>2
      <3> QED BY <1>1, <1>3, <2>0, <2>2, <3>2, <3>3, <3>4, <3>5
    <2> QED BY <2>1, <2>2
  <1>5. pages \in [Holders -> Nat] /\ \A k \in Holders : k # h => pages[k] = PagesBy[k]
    BY <1>3
  <1>6. held[h] = g /\ \A k \in Holders : k # h => held[k] = HeldBy[k]
    BY <1>3
  <1>7. words \in Seq(Data) /\ Len(words) = n /\ c.wp + n <= ZONE_SIZE
    BY <1>1, <1>4, WordsFit
  <1> HIDE DEF words, c, queues, held, pages, g, h
  <1>8. Working(d, g) /\ Further(c, d, g, n)
    BY <1>4, <1>7, PutAllFacts
  <1> HIDE DEF d
  <1>9. d.fbg = c.fbg /\ d.zone = zone /\ d.wp \in 0 .. ZONE_SIZE
    BY <1>4, <1>8 DEF Further, Working, Calls
  <1>10. Z2LogFBG' = [Z2LogFBG EXCEPT ![zone] = c.log] /\ LogZones' = LogZones
    BY <1>1, <1>2, <1>3, <1>4 DEF Tables, LogZones
  <1>11. Tables' /\ AllFit' /\ Counts'
    <2>1. Cardinality(LogZones') <= MAX_OPEN_ZONE
      BY <1>1, <1>10 DEF Counts
    <2>2. zone_valid_map' \in [Zones -> {NoMap} \cup TLMaps]
      BY <1>1, <1>2 DEF Tables
    <2>3. Z2FBG' = [Z2FBG EXCEPT ![zone] = c.fbg] /\ c.fbg # -1
      BY <1>2, <1>4, <1>9
    <2> QED BY <1>2, <1>4, <1>8, <1>10, <2>1, <2>2, <2>3, OneZone
  <1> DEFINE after == [pages EXCEPT ![h] = d.wp \div NSECT]
  <1>12. Kept(d.nand, queues, held, after)
    <2>1. Kept(c.nand, queues, held, pages) /\ FcgOf(h) = zone_to_fcg(c.zone)
      BY <1>3, <1>4
    <2>2. held[h] = g /\ h \in Holders /\ pages \in [Holders -> Nat]
      BY <1>3, <1>5, <1>6
    <2> QED BY <1>8, <2>1, <2>2, Works
  <1>13. after \in [Holders -> Nat]
    BY <1>5, <1>9, ZonePages
  <1>14. after[h] = d.wp \div NSECT /\ \A k \in Holders : k # h => after[k] = PagesBy[k]
    BY <1>3, <1>5
  <1> HIDE DEF after
  <1>15. ASSUME NEW z \in Zones
         PROVE  /\ held[<<z, "data">>] = Z2FBG'[z] /\ held[<<z, "log">>] = Z2LogFBG'[z]
                /\ Z2FBG'[z] # -1 => after[<<z, "data">>] =
                      IF Z2LogFBG'[z] # -1 THEN DEG_ZONE * NPAGE ELSE ZD'[z].wp \div NSECT
                /\ Z2LogFBG'[z] # -1 => after[<<z, "log">>] = ZD'[z].wp \div NSECT
    <2>1. ZD' = [ZD EXCEPT ![zone] = [state |-> d.state, wp |-> d.wp]]
      BY <1>2, <1>9 DEF Leaves
    <2>2. /\ <<z, "data">> \in Holders /\ <<z, "log">> \in Holders /\ <<z, "log">> # h
          /\ HeldBy[<<z, "data">>] = Z2FBG[z] /\ HeldBy[<<z, "log">>] = Z2LogFBG[z]
          /\ PagesBy[<<z, "data">>] = (IF Z2LogFBG[z] # -1 THEN DEG_ZONE * NPAGE ELSE ZD[z].wp \div NSECT)
          /\ PagesBy[<<z, "log">>] = ZD[z].wp \div NSECT
          /\ (z # zone => <<z, "data">> # h)
      BY <1>1, Typed DEF h
    <2>3. CASE z = zone
      <3>1. Z2FBG'[z] = g /\ ZD'[z].wp = d.wp /\ Z2LogFBG'[z] = -1 /\ h = <<z, "data">>
        BY <1>1, <1>2, <1>3, <1>4, <1>9, <2>1, <2>3 DEF Tables, h
      <3> QED BY <1>2, <1>6, <1>14, <2>2, <3>1
    <2>4. CASE z # zone
      <3>1. Z2FBG'[z] = Z2FBG[z] /\ ZD'[z] = ZD[z] /\ Z2LogFBG'[z] = Z2LogFBG[z]
        BY <1>1, <1>2, <2>1, <2>4 DEF Tables
      <3> QED BY <1>6, <1>14, <2>2, <2>4, <3>1
    <2> QED BY <2>3, <2>4
  <1>16. Kept(nand', FBG_Queue', HeldBy', PagesBy')
    BY <1>2, <1>11, <1>12, <1>13, <1>15, KeptNext
  <1> QED BY <1>11, <1>16 DEF IndInv

\* The bitmap of a zone.
LEMMA MapType == \A map \in {NoMap} \cup TLMaps : map \in [Sectors -> {0, 1}]
  BY ZnsAssumption DEF ZnsAssumption, NoMap

\* zns_tl_write: the host's sectors, then those that the log copies.
LEMMA TLWriteHolds ==
    ASSUME IndInv, NEW zone \in Zones, NEW n \in 1 .. ZONE_SIZE - ZD[zone].wp, NEW word \in Word,
           TLWrite(zone, Written(zone, n, word))
    PROVE  IndInv'
  <1> DEFINE f == zone_to_fcg(zone)
             h == <<zone, "log">>
             words == Written(zone, n, word)
             g == Z2LogFBG[zone]
             map == zone_valid_map[zone]
             c == At(zone)
             b == PutAll(c, words)
             d == CopyOff(b, map)
             m == RunEnd(map, b.wp) - b.wp
  <1>1. /\ Tables /\ AllFit /\ Counts /\ Kept(nand, FBG_Queue, HeldBy, PagesBy)
        /\ Fits(ZD[zone], Z2FBG[zone], Z2LogFBG[zone], buffer[zone])
    BY DEF IndInv, AllFit
  <1>2. /\ ZD[zone].state = "TLOPEN" /\ InUse(zone)
        /\ Leaves(d) /\ nand' = d.nand
        /\ FBG_Queue' = FBG_Queue /\ Z2FBG' = Z2FBG /\ Z2LogFBG' = Z2LogFBG
        /\ zone_valid_map' = zone_valid_map
    BY DEF TLWrite, InUse
  <1>3. /\ h \in Holders /\ FcgOf(h) = f /\ HeldBy \in [Holders -> Fbgs \cup {-1}] /\ PagesBy \in [Holders -> Nat]
        /\ HeldBy[h] = g
    BY <1>1, Typed
  <1>4. Working(c, g) /\ c.wp # ZONE_SIZE /\ g \in Fbgs
    BY <1>2, <1>3, Continues
  <1>5. /\ c.zone = zone /\ c.nand = nand /\ c.fbg = Z2FBG[zone] /\ c.log = g /\ c.state = "TLOPEN"
        /\ c.wp = ZD[zone].wp /\ c.cnt = Open_Zone_Cnt
    BY <1>2 DEF At
  <1>6. Z2FBG[zone] # -1 /\ g # -1
    BY <1>1, <1>2 DEF Fits
  <1>7. words \in Seq(Data) /\ Len(words) = n /\ c.wp + n <= ZONE_SIZE
    BY <1>1, <1>5, WordsFit
  <1>8. map \in [Sectors -> {0, 1}]
    BY <1>1, MapType DEF Tables
  <1> HIDE DEF words, c, map, g, h
  <1>9. Working(b, g) /\ Further(c, b, g, n)
    BY <1>4, <1>7, PutAllFacts
  <1> HIDE DEF b
  <1>10. b.zone = zone /\ b.fbg = Z2FBG[zone]
    BY <1>5, <1>9 DEF Further
  <1>11. m \in Nat /\ Working(d, g) /\ Further(b, d, g, m)
    BY <1>6, <1>8, <1>9, <1>10, Copies DEF g
  <1> HIDE DEF m, d
  <1>12. Further(c, d, g, n + m)
    <2>1. n \in Nat
      OBVIOUS
    <2> QED BY <1>4, <1>9, <1>11, <2>1, FurtherTwice
  <1>13. d.fbg = c.fbg /\ d.zone = zone /\ d.wp \in 0 .. ZONE_SIZE
    BY <1>5, <1>11, <1>12 DEF Further, Working, Calls
  <1>14. c.cnt = Cardinality(OpenZones \cup {zone}) /\ c.cnt <= MAX_OPEN_ZONE
    <2>1. OpenZones \in SUBSET Zones /\ zone \in OpenZones
      BY <1>2 DEF OpenZones
    <2> QED BY <1>1, <1>5, <2>1, CountAfter DEF Counts
  <1>15. Tables' /\ AllFit' /\ Counts'
    <2>1. Z2LogFBG' = [Z2LogFBG EXCEPT ![zone] = c.log] /\ LogZones' = LogZones
      BY <1>1, <1>2, <1>5 DEF Tables, LogZones, g
    <2>2. Cardinality(LogZones') <= MAX_OPEN_ZONE
      BY <1>1, <2>1 DEF Counts
    <2>3. zone_valid_map' \in [Zones -> {NoMap} \cup TLMaps]
      BY <1>1, <1>2 DEF Tables
    <2>4. Z2FBG' = [Z2FBG EXCEPT ![zone] = c.fbg] /\ c.fbg # -1
      BY <1>1, <1>2, <1>5, <1>6 DEF Tables
    <2>5. c.state \in {"OPEN", "TLOPEN"} /\ (c.state = "OPEN" => c.log = -1)
      BY <1>5
    <2> QED BY <1>2, <1>4, <1>5, <1>11, <1>12, <1>14, <2>1, <2>2, <2>3, <2>4, <2>5, OneZone
  <1> DEFINE after == [PagesBy EXCEPT ![h] = d.wp \div NSECT]
  <1>16. Kept(d.nand, FBG_Queue, HeldBy, after)
    <2>1. Kept(c.nand, FBG_Queue, HeldBy, PagesBy) /\ FcgOf(h) = zone_to_fcg(c.zone)
      BY <1>1, <1>3, <1>5
    <2> QED BY <1>3, <1>11, <1>12, <2>1, Works
  <1>17. after \in [Holders -> Nat]
    BY <1>3, <1>13, ZonePages
  <1>18. after[h] = d.wp \div NSECT /\ \A k \in Holders : k # h => after[k] = PagesBy[k]
    BY <1>3
  <1> HIDE DEF after
  <1>19. ASSUME NEW z \in Zones
         PROVE  /\ HeldBy[<<z, "data">>] = Z2FBG'[z] /\ HeldBy[<<z, "log">>] = Z2LogFBG'[z]
                /\ Z2FBG'[z] # -1 => after[<<z, "data">>] =
                      IF Z2LogFBG'[z] # -1 THEN DEG_ZONE * NPAGE ELSE ZD'[z].wp \div NSECT
                /\ Z2LogFBG'[z] # -1 => after[<<z, "log">>] = ZD'[z].wp \div NSECT
    <2>1. ZD' = [ZD EXCEPT ![zone] = [state |-> d.state, wp |-> d.wp]]
      BY <1>2, <1>13 DEF Leaves
    <2>2. /\ <<z, "data">> \in Holders /\ <<z, "log">> \in Holders /\ <<z, "data">> # h
          /\ HeldBy[<<z, "data">>] = Z2FBG[z] /\ HeldBy[<<z, "log">>] = Z2LogFBG[z]
          /\ PagesBy[<<z, "data">>] = (IF Z2LogFBG[z] # -1 THEN DEG_ZONE * NPAGE ELSE ZD[z].wp \div NSECT)
          /\ PagesBy[<<z, "log">>] = ZD[z].wp \div NSECT
          /\ (z # zone => <<z, "log">> # h)
      BY <1>1, Typed DEF h
    <2>3. CASE z = zone
      <3>1. ZD'[z].wp = d.wp /\ h = <<z, "log">> /\ Z2LogFBG[z] # -1
        BY <1>1, <1>6, <2>1, <2>3 DEF Tables, h, g
      <3> QED BY <1>2, <1>18, <2>2, <3>1
    <2>4. CASE z # zone
      <3>1. ZD'[z] = ZD[z]
        BY <1>1, <2>1, <2>4 DEF Tables
      <3> QED BY <1>2, <1>18, <2>2, <2>4, <3>1
    <2> QED BY <2>3, <2>4
  <1>20. Kept(nand', FBG_Queue', HeldBy', PagesBy')
    BY <1>2, <1>15, <1>16, <1>17, <1>19, KeptNext
  <1> QED BY <1>15, <1>20 DEF IndInv

\* zns_tl_open takes a log, and copies the sectors before the first that the
\* bitmap leaves out.
LEMMA TLOpens ==
    ASSUME IndInv, NEW zone \in Zones, NEW map \in TLMaps, LeavesSome(map), NoLogLeft, TLOpen(zone, map)
    PROVE  LET f == zone_to_fcg(zone)
               h == <<zone, "log">>
               g == Popped(FBG_Queue[f])
               queues == [FBG_Queue EXCEPT ![f] = Rest(@)]
           IN  /\ Open_Zone_Cnt # MAX_OPEN_ZONE /\ ZD[zone].state = "FULL" /\ Z2LogFBG[zone] = -1
               /\ g \in Fbgs
               /\ Kept(nand, queues, [HeldBy EXCEPT ![h] = g], [PagesBy EXCEPT ![h] = 0])
               /\ \E c, d, m :
                     /\ c.zone = zone /\ c.nand = nand /\ c.fbg = Z2FBG[zone] /\ c.log = g
                     /\ c.state = "TLOPEN" /\ c.wp = 0 /\ c.cnt = Open_Zone_Cnt + 1
                     /\ Working(d, g) /\ Further(c, d, g, m)
                     /\ d.wp # ZONE_SIZE /\ d.state = "TLOPEN" /\ d.zone = zone /\ d.wp \in 0 .. ZONE_SIZE
                     /\ Leaves(d) /\ nand' = d.nand
               /\ FBG_Queue' = queues /\ Z2FBG' = Z2FBG
               /\ Z2LogFBG' = [Z2LogFBG EXCEPT ![zone] = g]
               /\ zone_valid_map' = [zone_valid_map EXCEPT ![zone] = map]
  <1> DEFINE f == zone_to_fcg(zone)
             h == <<zone, "log">>
             q == FBG_Queue[f]
             g == Popped(q)
             a == At(zone)
             c == [a EXCEPT !.log = g, !.state = "TLOPEN", !.wp = 0, !.cnt = @ + 1]
             d == CopyOff(c, map)
             m == RunEnd(map, c.wp) - c.wp
             queues == [FBG_Queue EXCEPT ![f] = Rest(@)]
             held == [HeldBy EXCEPT ![h] = g]
             pages == [PagesBy EXCEPT ![h] = 0]
  <1>1. /\ Tables /\ AllFit /\ Counts /\ Kept(nand, FBG_Queue, HeldBy, PagesBy)
        /\ Fits(ZD[zone], Z2FBG[zone], Z2LogFBG[zone], buffer[zone])
    BY DEF IndInv, AllFit
  <1>2. /\ Open_Zone_Cnt # MAX_OPEN_ZONE /\ ZD[zone].state = "FULL" /\ Z2LogFBG[zone] = -1
        /\ ZD[zone].wp = ZONE_SIZE /\ Z2FBG[zone] # -1
    BY <1>1 DEF TLOpen, NoLogLeft, Fits
  <1>3. /\ h \in Holders /\ FcgOf(h) = f /\ HeldBy[h] = -1
        /\ HeldBy \in [Holders -> Fbgs \cup {-1}] /\ PagesBy \in [Holders -> Nat]
    BY <1>1, <1>2, Typed
  <1>4. q # <<>> /\ g = Head(q) /\ Rest(q) = Tail(q)
    <2>1. q # <<>>
      BY <1>2, OneIsFree
    <2> QED BY <2>1 DEF Popped, Rest
  <1>5. /\ g \in Fbgs /\ FirstWritten(nand, f, g, 0) /\ Kept(nand, queues, held, pages)
    <2> HIDE DEF h, g
    <2> QED BY <1>1, <1>3, <1>4, Takes
  <1> HIDE DEF g
  <1>6. /\ nand \in [Banks -> Chip] /\ IsLog(nand) /\ Open_Zone_Cnt \in Int
        /\ buffer[zone] \in [0 .. NSECT - 1 -> Data \cup {Zero}]
        /\ Z2FBG[zone] \in Fbgs \cup {-1} /\ Z2LogFBG[zone] \in Fbgs \cup {-1}
        /\ ZD[zone] \in [state : States, wp : 0 .. ZONE_SIZE]
    BY <1>1 DEF Kept, Followed, Tables
  <1>7. /\ a \in Calls /\ a.zone = zone /\ a.nand = nand /\ a.cnt = Open_Zone_Cnt
        /\ a.fbg = Z2FBG[zone] /\ a.buf = buffer[zone]
    BY <1>6 DEF At, Calls
  <1> HIDE DEF a
  <1>8. /\ c.zone = zone /\ c.nand = nand /\ c.fbg = Z2FBG[zone] /\ c.log = g /\ c.state = "TLOPEN"
        /\ c.wp = 0 /\ c.cnt = Open_Zone_Cnt + 1
    BY <1>7 DEF Calls
  <1>9. c \in Calls
    <2>1. a.cnt + 1 \in Int /\ 0 \in 0 .. ZONE_SIZE /\ "TLOPEN" \in States
      BY <1>6, <1>7, Sizes DEF States
    <2> DEFINE k == a.cnt + 1
    <2>2. c = [a EXCEPT !.log = g, !.state = "TLOPEN", !.wp = 0, !.cnt = k]
      OBVIOUS
    <2> HIDE DEF c, k
    <2>3. k \in Int
      BY <2>1 DEF k
    <2>4. [a EXCEPT !.log = g, !.state = "TLOPEN", !.wp = 0, !.cnt = k] \in Calls
      BY <1>5, <1>7, <2>1, <2>3 DEF Calls
    <2> QED BY <2>2, <2>4
  <1> HIDE DEF c
  <1>10. Working(c, g)
    <2>1. \A i \in 0 .. NSECT - 1 : ~(i < 0)
      BY Sizes
    <2>2. FirstWritten(c.nand, zone_to_fcg(c.zone), g, c.wp \div NSECT)
      BY <1>5, <1>8, ZonePages
    <2>3. c.wp # ZONE_SIZE /\ c.wp % NSECT = 0 /\ IsLog(c.nand)
      BY <1>6, <1>8, ZonePages, Sizes
    <2> QED BY <1>5, <1>8, <1>9, <2>1, <2>2, <2>3 DEF Working
  <1>11. map \in [Sectors -> {0, 1}]
    BY MapType
  <1>12. /\ m \in Nat /\ c.wp + m = RunEnd(map, c.wp) /\ Working(d, g) /\ Further(c, d, g, m)
    BY <1>2, <1>8, <1>10, <1>11, Copies
  <1>13. RunEnd(map, c.wp) # ZONE_SIZE
    <2>1. PICK s \in Sectors : map[s] = 0
      BY DEF LeavesSome
    <2>2. 0 \in 0 .. ZONE_SIZE
      BY Sizes
    <2>3. \A i \in 0 .. RunEnd(map, 0) - 1 : map[i] = 1
      BY <1>11, <2>2, RunFacts
    <2>4. RunEnd(map, 0) # ZONE_SIZE
      BY <2>1, <2>3 DEF Sectors
    <2> QED BY <1>8, <2>4
  <1> HIDE DEF m
  <1>14. d.wp # ZONE_SIZE /\ d.state = "TLOPEN" /\ d.fbg = c.fbg /\ d.zone = zone /\ d.wp \in 0 .. ZONE_SIZE
         /\ d.log = g
    BY <1>8, <1>12, <1>13 DEF Further, Working, Calls
  <1>15. /\ Leaves(d) /\ nand' = d.nand /\ FBG_Queue' = queues
         /\ Z2LogFBG' = [Z2LogFBG EXCEPT ![zone] = g]
         /\ zone_valid_map' = [zone_valid_map EXCEPT ![zone] = map] /\ Z2FBG' = Z2FBG
    <2> DEFINE q1 == Rest(FBG_Queue[f])
               all == d.state = "FULL"
    <2>1. /\ Leaves(IF all THEN [d EXCEPT !.cnt = @ - 1] ELSE d)
          /\ nand' = (IF all THEN ErasedIn(d.nand, f, g) ELSE d.nand)
          /\ FBG_Queue' = [FBG_Queue EXCEPT ![f] = IF all THEN Pushed(q1, g) ELSE q1]
          /\ Z2LogFBG' = [Z2LogFBG EXCEPT ![zone] = IF all THEN -1 ELSE g]
          /\ zone_valid_map' = [zone_valid_map EXCEPT ![zone] = IF all THEN NoMap ELSE map]
          /\ Z2FBG' = Z2FBG
      BY DEF TLOpen, c, a, g
    <2>2. ~all
      BY <1>14
    <2> HIDE DEF all
    <2> QED BY <2>1, <2>2
  <1> HIDE DEF d
  <1>16. \E x, y, k :
            /\ x.zone = zone /\ x.nand = nand /\ x.fbg = Z2FBG[zone] /\ x.log = g
            /\ x.state = "TLOPEN" /\ x.wp = 0 /\ x.cnt = Open_Zone_Cnt + 1
            /\ Working(y, g) /\ Further(x, y, g, k)
            /\ y.wp # ZONE_SIZE /\ y.state = "TLOPEN" /\ y.zone = zone /\ y.wp \in 0 .. ZONE_SIZE
            /\ Leaves(y) /\ nand' = y.nand
    BY <1>8, <1>12, <1>14, <1>15
  <1>17. /\ Open_Zone_Cnt # MAX_OPEN_ZONE /\ ZD[zone].state = "FULL" /\ Z2LogFBG[zone] = -1
         /\ g \in Fbgs /\ Kept(nand, queues, held, pages)
         /\ FBG_Queue' = queues /\ Z2FBG' = Z2FBG
         /\ Z2LogFBG' = [Z2LogFBG EXCEPT ![zone] = g]
         /\ zone_valid_map' = [zone_valid_map EXCEPT ![zone] = map]
    BY <1>2, <1>5, <1>15
  <1> QED BY <1>16, <1>17 DEF g

\* zns_tl_open: a full zone takes a log, and some sectors are left to the host.
LEMMA TLOpenHolds ==
    ASSUME IndInv, NEW zone \in Zones, NEW map \in TLMaps, LeavesSome(map), NoLogLeft, TLOpen(zone, map)
    PROVE  IndInv'
  <1> DEFINE f == zone_to_fcg(zone)
             h == <<zone, "log">>
             g == Popped(FBG_Queue[f])
             queues == [FBG_Queue EXCEPT ![f] = Rest(@)]
             held == [HeldBy EXCEPT ![h] = g]
             pages == [PagesBy EXCEPT ![h] = 0]
  <1>1. /\ Tables /\ AllFit /\ Counts /\ Kept(nand, FBG_Queue, HeldBy, PagesBy)
        /\ Fits(ZD[zone], Z2FBG[zone], Z2LogFBG[zone], buffer[zone])
    BY DEF IndInv, AllFit
  <1>2. /\ Open_Zone_Cnt # MAX_OPEN_ZONE /\ ZD[zone].state = "FULL" /\ Z2LogFBG[zone] = -1
        /\ g \in Fbgs /\ Kept(nand, queues, held, pages)
        /\ FBG_Queue' = queues /\ Z2FBG' = Z2FBG
        /\ Z2LogFBG' = [Z2LogFBG EXCEPT ![zone] = g]
        /\ zone_valid_map' = [zone_valid_map EXCEPT ![zone] = map]
    BY TLOpens
  <1>3. ZD[zone].wp = ZONE_SIZE /\ Z2FBG[zone] # -1
    BY <1>1, <1>2 DEF Fits
  <1>4. /\ h \in Holders /\ FcgOf(h) = f
        /\ HeldBy \in [Holders -> Fbgs \cup {-1}] /\ PagesBy \in [Holders -> Nat]
    BY <1>1, Typed
  <1>5. PICK c, d, m :
            /\ c.zone = zone /\ c.nand = nand /\ c.fbg = Z2FBG[zone] /\ c.log = g
            /\ c.state = "TLOPEN" /\ c.wp = 0 /\ c.cnt = Open_Zone_Cnt + 1
            /\ Working(d, g) /\ Further(c, d, g, m)
            /\ d.wp # ZONE_SIZE /\ d.state = "TLOPEN" /\ d.zone = zone /\ d.wp \in 0 .. ZONE_SIZE
            /\ Leaves(d) /\ nand' = d.nand
    BY TLOpens
  <1> HIDE DEF g
  <1>6. c.cnt = Cardinality(OpenZones \cup {zone}) /\ c.cnt <= MAX_OPEN_ZONE
    <2>1. OpenZones \in SUBSET Zones /\ zone \notin OpenZones
      BY <1>2 DEF OpenZones, InUse
    <2>2. Cardinality(OpenZones \cup {zone}) = Cardinality(OpenZones) + 1
      BY <2>1, CountAfter
    <2>3. Open_Zone_Cnt = Cardinality(OpenZones) /\ Open_Zone_Cnt <= MAX_OPEN_ZONE
      BY <1>1 DEF Counts
    <2>4. Open_Zone_Cnt + 1 <= MAX_OPEN_ZONE
      BY <1>1, <1>2, <2>3, Sizes, SMTT(30) DEF Tables
    <2> QED BY <1>5, <2>2, <2>3, <2>4
  <1>7. Tables' /\ AllFit' /\ Counts'
    <2>1. Cardinality(LogZones') <= MAX_OPEN_ZONE
      <3>1. LogZones' \subseteq OpenZones \cup {zone}
        <4> SUFFICES ASSUME NEW z \in Zones, Z2LogFBG'[z] # -1, z # zone PROVE InUse(z)
          BY DEF LogZones, OpenZones
        <4>1. Z2LogFBG[z] # -1
          BY <1>1, <1>2, <1>5 DEF Tables
        <4>2. ZD[z].state \in States /\ Fits(ZD[z], Z2FBG[z], Z2LogFBG[z], buffer[z])
          BY <1>1 DEF Tables, AllFit
        <4> QED BY <4>1, <4>2 DEF Fits, NoLogLeft, States, InUse
      <3>2. OpenZones \cup {zone} \in SUBSET Zones /\ LogZones' \in SUBSET Zones
        BY DEF OpenZones, LogZones
      <3>3. Cardinality(LogZones') <= Cardinality(OpenZones \cup {zone})
        BY <3>1, <3>2, FiniteZones, FS_Subset
      <3>4. Cardinality(LogZones') \in Nat /\ Cardinality(OpenZones \cup {zone}) \in Nat
        BY <3>2, FiniteZones
      <3> QED BY <1>6, <3>3, <3>4, Sizes
    <2>2. zone_valid_map' \in [Zones -> {NoMap} \cup TLMaps]
      BY <1>1, <1>2, <1>5 DEF Tables
    <2>3. Z2FBG' = [Z2FBG EXCEPT ![zone] = c.fbg] /\ c.fbg # -1
      BY <1>1, <1>2, <1>3, <1>5 DEF Tables
    <2>4. c.state \in {"OPEN", "TLOPEN"} /\ (c.state = "OPEN" => c.log = -1) /\ c.wp # ZONE_SIZE
      BY <1>5, Sizes
    <2>5. Z2LogFBG' = [Z2LogFBG EXCEPT ![zone] = c.log]
      BY <1>2, <1>5
    <2> QED BY <1>2, <1>5, <1>6, <2>1, <2>2, <2>3, <2>4, <2>5, OneZone
  <1>8. held[h] = g /\ pages \in [Holders -> Nat] /\ (\A k \in Holders : k # h => held[k] = HeldBy[k])
         /\ (\A k \in Holders : k # h => pages[k] = PagesBy[k])
    BY <1>4
  <1> HIDE DEF held, pages, queues, h
  <1> DEFINE after == [pages EXCEPT ![h] = d.wp \div NSECT]
  <1>9. Kept(d.nand, queues, held, after)
    <2>1. Kept(c.nand, queues, held, pages) /\ FcgOf(h) = zone_to_fcg(c.zone)
      BY <1>2, <1>4, <1>5
    <2> QED BY <1>4, <1>5, <1>8, <2>1, Works
  <1>10. after \in [Holders -> Nat]
    BY <1>5, <1>8, ZonePages
  <1>11. after[h] = d.wp \div NSECT /\ \A k \in Holders : k # h => after[k] = PagesBy[k]
    BY <1>4, <1>8
  <1> HIDE DEF after
  <1>12. ASSUME NEW z \in Zones
         PROVE  /\ held[<<z, "data">>] = Z2FBG'[z] /\ held[<<z, "log">>] = Z2LogFBG'[z]
                /\ Z2FBG'[z] # -1 => after[<<z, "data">>] =
                      IF Z2LogFBG'[z] # -1 THEN DEG_ZONE * NPAGE ELSE ZD'[z].wp \div NSECT
                /\ Z2LogFBG'[z] # -1 => after[<<z, "log">>] = ZD'[z].wp \div NSECT
    <2>1. ZD' = [ZD EXCEPT ![zone] = [state |-> d.state, wp |-> d.wp]]
      BY <1>2, <1>5 DEF Leaves
    <2>2. /\ <<z, "data">> \in Holders /\ <<z, "log">> \in Holders /\ <<z, "data">> # h
          /\ HeldBy[<<z, "data">>] = Z2FBG[z] /\ HeldBy[<<z, "log">>] = Z2LogFBG[z]
          /\ PagesBy[<<z, "data">>] = (IF Z2LogFBG[z] # -1 THEN DEG_ZONE * NPAGE ELSE ZD[z].wp \div NSECT)
          /\ PagesBy[<<z, "log">>] = ZD[z].wp \div NSECT
          /\ (z # zone => <<z, "log">> # h)
      BY <1>1, Typed DEF h
    <2>3. CASE z = zone
      <3>1. ZD'[z].wp = d.wp /\ h = <<z, "log">> /\ Z2LogFBG'[z] = g /\ g # -1
        BY <1>1, <1>2, <1>5, <2>1, <2>3, Sizes DEF Tables, h, Fbgs
      <3>2. PagesBy[<<z, "data">>] = DEG_ZONE * NPAGE
        BY <1>3, <2>2, <2>3, ZonePages
      <3> QED BY <1>2, <1>5, <1>8, <1>11, <2>2, <3>1, <3>2
    <2>4. CASE z # zone
      <3>1. ZD'[z] = ZD[z] /\ Z2LogFBG'[z] = Z2LogFBG[z]
        BY <1>1, <1>2, <1>5, <2>1, <2>4 DEF Tables
      <3> QED BY <1>2, <1>5, <1>8, <1>11, <2>2, <2>4, <3>1
    <2> QED BY <2>3, <2>4
  <1>13. Kept(nand', FBG_Queue', HeldBy', PagesBy')
    BY <1>2, <1>5, <1>7, <1>9, <1>10, <1>12, KeptNext
  <1> QED BY <1>7, <1>13 DEF IndInv

\* zns_reset.
LEMMA ResetHolds ==
    ASSUME IndInv, NEW zone \in Zones, Reset(zone)
    PROVE  IndInv'
  <1> DEFINE f == zone_to_fcg(zone)
             a == Z2FBG[zone]
             b == Z2LogFBG[zone]
             chips == ErasedIn(ErasedIn(nand, f, a), f, b)
             queues == [FBG_Queue EXCEPT ![f] = IF b = -1 THEN Pushed(@, a) ELSE Pushed(Pushed(@, a), b)]
             held == [HeldBy EXCEPT ![<<zone, "data">>] = -1, ![<<zone, "log">>] = -1]
  <1>1. /\ Tables /\ AllFit /\ Counts /\ Kept(nand, FBG_Queue, HeldBy, PagesBy)
        /\ Fits(ZD[zone], Z2FBG[zone], Z2LogFBG[zone], buffer[zone])
    BY DEF IndInv, AllFit
  <1>2. /\ ZD[zone].state = "FULL"
        /\ ZD' = [ZD EXCEPT ![zone] = [state |-> "EMPTY", wp |-> 0]]
        /\ FBG_Queue' = queues /\ nand' = chips
        /\ Z2FBG' = [Z2FBG EXCEPT ![zone] = -1] /\ Z2LogFBG' = [Z2LogFBG EXCEPT ![zone] = -1]
        /\ zone_valid_map' = [zone_valid_map EXCEPT ![zone] = NoMap]
        /\ Open_Zone_Cnt' = Open_Zone_Cnt /\ buffer' = buffer
    BY DEF Reset, GivenBack, Cleaned
  <1>3. /\ HeldBy \in [Holders -> Fbgs \cup {-1}] /\ PagesBy \in [Holders -> Nat]
        /\ HeldBy[<<zone, "data">>] = a /\ HeldBy[<<zone, "log">>] = b /\ a # -1
        /\ <<zone, "data">> \in Holders /\ <<zone, "log">> \in Holders
    BY <1>1, <1>2, Typed DEF Fits
  <1> HIDE DEF a, b
  <1>4. Kept(chips, queues, held, PagesBy)
    BY <1>1, <1>3, GivesBoth
  <1>5. Tables'
    BY <1>1, <1>2, Sizes DEF Tables, States
  <1>6. AllFit'
    <2> SUFFICES ASSUME NEW z \in Zones
                 PROVE  Fits(ZD'[z], Z2FBG'[z], Z2LogFBG'[z], buffer'[z])
      BY DEF AllFit
    <2>1. CASE z = zone
      BY <1>1, <1>2, <2>1, Forgotten DEF Tables
    <2>2. CASE z # zone
      BY <1>1, <1>2, <2>2 DEF Tables, AllFit
    <2> QED BY <2>1, <2>2
  <1>7. Counts'
    <2>1. OpenZones' = OpenZones
      <3>1. \A z \in Zones : z # zone => ZD'[z] = ZD[z]
        BY <1>1, <1>2 DEF Tables
      <3>2. ZD'[zone].state = "EMPTY"
        BY <1>1, <1>2 DEF Tables
      <3> QED BY <1>2, <3>1, <3>2 DEF OpenZones, InUse
    <2>2. Cardinality(LogZones') <= Cardinality(LogZones) /\ Cardinality(LogZones) \in Nat
          /\ Cardinality(LogZones') \in Nat
      <3>1. LogZones' \subseteq LogZones
        BY <1>1, <1>2 DEF LogZones, Tables
      <3>2. LogZones \in SUBSET Zones /\ LogZones' \in SUBSET Zones
        BY DEF LogZones
      <3> QED BY <3>1, <3>2, FiniteZones, FS_Subset
    <2> QED BY <1>1, <1>2, <2>1, <2>2, Sizes DEF Counts
  <1>8. /\ held[<<zone, "data">>] = -1 /\ held[<<zone, "log">>] = -1
        /\ \A k \in Holders : k # <<zone, "data">> /\ k # <<zone, "log">> => held[k] = HeldBy[k]
    BY <1>3
  <1> HIDE DEF held, chips, queues
  <1>9. ASSUME NEW z \in Zones
        PROVE  /\ held[<<z, "data">>] = Z2FBG'[z] /\ held[<<z, "log">>] = Z2LogFBG'[z]
               /\ Z2FBG'[z] # -1 => PagesBy[<<z, "data">>] =
                     IF Z2LogFBG'[z] # -1 THEN DEG_ZONE * NPAGE ELSE ZD'[z].wp \div NSECT
               /\ Z2LogFBG'[z] # -1 => PagesBy[<<z, "log">>] = ZD'[z].wp \div NSECT
    <2>1. CASE z = zone
      <3>1. Z2FBG'[z] = -1 /\ Z2LogFBG'[z] = -1
        BY <1>1, <1>2, <2>1 DEF Tables
      <3> QED BY <1>8, <2>1, <3>1
    <2>2. CASE z # zone
      <3>1. ZD'[z] = ZD[z] /\ Z2LogFBG'[z] = Z2LogFBG[z] /\ Z2FBG'[z] = Z2FBG[z]
        BY <1>1, <1>2, <2>2 DEF Tables
      <3> QED BY <1>1, <1>8, <2>2, <3>1, Typed
    <2> QED BY <2>1, <2>2
  <1>10. Kept(nand', FBG_Queue', HeldBy', PagesBy')
    BY <1>2, <1>3, <1>4, <1>5, <1>9, KeptNext
  <1> QED BY <1>5, <1>6, <1>7, <1>10 DEF IndInv

\* zns_izc: a zone is opened, and another that is full is given back.
LEMMA IzcHolds ==
    ASSUME IndInv, NEW src \in Zones, NEW dest \in Zones \ {src}, NEW list \in CopyLists,
           Izc(src, dest, list)
    PROVE  IndInv'
  <1> DEFINE from == zone_to_fcg(src)
             to == zone_to_fcg(dest)
             h == <<dest, "data">>
             g == Popped(FBG_Queue[to])
             a == Z2FBG[src]
             b == Z2LogFBG[src]
             words == Listed(src, list)
             c == Opened(dest, g)
             d == PutAll(c, words)
             queue1 == [FBG_Queue EXCEPT ![to] = Rest(@)]
             held1 == [HeldBy EXCEPT ![h] = g]
             pages1 == [PagesBy EXCEPT ![h] = 0]
             chips == ErasedIn(ErasedIn(d.nand, from, a), from, b)
             queues == [queue1 EXCEPT ![from] = IF b = -1 THEN Pushed(@, a) ELSE Pushed(Pushed(@, a), b)]
             held == [held1 EXCEPT ![<<src, "data">>] = -1, ![<<src, "log">>] = -1]
  <1>1. /\ Tables /\ AllFit /\ Counts /\ Kept(nand, FBG_Queue, HeldBy, PagesBy)
        /\ Fits(ZD[src], Z2FBG[src], Z2LogFBG[src], buffer[src])
        /\ Fits(ZD[dest], Z2FBG[dest], Z2LogFBG[dest], buffer[dest])
    BY DEF IndInv, AllFit
  <1>2. /\ Open_Zone_Cnt # MAX_OPEN_ZONE
        /\ ZD[src].state = "FULL" /\ ZD[dest].state = "EMPTY"
        /\ ZD' = [ZD EXCEPT ![dest] = [state |-> d.state, wp |-> d.wp],
                            ![src] = [state |-> "EMPTY", wp |-> 0]]
        /\ buffer' = [buffer EXCEPT ![dest] = d.buf]
        /\ Open_Zone_Cnt' = d.cnt
        /\ nand' = chips
        /\ FBG_Queue' = queues
        /\ Z2FBG' = [Z2FBG EXCEPT ![dest] = d.fbg, ![src] = -1]
        /\ Z2LogFBG' = [Z2LogFBG EXCEPT ![dest] = -1, ![src] = -1]
        /\ zone_valid_map' = [zone_valid_map EXCEPT ![src] = NoMap]
    BY DEF Izc, GivenBack, Cleaned
  <1>3. dest # src /\ dest \in Zones
    OBVIOUS
  <1>4. /\ HeldBy \in [Holders -> Fbgs \cup {-1}] /\ PagesBy \in [Holders -> Nat]
        /\ HeldBy[<<src, "data">>] = a /\ HeldBy[<<src, "log">>] = b /\ a # -1
        /\ <<src, "data">> \in Holders /\ <<src, "log">> \in Holders
        /\ h \in Holders /\ FcgOf(h) = to /\ h # <<src, "data">> /\ h # <<src, "log">>
        /\ HeldBy[h] = -1
    BY <1>1, <1>2, <1>3, Typed DEF Fits
  <1>5. /\ g \in Fbgs /\ Working(c, g)
        /\ c.zone = dest /\ c.nand = nand /\ c.fbg = g /\ c.log = -1 /\ c.state = "OPEN" /\ c.wp = 0
        /\ c.cnt = Open_Zone_Cnt + 1
        /\ Kept(nand, queue1, held1, pages1)
    BY <1>2, <1>3, Opens
  <1>6. words \in Seq(Data) /\ Len(words) \in Nat /\ c.wp + Len(words) <= ZONE_SIZE
    <2>1. list \in Seq(Sectors) /\ Len(list) <= ZONE_SIZE
      BY ZnsAssumption DEF ZnsAssumption
    <2>2. Len(list) \in Nat /\ DOMAIN list = 1 .. Len(list) /\ \A i \in 1 .. Len(list) : list[i] \in Sectors
      BY <2>1
    <2>3. \A i \in 1 .. Len(list) : Stored(src, Z2FBG[src], list[i]) \in Data
      BY <1>2, <2>2, FullBlock
    <2>4. words \in [1 .. Len(list) -> Data]
      BY <2>2, <2>3 DEF Listed
    <2> HIDE DEF words
    <2>5. words \in Seq(Data) /\ Len(words) = Len(list)
      BY <2>2, <2>4
    <2> QED BY <1>5, <2>1, <2>2, <2>5, Sizes
  <1> HIDE DEF words, c, g, h, a, b
  <1>7. Working(d, g) /\ Further(c, d, g, Len(words))
    BY <1>5, <1>6, PutAllFacts
  <1> HIDE DEF d
  <1>8. /\ d.zone = dest /\ d.fbg = g /\ d.log = -1 /\ d.wp \in 0 .. ZONE_SIZE /\ g # -1
        /\ d.state = IF d.wp = ZONE_SIZE THEN "FULL" ELSE "OPEN"
        /\ d.cnt = IF d.wp = ZONE_SIZE THEN Open_Zone_Cnt ELSE Open_Zone_Cnt + 1
        /\ d.cnt \in Int /\ d.buf \in [0 .. NSECT - 1 -> Data \cup {Zero}] /\ d.state \in States
    <2>1. /\ d.zone = c.zone /\ d.fbg = c.fbg /\ d.log = c.log
          /\ d.state = IF d.wp = ZONE_SIZE THEN "FULL" ELSE c.state
          /\ d.cnt = IF d.wp = ZONE_SIZE /\ c.wp # ZONE_SIZE THEN c.cnt - 1 ELSE c.cnt
      BY <1>7 DEF Further
    <2>2. d.wp \in 0 .. ZONE_SIZE /\ d.cnt \in Int /\ d.buf \in [0 .. NSECT - 1 -> Data \cup {Zero}]
          /\ d.state \in States
      BY <1>7 DEF Working, Calls
    <2>3. Open_Zone_Cnt \in Int /\ 0 # ZONE_SIZE
      BY <1>1, Sizes DEF Tables
    <2> QED BY <1>5, <2>1, <2>2, <2>3, Sizes DEF Fbgs
  <1>9. /\ held1[h] = g /\ held1[<<src, "data">>] = a /\ held1[<<src, "log">>] = b
        /\ (\A k \in Holders : k # h => held1[k] = HeldBy[k])
        /\ pages1 \in [Holders -> Nat] /\ (\A k \in Holders : k # h => pages1[k] = PagesBy[k])
        /\ held1 \in [Holders -> Fbgs \cup {-1}]
    BY <1>4, <1>5
  <1> HIDE DEF held1, pages1, queue1
  <1> DEFINE after == [pages1 EXCEPT ![h] = d.wp \div NSECT]
  <1>10. Kept(d.nand, queue1, held1, after)
    <2>1. Kept(c.nand, queue1, held1, pages1) /\ FcgOf(h) = zone_to_fcg(c.zone)
      BY <1>4, <1>5
    <2> QED BY <1>4, <1>7, <1>9, <2>1, Works
  <1>11. after \in [Holders -> Nat]
    BY <1>8, <1>9, ZonePages
  <1>12. after[h] = d.wp \div NSECT /\ \A k \in Holders : k # h => after[k] = PagesBy[k]
    BY <1>4, <1>9
  <1> HIDE DEF after
  <1>13. Kept(chips, queues, held, after)
    <2>1. held1[<<src, "data">>] # -1
      BY <1>4, <1>9
    <2>2. Kept(ErasedIn(ErasedIn(d.nand, from, held1[<<src, "data">>]), from, held1[<<src, "log">>]),
               [queue1 EXCEPT ![from] = IF held1[<<src, "log">>] = -1 THEN Pushed(@, held1[<<src, "data">>])
                   ELSE Pushed(Pushed(@, held1[<<src, "data">>]), held1[<<src, "log">>])],
               held, after)
      BY <1>10, <1>11, <2>1, GivesBoth
    <2> QED BY <1>9, <2>2
  <1>14. /\ held[<<src, "data">>] = -1 /\ held[<<src, "log">>] = -1 /\ held[h] = g
         /\ \A k \in Holders : k # <<src, "data">> /\ k # <<src, "log">> /\ k # h => held[k] = HeldBy[k]
    BY <1>4, <1>9
  <1> HIDE DEF held, chips, queues
  <1>15. /\ ZD'[dest] = [state |-> d.state, wp |-> d.wp] /\ ZD'[src] = [state |-> "EMPTY", wp |-> 0]
         /\ Z2FBG'[dest] = g /\ Z2FBG'[src] = -1 /\ Z2LogFBG'[dest] = -1 /\ Z2LogFBG'[src] = -1
         /\ buffer'[dest] = d.buf
         /\ \A z \in Zones : z # dest /\ z # src =>
               /\ ZD'[z] = ZD[z] /\ Z2FBG'[z] = Z2FBG[z] /\ Z2LogFBG'[z] = Z2LogFBG[z]
               /\ buffer'[z] = buffer[z]
    BY <1>1, <1>2, <1>3, <1>8 DEF Tables
  <1>16. Tables'
    <2>1. ZD' \in [Zones -> [state : States, wp : 0 .. ZONE_SIZE]]
      <3>1. [state |-> d.state, wp |-> d.wp] \in [state : States, wp : 0 .. ZONE_SIZE]
        BY <1>8
      <3>2. [state |-> "EMPTY", wp |-> 0] \in [state : States, wp : 0 .. ZONE_SIZE]
        BY Sizes DEF States
      <3>3. ZD \in [Zones -> [state : States, wp : 0 .. ZONE_SIZE]]
        BY <1>1 DEF Tables
      <3> QED BY <1>2, <3>1, <3>2, <3>3
    <2>2. Z2FBG' \in [Zones -> Fbgs \cup {-1}] /\ Z2LogFBG' \in [Zones -> Fbgs \cup {-1}]
      BY <1>1, <1>2, <1>5, <1>8 DEF Tables
    <2> QED BY <1>1, <1>2, <1>8, <2>1, <2>2 DEF Tables
  <1>17. AllFit'
    <2> SUFFICES ASSUME NEW z \in Zones
                 PROVE  Fits(ZD'[z], Z2FBG'[z], Z2LogFBG'[z], buffer'[z])
      BY DEF AllFit
    <2>1. CASE z = src
      BY <1>15, <2>1, Forgotten
    <2>2. CASE z = dest
      <3>1. Fits([state |-> d.state, wp |-> d.wp], d.fbg, d.log, d.buf)
        BY <1>7, <1>8, Leftover
      <3> QED BY <1>8, <1>15, <2>2, <3>1
    <2>3. CASE z # src /\ z # dest
      BY <1>1, <1>15, <2>3 DEF AllFit
    <2> QED BY <2>1, <2>2, <2>3
  <1>18. Counts'
    <2>1. OpenZones \in SUBSET Zones /\ dest \notin OpenZones /\ src \notin OpenZones
      BY <1>2 DEF OpenZones, InUse
    <2>2. ZD'[dest].state = d.state /\ ZD'[src].state = "EMPTY"
      BY <1>15
    <2>3. OpenZones' = IF d.wp = ZONE_SIZE THEN OpenZones ELSE OpenZones \cup {dest}
      BY <1>3, <1>8, <1>15, <2>1, <2>2 DEF OpenZones, InUse
    <2>4. Cardinality(OpenZones \cup {dest}) = Cardinality(OpenZones) + 1
      BY <1>3, <2>1, CountAfter
    <2>5. Cardinality(LogZones') <= Cardinality(LogZones) /\ Cardinality(LogZones) \in Nat
          /\ Cardinality(LogZones') \in Nat
      <3>1. LogZones' \subseteq LogZones
        BY <1>15 DEF LogZones
      <3>2. LogZones \in SUBSET Zones /\ LogZones' \in SUBSET Zones
        BY DEF LogZones
      <3> QED BY <3>1, <3>2, FiniteZones, FS_Subset
    <2>6. Open_Zone_Cnt = Cardinality(OpenZones) /\ Open_Zone_Cnt <= MAX_OPEN_ZONE
          /\ Cardinality(LogZones) <= MAX_OPEN_ZONE /\ Open_Zone_Cnt \in Int
      BY <1>1 DEF Counts, Tables
    <2>7. Open_Zone_Cnt + 1 <= MAX_OPEN_ZONE
      BY <1>2, <2>6, Sizes
    <2>8. Cardinality(LogZones') <= MAX_OPEN_ZONE
      BY <2>5, <2>6, Sizes
    <2>9. Open_Zone_Cnt' = d.cnt
      BY <1>2
    <2> QED BY <1>8, <2>3, <2>4, <2>6, <2>7, <2>8, <2>9 DEF Counts
  <1>19. ASSUME NEW z \in Zones
         PROVE  /\ held[<<z, "data">>] = Z2FBG'[z] /\ held[<<z, "log">>] = Z2LogFBG'[z]
                /\ Z2FBG'[z] # -1 => after[<<z, "data">>] =
                      IF Z2LogFBG'[z] # -1 THEN DEG_ZONE * NPAGE ELSE ZD'[z].wp \div NSECT
                /\ Z2LogFBG'[z] # -1 => after[<<z, "log">>] = ZD'[z].wp \div NSECT
    <2>1. /\ <<z, "data">> \in Holders /\ <<z, "log">> \in Holders /\ <<z, "log">> # h
          /\ HeldBy[<<z, "data">>] = Z2FBG[z] /\ HeldBy[<<z, "log">>] = Z2LogFBG[z]
          /\ PagesBy[<<z, "data">>] = (IF Z2LogFBG[z] # -1 THEN DEG_ZONE * NPAGE ELSE ZD[z].wp \div NSECT)
          /\ PagesBy[<<z, "log">>] = ZD[z].wp \div NSECT
          /\ (z # dest => <<z, "data">> # h)
      BY <1>1, Typed DEF h
    <2>2. CASE z = src
      BY <1>14, <1>15, <2>2
    <2>3. CASE z = dest
      <3>1. Z2LogFBG[z] = -1 /\ h = <<z, "data">> /\ ZD'[z].wp = d.wp
        BY <1>1, <1>2, <1>15, <2>3 DEF Fits, h
      <3>2. <<z, "log">> # <<src, "log">> /\ <<z, "log">> # <<src, "data">>
        BY <1>3, <2>3
      <3> QED BY <1>12, <1>14, <1>15, <2>1, <2>3, <3>1, <3>2
    <2>4. CASE z # src /\ z # dest
      <3>1. /\ <<z, "log">> # <<src, "log">> /\ <<z, "log">> # <<src, "data">>
            /\ <<z, "data">> # <<src, "log">> /\ <<z, "data">> # <<src, "data">>
        BY <2>4
      <3> QED BY <1>12, <1>14, <1>15, <2>1, <2>4, <3>1
    <2> QED BY <2>2, <2>3, <2>4
  <1>20. Kept(nand', FBG_Queue', HeldBy', PagesBy')
    <2>1. nand' = chips /\ FBG_Queue' = queues
      BY <1>2
    <2> QED BY <1>11, <1>13, <1>16, <1>19, <2>1, KeptNext
  <1> QED BY <1>16, <1>17, <1>18, <1>20 DEF IndInv

\* The invariant holds of every reachable state.
LEMMA StepHolds == IndInv /\ [CarefulNext]_vars => IndInv'
  <1> SUFFICES ASSUME IndInv, [CarefulNext]_vars PROVE IndInv'
    OBVIOUS
  <1>1. CASE UNCHANGED vars
    <2>1. HeldBy' = HeldBy /\ PagesBy' = PagesBy
      BY <1>1 DEF vars, HeldBy, PagesBy
    <2>2. Tables' /\ AllFit' /\ Counts'
      BY <1>1 DEF vars, IndInv, Tables, AllFit, Counts, OpenZones, LogZones, InUse
    <2> QED BY <1>1, <2>1, <2>2 DEF vars, IndInv
  <1>2. CASE CarefulNext
    <2>1. PICK zone \in Zones :
        \/ \E n \in 1 .. ZONE_SIZE - ZD[zone].wp, word \in Word :
             \/ Write(zone, Written(zone, n, word))
             \/ TLWrite(zone, Written(zone, n, word))
        \/ Reset(zone)
        \/ \E dest \in Zones \ {zone}, list \in CopyLists : Izc(zone, dest, list)
        \/ \E map \in TLMaps : LeavesSome(map) /\ NoLogLeft /\ TLOpen(zone, map)
      BY <1>2 DEF CarefulNext, OtherCall, OpenLog
    <2> QED BY <2>1, WriteHolds, TLWriteHolds, ResetHolds, IzcHolds, TLOpenHolds
  <1> QED BY <1>1, <1>2

\* The inductive invariant holds in every state that a careful host reaches.
THEOREM ZnsInvariance == CarefulSpec => []IndInv
  BY InitHolds, StepHolds, PTL DEF CarefulSpec

-----------------------------------------------------------------------------
\* No zone goes without a block group, however the pools of free ones are used,
\* and nothing uninitialised is ever copied (zns.c:25-77).  The host is careful;
\* the range of Open_Zone_Cnt needs a sector left out of every bitmap.
THEOREM ZonesTyped == CarefulSpec => []TypeOK
  <1>1. IndInv => TypeOK
    <2> SUFFICES ASSUME IndInv PROVE TypeOK
      OBVIOUS
    <2>1. /\ Tables /\ AllFit /\ Counts /\ nand \in [Banks -> Chip] /\ FBG_Queue \in [Fcgs -> Seq(Fbgs)]
      BY DEF IndInv, Kept, Followed, Owned
    <2>2. Cardinality(OpenZones) \in Nat
      BY FiniteZones DEF OpenZones
    <2>3. Open_Zone_Cnt \in 0 .. MAX_OPEN_ZONE
      BY <2>1, <2>2, Sizes DEF Counts
    <2>4. \A zone \in Zones : ZD[zone].state # "EMPTY" => Z2FBG[zone] # -1
      BY <2>1 DEF AllFit, Fits
    <2> QED BY <2>1, <2>3, <2>4 DEF TypeOK, Tables, Chip, Page
  <1> QED BY <1>1, ZnsInvariance, PTL

\* Open_Zone_Cnt is exact and within MAX_OPEN_ZONE (zns.c:114) for a careful host.
\* It is not if a bitmap names every sector (zns.c:358).
THEOREM OpenZonesCounted == CarefulSpec => []OpenCountIsExact
  <1>1. IndInv => OpenCountIsExact
    BY DEF IndInv, Counts, OpenZones, OpenCountIsExact
  <1> QED BY <1>1, ZnsInvariance, PTL

\* No block group is lost or used twice by zns_reset, zns_izc and zns_tl_open
\* (zns.c:281, 287, 315, 339) for a careful host.  One is lost if a zone that was
\* filled through a log is opened again without a reset (zns.c:341).
THEOREM BlocksHaveAnOwner == CarefulSpec => []BlocksOwnedOnce
  <1>1. IndInv => BlocksOwnedOnce
    <2> SUFFICES ASSUME IndInv, NEW fcg \in Fcgs, NEW fbg \in Fbgs
                 PROVE  Cardinality(Owners(fcg, fbg)) = 1
      BY DEF BlocksOwnedOnce
    <2> DEFINE q == FBG_Queue[fcg]
               O == Owners(fcg, fbg)
    <2>1. Tables /\ Owned(FBG_Queue, HeldBy)
      BY DEF IndInv, Kept
    <2>2. q \in Seq(Fbgs) /\ DOMAIN q = 1 .. Len(q)
      BY <2>1 DEF Owned
    <2>3. \A z \in Zones : /\ HeldBy[<<z, "data">>] = Z2FBG[z] /\ HeldBy[<<z, "log">>] = Z2LogFBG[z]
                           /\ <<z, "data">> \in Holders /\ <<z, "log">> \in Holders
                           /\ FcgOf(<<z, "data">>) = zone_to_fcg(z) /\ FcgOf(<<z, "log">>) = zone_to_fcg(z)
      BY <2>1, Typed
    <2>4. fbg # -1
      BY Sizes DEF Fbgs
    <2>5. O = {<<"free", i>> : i \in {j \in 1 .. Len(q) : q[j] = fbg}}
              \cup {<<"data", z>> : z \in {y \in Zones : zone_to_fcg(y) = fcg /\ Z2FBG[y] = fbg}}
              \cup {<<"log", z>> : z \in {y \in Zones : zone_to_fcg(y) = fcg /\ Z2LogFBG[y] = fbg}}
      BY <2>2 DEF Owners
    <2> HIDE DEF O
    <2>6. \E o : O = {o}
      <3>1. CASE \E i \in 1 .. Len(q) : q[i] = fbg
        <4>1. PICK i \in 1 .. Len(q) : q[i] = fbg
          BY <3>1
        <4>2. \A j \in 1 .. Len(q) : q[j] = fbg => j = i
          BY <2>1, <4>1 DEF Owned
        <4>3. \A z \in Zones : zone_to_fcg(z) = fcg => Z2FBG[z] # fbg /\ Z2LogFBG[z] # fbg
          <5>1. \A h \in Holders : FcgOf(h) = fcg => HeldBy[h] # fbg
            BY <2>1, <4>1 DEF Owned
          <5> QED BY <2>3, <5>1
        <4>4. O = {<<"free", i>>}
          BY <2>5, <4>1, <4>2, <4>3
        <4> QED BY <4>4
      <3>2. CASE \E h \in Holders : FcgOf(h) = fcg /\ HeldBy[h] = fbg
        <4>1. PICK h \in Holders : FcgOf(h) = fcg /\ HeldBy[h] = fbg
          BY <3>2
        <4>2. PICK z \in Zones : h = <<z, "data">> \/ h = <<z, "log">>
          BY TwoEach
        <4>3. \A k \in Holders : FcgOf(k) = fcg /\ HeldBy[k] = fbg => k = h
          BY <2>1, <2>4, <4>1 DEF Owned
        <4>4. \A i \in 1 .. Len(q) : q[i] # fbg
          BY <2>1, <4>1 DEF Owned
        <4>5. CASE h = <<z, "data">>
          <5>1. /\ \A y \in Zones : zone_to_fcg(y) = fcg /\ Z2FBG[y] = fbg <=> y = z
                /\ \A y \in Zones : ~(zone_to_fcg(y) = fcg /\ Z2LogFBG[y] = fbg)
            BY <2>3, <4>1, <4>3, <4>5
          <5>2. O = {<<"data", z>>}
            BY <2>5, <4>4, <5>1
          <5> QED BY <5>2
        <4>6. CASE h = <<z, "log">>
          <5>1. /\ \A y \in Zones : zone_to_fcg(y) = fcg /\ Z2LogFBG[y] = fbg <=> y = z
                /\ \A y \in Zones : ~(zone_to_fcg(y) = fcg /\ Z2FBG[y] = fbg)
            BY <2>3, <4>1, <4>3, <4>6
          <5>2. O = {<<"log", z>>}
            BY <2>5, <4>4, <5>1
          <5> QED BY <5>2
        <4> QED BY <4>2, <4>5, <4>6
      <3> QED BY <2>1, <3>1, <3>2 DEF Owned
    <2> QED BY <2>6, FS_Singleton DEF O
  <1> QED BY <1>1, ZnsInvariance, PTL

-----------------------------------------------------------------------------
\* The pages of a block group, and how many there are.
LEMMA GroupPages ==
    ASSUME NEW fcg \in Fcgs
    PROVE  /\ Cardinality(BanksOf(fcg) \X Pages) = DEG_ZONE * NPAGE
           /\ \A at \in BanksOf(fcg) \X Pages : PageNo(at[1], at[2]) \in 0 .. DEG_ZONE * NPAGE - 1
  <1> DEFINE lo == fcg * DEG_ZONE
             hi == fcg * DEG_ZONE + (DEG_ZONE - 1)
  <1>1. fcg \in Nat /\ fcg \in 0 .. NUM_FCG - 1 /\ lo \in Nat /\ hi \in Nat
    BY Sizes DEF Fcgs
  <1>2. BanksOf(fcg) = lo .. hi
    <2>1. ASSUME NEW bank \in BanksOf(fcg) PROVE bank \in lo .. hi
      <3>1. bank \in Nat /\ bank \div DEG_ZONE = fcg
        BY Sizes DEF BanksOf, Banks
      <3>2. bank = fcg * DEG_ZONE + (bank % DEG_ZONE) /\ bank % DEG_ZONE \in 0 .. DEG_ZONE - 1
        BY <3>1, Sizes, DivMod
      <3> HIDE DEF lo, hi
      <3>3. lo = fcg * DEG_ZONE /\ hi = lo + (DEG_ZONE - 1)
        BY DEF lo, hi
      <3>4. bank = lo + (bank % DEG_ZONE)
        BY <3>2, <3>3
      <3> QED BY <1>1, <3>1, <3>2, <3>3, <3>4, Sizes
    <2>2. ASSUME NEW bank \in lo .. hi PROVE bank \in BanksOf(fcg)
      <3> DEFINE r == bank - lo
      <3>1. r \in 0 .. DEG_ZONE - 1 /\ bank = lo + r
        <4> HIDE DEF lo, hi
        <4>1. hi = lo + (DEG_ZONE - 1)
          BY DEF lo, hi
        <4> QED BY <1>1, <4>1, Sizes
      <3> HIDE DEF r
      <3>2. bank = fcg * DEG_ZONE + r
        BY <3>1
      <3>3. (fcg * DEG_ZONE + r) \div DEG_ZONE = fcg /\ fcg * DEG_ZONE + r \in 0 .. NUM_FCG * DEG_ZONE - 1
        <4>1. /\ \A b \in Nat, p \in 0 .. DEG_ZONE - 1 : (b * DEG_ZONE + p) \div DEG_ZONE = b
              /\ \A b \in 0 .. NUM_FCG - 1, p \in 0 .. DEG_ZONE - 1 :
                    b * DEG_ZONE + p \in 0 .. NUM_FCG * DEG_ZONE - 1
          BY Sizes, DivMod
        <4> QED BY <1>1, <3>1, <4>1
      <3> QED BY <3>2, <3>3, Sizes DEF BanksOf, Banks
    <2> QED BY <2>1, <2>2
  <1>3. IsFiniteSet(lo .. hi) /\ Cardinality(lo .. hi) = DEG_ZONE
    <2>1. lo <= hi /\ hi - lo + 1 = DEG_ZONE
      <3> DEFINE x == fcg * DEG_ZONE
      <3>1. x \in Nat
        BY <1>1
      <3> HIDE DEF x
      <3>2. x <= x + (DEG_ZONE - 1) /\ (x + (DEG_ZONE - 1)) - x + 1 = DEG_ZONE
        BY <3>1, Sizes
      <3> QED BY <3>2 DEF x
    <2> HIDE DEF lo, hi
    <2> QED BY <1>1, <2>1, FS_Interval
  <1>4. IsFiniteSet(Pages) /\ Cardinality(Pages) = NPAGE
    BY Sizes, FS_Interval DEF Pages
  <1> HIDE DEF lo, hi
  <1>5. Cardinality(BanksOf(fcg) \X Pages) = DEG_ZONE * NPAGE
    BY <1>2, <1>3, <1>4, FS_Product
  <1>6. ASSUME NEW bank \in BanksOf(fcg), NEW page \in Pages
        PROVE  PageNo(bank, page) \in 0 .. DEG_ZONE * NPAGE - 1
    <2>1. bank \in Nat /\ page \in 0 .. NPAGE - 1
      BY Sizes DEF BanksOf, Banks, Pages
    <2>2. bank % DEG_ZONE \in 0 .. DEG_ZONE - 1
      BY <2>1, Sizes, DivMod
    <2>3. page * DEG_ZONE + (bank % DEG_ZONE) \in 0 .. NPAGE * DEG_ZONE - 1
      BY <2>1, <2>2, Sizes, DivMod
    <2>4. NPAGE * DEG_ZONE = DEG_ZONE * NPAGE
      BY Sizes
    <2> QED BY <2>3, <2>4 DEF PageNo
  <1> QED BY <1>5, <1>6

\* The pages written of a block group whose first n are.
LEMMA Wrote ==
    ASSUME nand \in [Banks -> Chip], IsLog(nand), NEW fcg \in Fcgs, NEW fbg \in Fbgs, NEW n,
           FirstWritten(nand, fcg, fbg, n)
    PROVE  PagesWritten(fcg, fbg) = {at \in BanksOf(fcg) \X Pages : PageNo(at[1], at[2]) < n}
  <1>1. \A bank \in BanksOf(fcg), page \in Pages :
            nand[bank].cell[Ppn(fbg, page)] # Erased <=> PageNo(bank, page) < n
    BY DEF IsLog, FirstWritten, BanksOf
  <1> QED BY <1>1 DEF PagesWritten

\* The pages that wp has passed are the first ones.
LEMMA Passed ==
    ASSUME NEW zone \in Zones, ZD[zone].wp \in 0 .. ZONE_SIZE
    PROVE  PagesPassed(zone) =
               {at \in BanksOf(zone_to_fcg(zone)) \X Pages : PageNo(at[1], at[2]) < ZD[zone].wp \div NSECT}
  <1> DEFINE wp == ZD[zone].wp
             w  == wp \div NSECT
             B  == BanksOf(zone_to_fcg(zone))
             T  == {at \in B \X Pages : PageNo(at[1], at[2]) < w}
  <1>1. wp \in Nat /\ wp <= ZONE_SIZE /\ w \in Nat /\ wp = w * NSECT + (wp % NSECT) /\ wp % NSECT \in 0 .. NSECT - 1
    <2>1. wp \in Nat /\ wp <= ZONE_SIZE
      BY Sizes
    <2> HIDE DEF wp
    <2>2. w \in Nat /\ wp = w * NSECT + (wp % NSECT) /\ wp % NSECT \in 0 .. NSECT - 1
      BY <2>1, Sizes, DivMod
    <2> QED BY <2>1, <2>2
  <1> HIDE DEF wp, w, B
  <1>2. ASSUME NEW s \in 1 .. wp, s % NSECT = 0
        PROVE  <<lba_to_bank(zone, s - 1), lba_to_page(s - 1)>> \in T
    <2> DEFINE k == s \div NSECT
    <2>1. s \in Nat /\ s >= 1 /\ s <= wp /\ s - 1 \in Sectors /\ s - 1 \in Nat
      BY <1>1, Sizes DEF Sectors
    <2>2. k \in Nat /\ s = k * NSECT
      <3>1. k \in Nat /\ s = k * NSECT + (s % NSECT)
        BY <2>1, Sizes, DivMod
      <3> HIDE DEF k
      <3>2. k * NSECT \in Nat
        BY <3>1, Sizes
      <3> QED BY <1>2, <3>1, <3>2
    <2> HIDE DEF k
    <2>3. k >= 1
      BY <2>1, <2>2, Sizes
    <2>4. (k - 1) * NSECT <= s - 1 /\ s - 1 < (k - 1) * NSECT + NSECT /\ k - 1 \in Nat
      <3>1. (k - 1) * NSECT = k * NSECT - NSECT
        BY <2>2, Sizes
      <3> QED BY <2>1, <2>2, <2>3, <3>1, Sizes
    <2>5. (s - 1) \div NSECT = k - 1
      BY <2>1, <2>4, InPage
    <2>6. k <= w
      <3> SUFFICES ASSUME k > w PROVE FALSE
        BY <1>1, <2>2
      <3>1. k * NSECT >= (w + 1) * NSECT
        BY <1>1, <2>2, Sizes
      <3>2. (w + 1) * NSECT = w * NSECT + NSECT /\ w * NSECT \in Nat
        BY <1>1, Sizes
      <3> QED BY <1>1, <2>1, <2>2, <3>1, <3>2, Sizes
    <2>7. /\ lba_to_bank(zone, s - 1) \in B /\ lba_to_page(s - 1) \in Pages
          /\ PageNo(lba_to_bank(zone, s - 1), lba_to_page(s - 1)) = k - 1
      BY <2>1, <2>5, SectorPlace DEF B
    <2> QED BY <1>1, <2>2, <2>6, <2>7
  <1>3. ASSUME NEW bank \in B, NEW page \in Pages, PageNo(bank, page) < w
        PROVE  \E s \in 1 .. wp : /\ s % NSECT = 0
                                  /\ <<bank, page>> = <<lba_to_bank(zone, s - 1), lba_to_page(s - 1)>>
    <2> DEFINE J == PageNo(bank, page)
               s == (J + 1) * NSECT
    <2>1. /\ J \in Nat
          /\ \A i \in 0 .. NSECT - 1 : /\ lba_to_bank(zone, J * NSECT + i) = bank
                                       /\ lba_to_page(J * NSECT + i) = page
      BY PagePlace, ZonePages DEF B
    <2>2. J < w
      BY <1>3
    <2> HIDE DEF J
    <2>3. s = J * NSECT + NSECT /\ J * NSECT \in Nat /\ NSECT - 1 \in 0 .. NSECT - 1
      BY <2>1, Sizes
    <2>4. s - 1 = J * NSECT + (NSECT - 1) /\ s \in Nat /\ s >= 1
      BY <2>3, Sizes
    <2>5. s <= w * NSECT
      BY <1>1, <2>1, <2>2, Sizes
    <2>6. s <= wp
      <3>1. w * NSECT \in Nat
        BY <1>1, Sizes
      <3> HIDE DEF s
      <3> QED BY <1>1, <2>4, <2>5, <3>1
    <2>7. s % NSECT = 0
      <3>1. \A b \in Nat, p \in 0 .. NSECT - 1 : (b * NSECT + p) % NSECT = p
        BY Sizes, DivMod
      <3>2. ((J + 1) * NSECT + 0) % NSECT = 0 /\ J + 1 \in Nat
        BY <2>1, <3>1, Sizes
      <3>3. (J + 1) * NSECT + 0 = s
        BY <2>4
      <3> QED BY <3>2, <3>3
    <2>8. lba_to_bank(zone, s - 1) = bank /\ lba_to_page(s - 1) = page
      BY <2>1, <2>3, <2>4
    <2> HIDE DEF s
    <2>9. s \in 1 .. wp
      BY <1>1, <2>4, <2>6
    <2> QED BY <2>7, <2>8, <2>9
  <1>4. PagesPassed(zone) =
          {<<lba_to_bank(zone, s - 1), lba_to_page(s - 1)>> : s \in {x \in 1 .. wp : x % NSECT = 0}}
    BY DEF PagesPassed, wp
  <1>5. PagesPassed(zone) = T
    <2>1. \A at \in PagesPassed(zone) : at \in T
      BY <1>2, <1>4
    <2>2. ASSUME NEW at \in T PROVE at \in PagesPassed(zone)
      <3>1. PICK bank \in B, page \in Pages : at = <<bank, page>> /\ PageNo(bank, page) < w
        BY <2>2
      <3> QED BY <1>3, <1>4, <3>1
    <2> QED BY <2>1, <2>2
  <1> QED BY <1>5 DEF w, wp, B

\* The programs whose return codes zns.c ignores never fail: what is free is
\* erased, and a block group is written as far as its zone has come.  The host is
\* careful.
THEOREM ChipFollows == CarefulSpec => []ChipFollowsZones
  <1>1. IndInv => ChipFollowsZones
    <2> SUFFICES ASSUME IndInv PROVE ChipFollowsZones
      OBVIOUS
    <2>1. /\ Tables /\ AllFit /\ nand \in [Banks -> Chip] /\ IsLog(nand)
          /\ FBG_Queue \in [Fcgs -> Seq(Fbgs)]
          /\ \A fcg \in Fcgs : \A i \in 1 .. Len(FBG_Queue[fcg]) : FirstWritten(nand, fcg, FBG_Queue[fcg][i], 0)
          /\ \A h \in Holders : HeldBy[h] # -1 => FirstWritten(nand, FcgOf(h), HeldBy[h], PagesBy[h])
      BY DEF IndInv, Kept, Followed, Owned
    <2>2. ASSUME NEW fcg \in Fcgs, NEW i \in DOMAIN FBG_Queue[fcg]
          PROVE  PagesWritten(fcg, FBG_Queue[fcg][i]) = {}
      <3>1. i \in 1 .. Len(FBG_Queue[fcg]) /\ FBG_Queue[fcg][i] \in Fbgs
        BY <2>1, <2>2
      <3>2. PagesWritten(fcg, FBG_Queue[fcg][i]) = {at \in BanksOf(fcg) \X Pages : PageNo(at[1], at[2]) < 0}
        BY <2>1, <3>1, Wrote
      <3>3. \A at \in BanksOf(fcg) \X Pages : ~(PageNo(at[1], at[2]) < 0)
        <4>1. \A at \in BanksOf(fcg) \X Pages : PageNo(at[1], at[2]) \in 0 .. DEG_ZONE * NPAGE - 1
          BY GroupPages
        <4> QED BY <4>1
      <3> QED BY <3>2, <3>3
    <2>3. ASSUME NEW zone \in Zones
          PROVE  /\ InUse(zone) \/ ZD[zone].state = "FULL" =>
                      PagesWritten(zone_to_fcg(zone), IF ByLog(zone) THEN Z2LogFBG[zone] ELSE Z2FBG[zone])
                          = PagesPassed(zone)
                 /\ ByLog(zone) => Cardinality(PagesWritten(zone_to_fcg(zone), Z2FBG[zone])) = DEG_ZONE * NPAGE
      <3> DEFINE fcg == zone_to_fcg(zone)
                 g   == IF ByLog(zone) THEN Z2LogFBG[zone] ELSE Z2FBG[zone]
      <3>1. /\ Fits(ZD[zone], Z2FBG[zone], Z2LogFBG[zone], buffer[zone])
            /\ ZD[zone].wp \in 0 .. ZONE_SIZE /\ ZD[zone].state \in States
            /\ Z2FBG[zone] \in Fbgs \cup {-1} /\ Z2LogFBG[zone] \in Fbgs \cup {-1}
        BY <2>1 DEF AllFit, Tables
      <3>2. fcg \in Fcgs
        <4>1. <<zone, "data">> \in Holders /\ FcgOf(<<zone, "data">>) = fcg
          BY <2>1, Typed
        <4> QED BY <4>1, HolderType
      <3>3. ByLog(zone) <=> Z2LogFBG[zone] # -1
        BY <3>1 DEF ByLog, Fits
      <3>4. ASSUME InUse(zone) \/ ZD[zone].state = "FULL"
            PROVE  PagesWritten(fcg, g) = PagesPassed(zone)
        <4>1. g \in Fbgs
          BY <3>1, <3>3, <3>4 DEF Fits, InUse
        <4>2. FirstWritten(nand, fcg, g, ZD[zone].wp \div NSECT)
          <5>1. CASE Z2LogFBG[zone] # -1
            BY <2>1, <3>3, <5>1, Typed
          <5>2. CASE Z2LogFBG[zone] = -1
            <6>1. Z2FBG[zone] # -1
              BY <3>1, <3>4 DEF Fits, InUse
            <6> QED BY <2>1, <3>3, <5>2, <6>1, Typed
          <5> QED BY <5>1, <5>2
        <4> HIDE DEF g
        <4>3. PagesWritten(fcg, g) = {at \in BanksOf(fcg) \X Pages : PageNo(at[1], at[2]) < ZD[zone].wp \div NSECT}
          BY <2>1, <3>2, <4>1, <4>2, Wrote
        <4> QED BY <3>1, <4>3, Passed
      <3>5. ASSUME ByLog(zone)
            PROVE  Cardinality(PagesWritten(fcg, Z2FBG[zone])) = DEG_ZONE * NPAGE
        <4>1. Z2FBG[zone] # -1 /\ Z2FBG[zone] \in Fbgs
          BY <3>1, <3>3, <3>5 DEF Fits
        <4>2. FirstWritten(nand, fcg, Z2FBG[zone], DEG_ZONE * NPAGE)
          BY <2>1, <3>3, <3>5, <4>1, Typed
        <4>3. PagesWritten(fcg, Z2FBG[zone]) =
                {at \in BanksOf(fcg) \X Pages : PageNo(at[1], at[2]) < DEG_ZONE * NPAGE}
          BY <2>1, <3>2, <4>1, <4>2, Wrote
        <4>4. \A at \in BanksOf(fcg) \X Pages : PageNo(at[1], at[2]) < DEG_ZONE * NPAGE
          <5>1. \A at \in BanksOf(fcg) \X Pages : PageNo(at[1], at[2]) \in 0 .. DEG_ZONE * NPAGE - 1
            BY <3>2, GroupPages
          <5> HIDE DEF fcg
          <5> QED BY <5>1, ZonePages
        <4>5. PagesWritten(fcg, Z2FBG[zone]) = BanksOf(fcg) \X Pages
          BY <4>3, <4>4
        <4> QED BY <3>2, <4>5, GroupPages
      <3> QED BY <3>4, <3>5
    <2> QED BY <2>2, <2>3 DEF ChipFollowsZones
  <1> QED BY <1>1, ZnsInvariance, PTL

-----------------------------------------------------------------------------
\* Of two multiples of NSECT, one is a page away from the other, or they are the
\* same.
LEMMA Multiples ==
    ASSUME NEW x \in Nat, NEW y \in Nat
    PROVE  /\ x * NSECT \in Nat /\ y * NSECT \in Nat
           /\ x < y => x * NSECT + NSECT <= y * NSECT
           /\ x <= y => x * NSECT <= y * NSECT
           /\ x = y \/ x < y \/ y < x
  <1>1. x * NSECT \in Nat /\ y * NSECT \in Nat
    BY Sizes
  <1>2. ASSUME x < y PROVE x * NSECT + NSECT <= y * NSECT
    <2>1. (x + 1) * NSECT = x * NSECT + NSECT
      BY Sizes
    <2>2. (x + 1) * NSECT <= y * NSECT
      BY <1>2, Sizes
    <2> QED BY <2>1, <2>2
  <1>3. ASSUME x <= y PROVE x * NSECT <= y * NSECT
    BY <1>3, Sizes
  <1> QED BY <1>1, <1>2, <1>3

\* What a read of sector start + k - 1 of a zone is to answer, and what its
\* answers are made of.
Wanted(zone, start, k) == IF start + k <= ZD[zone].wp THEN Held(zone)[start + k] ELSE Blank
Words(zone) == {Stored(zone, Z2FBG[zone], s) : s \in Nat}
               \cup {buffer[zone][i] : i \in 0 .. NSECT - 1} \cup {Blank}

\* The sectors a zone holds, those in flash and those in its buffer.
LEMMA HeldSectors ==
    ASSUME IndInv, NEW zone \in Zones
    PROVE  LET wp == ZD[zone].wp  end == (wp \div NSECT) * NSECT IN
           /\ wp \in 0 .. ZONE_SIZE /\ end \in Nat /\ wp % NSECT \in 0 .. NSECT - 1
           /\ wp = end + (wp % NSECT)
           /\ ZD[zone].state = "FULL" => wp = ZONE_SIZE /\ end = ZONE_SIZE
           /\ \A s \in Nat : s < end => Held(zone)[s + 1] = Stored(zone, Z2FBG[zone], s)
           /\ \A i \in 0 .. NSECT - 1 : i < wp % NSECT => Held(zone)[end + i + 1] = buffer[zone][i]
           /\ Held(zone) \in Seq(Words(zone)) /\ Len(Held(zone)) = wp
  <1> DEFINE wp == ZD[zone].wp
             end == (wp \div NSECT) * NSECT
  <1>1. wp \in 0 .. ZONE_SIZE /\ (ZD[zone].state = "FULL" => wp = ZONE_SIZE)
    BY DEF IndInv, Tables, AllFit, Fits
  <1>2. /\ wp \div NSECT \in Nat /\ wp % NSECT \in 0 .. NSECT - 1 /\ wp = end + (wp % NSECT)
        /\ wp \in Nat
    <2>1. wp \in Nat
      BY <1>1, Sizes
    <2>2. \A x \in Nat : x = (x \div NSECT) * NSECT + (x % NSECT) /\ x % NSECT \in 0 .. NSECT - 1
                         /\ x \div NSECT \in Nat
      BY Sizes, DivMod
    <2> QED BY <2>1, <2>2
  <1>3. end \in Nat
    BY <1>2, Sizes
  <1>4. wp = ZONE_SIZE => end = ZONE_SIZE
    BY ZonePages DEF ZONE_SIZE
  <1>5. Held(zone) = [x \in 1 .. wp |-> IF x <= end THEN Stored(zone, Z2FBG[zone], x - 1)
                                        ELSE buffer[zone][(x - 1) % NSECT]]
    BY DEF Held
  <1>6. \A i \in 0 .. NSECT - 1 : (end + i) % NSECT = i
    <2>1. \A b \in Nat, p \in 0 .. NSECT - 1 : (b * NSECT + p) % NSECT = p
      BY Sizes, DivMod
    <2> QED BY <1>2, <2>1
  <1> HIDE DEF wp, end
  <1>7. ASSUME NEW s \in Nat, s < end PROVE Held(zone)[s + 1] = Stored(zone, Z2FBG[zone], s)
    <2>1. s + 1 \in 1 .. wp /\ s + 1 <= end /\ (s + 1) - 1 = s
      BY <1>2, <1>3, <1>7
    <2> QED BY <1>5, <2>1
  <1>8. ASSUME NEW i \in 0 .. NSECT - 1, i < wp % NSECT
        PROVE  Held(zone)[end + i + 1] = buffer[zone][i]
    <2>1. end + i + 1 \in 1 .. wp /\ ~(end + i + 1 <= end) /\ (end + i + 1) - 1 = end + i
      BY <1>2, <1>3, <1>8, Sizes
    <2> QED BY <1>5, <1>6, <2>1
  <1>9. ASSUME NEW x \in 1 .. wp PROVE Held(zone)[x] \in Words(zone)
    <2>1. x - 1 \in Nat /\ (x - 1) + 1 = x
      BY <1>2, <1>9
    <2>2. CASE x <= end
      <3>1. x - 1 < end
        BY <1>3, <2>1, <2>2
      <3>2. Held(zone)[x] = Stored(zone, Z2FBG[zone], x - 1)
        BY <1>7, <2>1, <3>1
      <3> QED BY <2>1, <3>2 DEF Words
    <2>3. CASE ~(x <= end)
      <3> DEFINE i == x - 1 - end
      <3>1. i \in 0 .. NSECT - 1 /\ i < wp % NSECT /\ end + i + 1 = x
        BY <1>2, <1>3, <1>9, <2>3, Sizes
      <3> HIDE DEF i
      <3>2. Held(zone)[x] = buffer[zone][i]
        BY <1>8, <3>1
      <3> QED BY <3>1, <3>2 DEF Words
    <2> QED BY <2>2, <2>3
  <1>10. Held(zone) \in [1 .. wp -> Words(zone)]
    BY <1>5, <1>9
  <1>11. Held(zone) \in Seq(Words(zone)) /\ Len(Held(zone)) = wp
    BY <1>2, <1>10
  <1> QED BY <1>1, <1>2, <1>3, <1>4, <1>7, <1>8, <1>11 DEF wp, end

\* Where a read has got to: between two pages, or past the last page in flash.
OnTheWay(zone, start, len) ==
    start + len >= (ZD[zone].wp \div NSECT) * NSECT \/ (start % NSECT = 0 /\ len % NSECT = 0)

\* A read of whole pages.
LEMMA WholePages ==
    ASSUME NEW start \in Nat, NEW len \in Nat, start % NSECT = 0, len % NSECT = 0
    PROVE  /\ ((start + len) \div NSECT) * NSECT = start + len
           /\ (len + NSECT) % NSECT = 0
           /\ \A n \in Nat : n % NSECT = 0 /\ len < n => len + NSECT <= n
           /\ \A e \in Nat : start + len < e * NSECT => start + len + NSECT <= e * NSECT
  <1> DEFINE a == start \div NSECT
             l == len \div NSECT
  <1>1. \A x \in Nat : x = (x \div NSECT) * NSECT + (x % NSECT) /\ x \div NSECT \in Nat
    BY Sizes, DivMod
  <1>2. \A b \in Nat, p \in 0 .. NSECT - 1 : (b * NSECT + p) \div NSECT = b /\ (b * NSECT + p) % NSECT = p
    BY Sizes, DivMod
  <1>3. 0 \in 0 .. NSECT - 1 /\ NSECT \in Nat
    BY Sizes
  <1>4. a \in Nat /\ l \in Nat /\ a * NSECT \in Nat /\ l * NSECT \in Nat
    BY <1>1, <1>3
  <1>5. start = a * NSECT /\ len = l * NSECT
    BY <1>1, <1>4
  <1> HIDE DEF a, l
  <1>6. start + len = (a + l) * NSECT /\ len + NSECT = (l + 1) * NSECT /\ a + l \in Nat /\ l + 1 \in Nat
    BY <1>3, <1>4, <1>5
  <1>7. \A b \in Nat : (b * NSECT) \div NSECT = b /\ (b * NSECT) % NSECT = 0
    <2> TAKE b \in Nat
    <2>1. b * NSECT + 0 = b * NSECT
      BY <1>3
    <2> QED BY <1>2, <1>3, <2>1
  <1>8. ASSUME NEW n \in Nat, n % NSECT = 0, len < n PROVE len + NSECT <= n
    <2> DEFINE m == n \div NSECT
    <2>1. m \in Nat /\ n = m * NSECT + 0
      BY <1>1, <1>8
    <2> HIDE DEF m
    <2>2. m * NSECT \in Nat /\ (l < m => l * NSECT + NSECT <= m * NSECT) /\ (m <= l => m * NSECT <= l * NSECT)
      BY <1>4, <2>1, Multiples
    <2> QED BY <1>4, <1>5, <1>8, <2>1, <2>2
  <1>9. ASSUME NEW e \in Nat, start + len < e * NSECT PROVE start + len + NSECT <= e * NSECT
    <2> DEFINE b == a + l
    <2>1. b \in Nat /\ start + len = b * NSECT
      BY <1>6
    <2> HIDE DEF b
    <2>2. /\ e * NSECT \in Nat /\ (b < e => b * NSECT + NSECT <= e * NSECT)
          /\ (e <= b => e * NSECT <= b * NSECT) /\ b * NSECT \in Nat
      BY <2>1, Multiples
    <2> QED BY <1>9, <2>1, <2>2
  <1> QED BY <1>6, <1>7, <1>8, <1>9

\* A round of zns_read gets what is wanted next, and keeps the read on its way.
LEMMA ReadRound ==
    ASSUME IndInv, NEW zone \in Zones, NEW start \in Nat, NEW nsect \in Nat, start + nsect <= ZONE_SIZE,
           NEW len \in Nat, len < nsect, OnTheWay(zone, start, len)
    PROVE  LET got == Round(zone, start + len, nsect - len) IN
           /\ got \in Seq(Words(zone)) /\ Len(got) >= 1
           /\ \A k \in 1 .. Len(got) : len + k <= nsect => got[k] = Wanted(zone, start, len + k)
           /\ len + Len(got) >= nsect \/ OnTheWay(zone, start, len + Len(got))
           /\ nsect % NSECT = 0 => len + Len(got) <= nsect
  <1> DEFINE wp == ZD[zone].wp
             end == (wp \div NSECT) * NSECT
             lba == start + len
             left == nsect - len
             got == Round(zone, lba, left)
             i == lba % NSECT
             t == wp % NSECT
             page == [x \in 1 .. NSECT |-> Stored(zone, Z2FBG[zone], (lba \div NSECT) * NSECT + x - 1)]
             Right(k) == got[k] = Wanted(zone, start, len + k)
             whole == start % NSECT = 0 /\ len % NSECT = 0
  <1>1. /\ wp \in 0 .. ZONE_SIZE /\ end \in Nat /\ t \in 0 .. NSECT - 1 /\ wp = end + t
        /\ ZD[zone].state = "FULL" => wp = ZONE_SIZE /\ end = ZONE_SIZE
        /\ \A s \in Nat : s < end => Held(zone)[s + 1] = Stored(zone, Z2FBG[zone], s)
        /\ \A x \in 0 .. NSECT - 1 : x < t => Held(zone)[end + x + 1] = buffer[zone][x]
    BY HeldSectors
  <1>2. /\ NSECT \in Nat \ {0} /\ ZONE_SIZE \in Nat /\ lba \in Nat /\ left \in Nat \ {0}
        /\ lba + left <= ZONE_SIZE /\ lba < ZONE_SIZE /\ wp \in Nat
    BY <1>1, Sizes
  <1>3. lba >= end \/ whole
    BY DEF OnTheWay
  <1>4. whole => /\ (lba \div NSECT) * NSECT = lba /\ (len + NSECT) % NSECT = 0
                 /\ (nsect % NSECT = 0 => len + NSECT <= nsect)
                 /\ (lba < end => lba + NSECT <= end)
    <2> SUFFICES ASSUME whole PROVE /\ (lba \div NSECT) * NSECT = lba /\ (len + NSECT) % NSECT = 0
                                    /\ (nsect % NSECT = 0 => len + NSECT <= nsect)
                                    /\ (lba < end => lba + NSECT <= end)
      OBVIOUS
    <2>1. wp \div NSECT \in Nat
      BY <1>2, Sizes, DivMod
    <2> QED BY <2>1, WholePages
  <1>5. whole => page \in [1 .. NSECT -> Words(zone)] /\ \A x \in 1 .. NSECT : page[x] = Stored(zone, Z2FBG[zone], lba + x - 1)
    <2>1. \A x \in 1 .. NSECT : lba + x - 1 \in Nat
      BY <1>2
    <2> HIDE DEF lba
    <2> QED BY <1>4, <2>1 DEF Words
  <1>6. got = IF ZD[zone].state = "FULL" THEN SubSeq(page, 1, Least(left, NSECT))
              ELSE IF lba >= wp THEN [k \in 1 .. left |-> Blank]
              ELSE IF InFlash(zone, lba) THEN page
              ELSE [k \in 1 .. Least(left, t - i) |-> buffer[zone][i + k - 1]]
    BY DEF Round
  <1>7. InFlash(zone, lba) <=> lba + NSECT - 1 < wp
    BY DEF InFlash
  <1>8. \A k \in Nat : Wanted(zone, start, len + k) =
            IF lba + k <= wp THEN Held(zone)[lba + k] ELSE Blank
    <2>1. \A k \in Nat : start + (len + k) = lba + k
      OBVIOUS
    <2> HIDE DEF lba
    <2> QED BY <2>1 DEF Wanted
  <1>9. \A n \in Nat : start + (len + n) = lba + n
    OBVIOUS
  <1>10. nsect = len + left
    OBVIOUS
  <1>17. \A n \in Nat : OnTheWay(zone, start, len + n) <=>
            lba + n >= end \/ (start % NSECT = 0 /\ (len + n) % NSECT = 0)
    BY <1>9 DEF OnTheWay
  <1>18. whole => start % NSECT = 0
    OBVIOUS
  <1> DEFINE Goal == /\ got \in Seq(Words(zone)) /\ Len(got) >= 1
                     /\ \A k \in 1 .. Len(got) : len + k <= nsect => Right(k)
                     /\ len + Len(got) >= nsect \/ OnTheWay(zone, start, len + Len(got))
                     /\ nsect % NSECT = 0 => len + Len(got) <= nsect
  <1> SUFFICES Goal
    OBVIOUS
  <1> HIDE DEF page, got, wp, end, lba, left, t, i, whole, Right
  \* A page of the flash.
  <1>11. ASSUME whole, lba < end, NEW n \in 1 .. NSECT, got = SubSeq(page, 1, n), n = NSECT \/ n = left
         PROVE  /\ got \in Seq(Words(zone)) /\ Len(got) = n
                /\ \A k \in 1 .. n : Right(k)
    <2>1. page \in Seq(Words(zone)) /\ Len(page) = NSECT
      BY <1>2, <1>5, <1>11
    <2>2. got \in Seq(Words(zone)) /\ Len(got) = n /\ \A k \in 1 .. n : got[k] = page[k]
      BY <1>2, <1>11, <2>1
    <2>3. ASSUME NEW k \in 1 .. n PROVE Right(k)
      <3>1. lba + k - 1 \in Nat /\ lba + k - 1 < end /\ (lba + k - 1) + 1 = lba + k /\ lba + k <= wp /\ k \in Nat
            /\ k \in 1 .. NSECT
        BY <1>1, <1>2, <1>4, <1>11
      <3>2. got[k] = Held(zone)[lba + k]
        <4>1. got[k] = Stored(zone, Z2FBG[zone], lba + k - 1)
          BY <1>5, <1>11, <2>2, <3>1
        <4>2. Held(zone)[(lba + k - 1) + 1] = Stored(zone, Z2FBG[zone], lba + k - 1)
          BY <1>1, <3>1
        <4> QED BY <3>1, <4>1, <4>2
      <3> QED BY <1>8, <3>1, <3>2 DEF Right
    <2> QED BY <2>2, <2>3
  <1>12. CASE ZD[zone].state = "FULL"
    <2> DEFINE n == Least(left, NSECT)
    <2>1. n \in 1 .. NSECT /\ n <= left /\ (n = left \/ n = NSECT)
      BY <1>2 DEF Least
    <2>2. lba < end /\ whole
      BY <1>1, <1>2, <1>3, <1>12
    <2>3. got = SubSeq(page, 1, n)
      BY <1>6, <1>12
    <2> HIDE DEF n
    <2>4. got \in Seq(Words(zone)) /\ Len(got) = n /\ \A k \in 1 .. n : Right(k)
      BY <1>11, <2>1, <2>2, <2>3
    <2>5. len + n <= nsect /\ (n = NSECT => OnTheWay(zone, start, len + n)) /\ (n = left => len + n >= nsect)
      <3>1. n \in Nat /\ (n = left => len + n = nsect) /\ len + n <= nsect
        BY <1>2, <1>10, <2>1
      <3> QED BY <1>4, <1>17, <1>18, <2>2, <3>1
    <2> QED BY <2>1, <2>4, <2>5
  <1>13. CASE ZD[zone].state # "FULL" /\ lba >= wp
    <2>1. got = [k \in 1 .. left |-> Blank]
      BY <1>6, <1>13
    <2>2. got \in Seq(Words(zone)) /\ Len(got) = left
      BY <1>2, <2>1 DEF Words
    <2>3. \A k \in 1 .. left : Right(k)
      <3> TAKE k \in 1 .. left
      <3>1. k \in Nat /\ ~(lba + k <= wp)
        BY <1>2, <1>13
      <3> QED BY <1>8, <2>1, <3>1 DEF Right
    <2> QED BY <1>2, <1>10, <2>2, <2>3
  <1>14. CASE ZD[zone].state # "FULL" /\ lba < wp /\ lba + NSECT - 1 < wp
    <2>1. lba < end
      BY <1>1, <1>2, <1>14
    <2>2. whole
      BY <1>1, <1>2, <1>3, <2>1
    <2>3. got = page
      BY <1>2, <1>6, <1>7, <1>14
    <2>4. page = SubSeq(page, 1, NSECT)
      <3>1. page \in [1 .. NSECT -> Words(zone)]
        BY <1>5, <2>2
      <3>2. page \in Seq(Words(zone)) /\ Len(page) = NSECT
        BY <1>2, <3>1
      <3>3. SubSeq(page, 1, NSECT) \in Seq(Words(zone)) /\ Len(SubSeq(page, 1, NSECT)) = NSECT
            /\ \A k \in 1 .. NSECT : SubSeq(page, 1, NSECT)[k] = page[k]
        BY <1>2, <3>2
      <3> DEFINE p == SubSeq(page, 1, NSECT)
      <3>4. p \in Seq(Words(zone)) /\ Len(p) = NSECT /\ \A k \in 1 .. NSECT : p[k] = page[k]
        BY <3>3
      <3> HIDE DEF p
      <3>5. page = p
        BY <3>2, <3>4
      <3> QED BY <3>5 DEF p
    <2>5. got \in Seq(Words(zone)) /\ Len(got) = NSECT /\ \A k \in 1 .. NSECT : Right(k)
      BY <1>2, <1>11, <2>1, <2>2, <2>3, <2>4
    <2>6. OnTheWay(zone, start, len + NSECT) /\ (nsect % NSECT = 0 => len + NSECT <= nsect)
      BY <1>2, <1>4, <1>17, <1>18, <2>2
    <2> QED BY <1>2, <2>5, <2>6
  \* The page in the buffer.
  <1>15. CASE ZD[zone].state # "FULL" /\ lba < wp /\ ~(lba + NSECT - 1 < wp)
    <2> DEFINE n == Least(left, t - i)
    <2>1. lba >= end
      BY <1>1, <1>2, <1>3, <1>4, <1>15
    <2>2. i = lba - end
      <3> DEFINE q == lba - end
                 e == wp \div NSECT
      <3>1. q \in 0 .. NSECT - 1 /\ lba = end + q
        BY <1>1, <1>2, <1>15, <2>1
      <3>2. e \in Nat /\ end = e * NSECT
        BY <1>2, Sizes, DivMod DEF end
      <3> HIDE DEF q, e
      <3>3. (e * NSECT + q) % NSECT = q
        BY <3>1, <3>2, Sizes, DivMod
      <3>4. i = q
        BY <3>1, <3>2, <3>3 DEF i
      <3> QED BY <3>4 DEF q
    <2>3. i \in 0 .. NSECT - 1 /\ i < t /\ lba = end + i
      BY <1>1, <1>2, <1>15, <2>1, <2>2
    <2>4. n \in 1 .. NSECT /\ n <= left /\ n <= t - i /\ (n = left \/ n = t - i)
      BY <1>1, <1>2, <2>3 DEF Least
    <2>5. got = [k \in 1 .. n |-> buffer[zone][i + k - 1]]
      BY <1>6, <1>7, <1>2, <1>15
    <2> HIDE DEF n
    <2>6. ASSUME NEW k \in 1 .. n PROVE Right(k) /\ got[k] \in Words(zone)
      <3> DEFINE x == i + k - 1
      <3>1. x \in 0 .. NSECT - 1 /\ x < t /\ end + x + 1 = lba + k /\ lba + k <= wp /\ k \in Nat
        BY <1>1, <1>2, <2>3, <2>4, <2>6
      <3>2. got[k] = buffer[zone][x]
        BY <2>5, <2>6
      <3> HIDE DEF x
      <3>3. Held(zone)[end + x + 1] = buffer[zone][x]
        BY <1>1, <3>1
      <3>4. got[k] = Held(zone)[lba + k]
        <4> QED BY <3>1, <3>2, <3>3
      <3> QED BY <1>8, <3>1, <3>2, <3>4 DEF Right, Words
    <2>7. got \in Seq(Words(zone)) /\ Len(got) = n
      <3>1. n \in Nat /\ \A k \in 1 .. n : got[k] \in Words(zone)
        BY <2>4, <2>6
      <3>2. got \in [1 .. n -> Words(zone)]
        BY <2>5, <3>1
      <3> QED BY <3>1, <3>2
    <2>8. len + n <= nsect /\ (n = left => len + n >= nsect) /\ (n = t - i => OnTheWay(zone, start, len + n))
      <3>1. n = t - i => lba + n = wp /\ wp >= end
        BY <1>1, <1>2, <2>3
      <3>2. n \in Nat
        BY <2>4
      <3>3. n = t - i => OnTheWay(zone, start, len + n)
        BY <1>1, <1>2, <1>17, <3>1, <3>2
      <3> QED BY <1>2, <1>10, <2>4, <3>3
    <2> QED BY <2>4, <2>6, <2>7, <2>8
  <1> QED BY <1>2, <1>12, <1>13, <1>14, <1>15

\* What zns_read has after some rounds, each of which gets a sector or more.
LEMMA ReadAll ==
    ASSUME IndInv, NEW zone \in Zones, NEW start \in Nat, NEW nsect \in Nat, start + nsect <= ZONE_SIZE,
           OnTheWay(zone, start, 0)
    PROVE  LET data == zns_read(zone, start, nsect) IN
           /\ data \in Seq(Words(zone)) /\ Len(data) >= nsect
           /\ nsect % NSECT = 0 => Len(data) = nsect
           /\ \A k \in 1 .. nsect : data[k] = Wanted(zone, start, k)
  <1> DEFINE W == Words(zone)
             next(data) == IF Len(data) >= nsect THEN data
                           ELSE data \o Round(zone, start + Len(data), nsect - Len(data))
             done(data, i) == /\ data \in Seq(W)
                              /\ Len(data) >= nsect \/ (Len(data) >= i /\ OnTheWay(zone, start, Len(data)))
                              /\ nsect % NSECT = 0 => Len(data) <= nsect
                              /\ \A k \in 1 .. Len(data) : k <= nsect => data[k] = Wanted(zone, start, k)
             IsRead(f) == f = [i \in 0 .. nsect |-> IF i = 0 THEN <<>> ELSE next(f[i - 1])]
             read == CHOOSE f : IsRead(f)
             good == [i \in 0 .. nsect |-> {data \in Seq(W) : done(data, i)}]
  <1>1. done(<<>>, 0)
    BY DEF OnTheWay
  <1>2. ASSUME NEW i \in 1 .. nsect, NEW data, done(data, i - 1) PROVE done(next(data), i)
    <2>1. CASE Len(data) >= nsect
      BY <1>2, <2>1
    <2>2. CASE ~(Len(data) >= nsect)
      <3> DEFINE len == Len(data)
                 got == Round(zone, start + len, nsect - len)
                 more == data \o got
      <3>1. len \in Nat /\ len < nsect /\ OnTheWay(zone, start, len) /\ len >= i - 1
        BY <1>2, <2>2
      <3>2. /\ got \in Seq(W) /\ Len(got) >= 1
            /\ \A k \in 1 .. Len(got) : len + k <= nsect => got[k] = Wanted(zone, start, len + k)
            /\ len + Len(got) >= nsect \/ OnTheWay(zone, start, len + Len(got))
            /\ nsect % NSECT = 0 => len + Len(got) <= nsect
        <4> HIDE DEF len
        <4> QED BY <3>1, ReadRound
      <3> HIDE DEF got
      <3>3. /\ more \in Seq(W) /\ Len(more) = len + Len(got) /\ Len(got) \in Nat
            /\ \A k \in 1 .. len : more[k] = data[k]
            /\ \A k \in len + 1 .. len + Len(got) : more[k] = got[k - len]
        BY <1>2, <3>2
      <3> HIDE DEF more, W
      <3>4. ASSUME NEW k \in 1 .. Len(more), k <= nsect PROVE more[k] = Wanted(zone, start, k)
        <4>1. CASE k <= len
          <5>1. k \in 1 .. len
            BY <3>1, <4>1
          <5> QED BY <1>2, <3>3, <3>4, <5>1
        <4>2. CASE ~(k <= len)
          <5> HIDE DEF len
          <5>1. k - len \in 1 .. Len(got) /\ len + (k - len) = k /\ k \in len + 1 .. len + Len(got)
            BY <3>1, <3>3, <3>4, <4>2
          <5>2. got[k - len] = Wanted(zone, start, len + (k - len))
            BY <3>2, <3>4, <5>1
          <5> QED BY <3>3, <5>1, <5>2
        <4> QED BY <4>1, <4>2
      <3>5. done(more, i)
        <4> HIDE DEF len
        <4>1. len + Len(got) >= i
          BY <3>1, <3>2, <3>3
        <4> QED BY <3>2, <3>3, <3>4, <4>1
      <3>6. next(data) = more
        BY <2>2 DEF more, got
      <3> QED BY <3>5, <3>6
    <2> QED BY <2>1, <2>2
  <1>3. \A data, i : done(data, i) => data \in Seq(W)
    OBVIOUS
  <1> HIDE DEF done, next
  <1>4. \E f : IsRead(f)
    <2> DEFINE round == [i \in 1 .. nsect |-> [data \in Seq(W) |-> IF done(data, i - 1) THEN next(data) ELSE data]]
    <2>1. \A i \in 1 .. nsect, data \in Seq(W) : (IF done(data, i - 1) THEN next(data) ELSE data) \in Seq(W)
      BY <1>2, <1>3
    <2> HIDE DEF W
    <2>2. round \in [1 .. nsect -> [Seq(W) -> Seq(W)]]
      BY <2>1
    <2>3. good \in [0 .. nsect -> SUBSET Seq(W)] /\ <<>> \in good[0]
      BY <1>1, <1>3
    <2>4. \A i \in 1 .. nsect : \A data \in good[i - 1] : round[i][data] \in good[i] /\ round[i][data] = next(data)
      <3> TAKE i \in 1 .. nsect
      <3>1. i - 1 \in 0 .. nsect /\ i \in 0 .. nsect
        OBVIOUS
      <3> TAKE data \in good[i - 1]
      <3>2. data \in Seq(W) /\ done(data, i - 1)
        BY <3>1
      <3>3. done(next(data), i)
        BY <1>2, <3>2
      <3> QED BY <1>3, <3>1, <3>2, <3>3
    <2> HIDE DEF round, good
    <2>5. PICK f \in [0 .. nsect -> Seq(W)] : IsLoop(f, nsect, <<>>, round) /\ \A i \in 0 .. nsect : f[i] \in good[i]
      <3>1. \A i \in 1 .. nsect : \A data \in good[i - 1] : round[i][data] \in good[i]
        BY <2>4
      <3> QED BY <2>2, <2>3, <3>1, LoopResult
    <2>6. \A i \in 0 .. nsect : f[i] = IF i = 0 THEN <<>> ELSE next(f[i - 1])
      <3> TAKE i \in 0 .. nsect
      <3>1. CASE i = 0
        BY <2>5, <3>1 DEF IsLoop
      <3>2. CASE i # 0
        <4>1. i \in 1 .. nsect /\ i - 1 \in 0 .. nsect
          BY <3>2
        <4> QED BY <2>4, <2>5, <3>2, <4>1 DEF IsLoop
      <3> QED BY <3>1, <3>2
    <2>7. IsRead(f)
      BY <2>5, <2>6
    <2> QED BY <2>7
  <1>5. IsRead(read)
    BY <1>4
  <1>6. zns_read(zone, start, nsect) = read[nsect]
    BY DEF zns_read, next
  <1> HIDE DEF read
  <1>7. read[0] = <<>> /\ \A i \in 1 .. nsect : read[i] = next(read[i - 1])
    BY <1>5
  <1> DEFINE able == {i \in 0 .. nsect : done(read[i], i)}
  <1>8. 0 \in able
    BY <1>1, <1>7
  <1>9. \A i \in 1 .. nsect : i - 1 \in able => i \in able
    BY <1>2, <1>7
  <1> HIDE DEF able
  <1>10. \A i \in 0 .. nsect : i \in able
    BY <1>8, <1>9, Rounds
  <1>11. done(read[nsect], nsect)
    BY <1>10 DEF able
  <1> DEFINE data == read[nsect]
  <1>12. zns_read(zone, start, nsect) = data
    BY <1>6
  <1>13. done(data, nsect)
    BY <1>11
  <1> HIDE DEF data
  <1>14. /\ data \in Seq(W) /\ Len(data) >= nsect
         /\ nsect % NSECT = 0 => Len(data) = nsect
         /\ \A k \in 1 .. nsect : data[k] = Wanted(zone, start, k)
    BY <1>13 DEF done
  <1> QED BY <1>12, <1>14

\* zns_read answers with the words that its zone holds as a zoned device, from
\* flash and from the buffer, and blanks after them (zns.c:195-234): all that it
\* was asked for, and no more if that is a multiple of NSECT.  That the words are
\* those the host wrote is ZnsIsADevice.  The host is careful.
THEOREM ReadsAreCorrect == CarefulSpec => []ReadsBack
  <1>1. IndInv => ReadsBack
    <2> SUFFICES ASSUME IndInv, NEW zone \in Zones, ~ByLog(zone), NEW start \in Sectors,
                        start % NSECT = 0 \/ start >= (ZD[zone].wp \div NSECT) * NSECT,
                        NEW nsect \in 1 .. ZONE_SIZE - start
                 PROVE  LET data == zns_read(zone, start, nsect) IN
                        /\ Len(data) >= nsect
                        /\ nsect % NSECT = 0 => Len(data) = nsect
                        /\ SubSeq(data, 1, nsect) = Device!Answer(zone, start, nsect)
      BY DEF ReadsBack
    <2> DEFINE data == zns_read(zone, start, nsect)
               answer == Device!Answer(zone, start, nsect)
    <2>1. start \in Nat /\ nsect \in Nat /\ start + nsect <= ZONE_SIZE /\ nsect >= 1
      BY Sizes DEF Sectors
    <2>2. OnTheWay(zone, start, 0)
      <3>1. 0 % NSECT = 0 /\ start + 0 = start
        BY <2>1, Sizes
      <3> QED BY <3>1 DEF OnTheWay
    <2>3. /\ data \in Seq(Words(zone)) /\ Len(data) >= nsect
          /\ nsect % NSECT = 0 => Len(data) = nsect
          /\ \A k \in 1 .. nsect : data[k] = Wanted(zone, start, k)
      BY <2>1, <2>2, ReadAll
    <2>4. ZoneOf[zone].data = Held(zone) /\ Len(Held(zone)) = ZD[zone].wp
      BY HeldSectors DEF ZoneOf
    <2>5. answer = [k \in 1 .. nsect |-> Wanted(zone, start, k)]
      BY <2>4 DEF Device!Answer, Wanted
    <2> HIDE DEF data, answer
    <2>6. SubSeq(data, 1, nsect) = [k \in 1 .. nsect |-> data[k]]
      <3> DEFINE p == SubSeq(data, 1, nsect)
      <3>1. p \in Seq(Words(zone)) /\ Len(p) = nsect /\ \A k \in 1 .. nsect : p[k] = data[k]
        BY <2>1, <2>3
      <3> HIDE DEF p
      <3>2. p = [k \in 1 .. nsect |-> p[k]]
        BY <3>1
      <3>3. p = [k \in 1 .. nsect |-> data[k]]
        BY <3>1, <3>2
      <3> QED BY <3>3 DEF p
    <2>7. SubSeq(data, 1, nsect) = answer
      BY <2>3, <2>5, <2>6
    <2> QED BY <2>3, <2>7 DEF data, answer
  <1> QED BY <1>1, ZnsInvariance, PTL

-----------------------------------------------------------------------------
\* What a sector of a block group reads as on these chips, and what a zone
\* holds that is written up to wp.
SectorOn(chips, zone, fbg, s) ==
    NandRead(chips[lba_to_bank(zone, s)], fbg, lba_to_page(s), [i \in 0 .. NSECT - 1 |-> Junk])[s % NSECT]
HeldOn(chips, buf, fbg, wp, zone) ==
    [s \in 1 .. wp |-> IF s <= (wp \div NSECT) * NSECT THEN SectorOn(chips, zone, fbg, s - 1)
                       ELSE buf[(s - 1) % NSECT]]

\* So far as a zone has no log.
LEMMA HeldIs ==
    /\ \A zone \in Zones : Held(zone) = HeldOn(nand, buffer[zone], Z2FBG[zone], ZD[zone].wp, zone)
    /\ \A zone \in Zones : Held(zone)' = HeldOn(nand', buffer'[zone], Z2FBG'[zone], ZD'[zone].wp, zone)
  BY DEF Held, HeldOn, Stored, SectorOn

\* The data of an empty zone.
LEMMA HoldsNothing == \A chips, buf, fbg, zone : HeldOn(chips, buf, fbg, 0, zone) = <<>>
  BY DEF HeldOn

\* What a call wrote is what its zone holds.
LEMMA HeldByCall ==
    ASSUME NEW d, NEW fbg, Working(d, fbg)
    PROVE  LET data == HeldOn(d.nand, d.buf, fbg, d.wp, d.zone) IN
           /\ data \in Seq(Data) /\ Len(data) = d.wp
           /\ \A s \in Sectors : s < d.wp => data[s + 1] = Has(d, fbg, s)
  <1> DEFINE wp == d.wp
             end == (wp \div NSECT) * NSECT
             zone == d.zone
             data == HeldOn(d.nand, d.buf, fbg, wp, zone)
  <1>1. /\ wp \in 0 .. ZONE_SIZE /\ zone \in Zones /\ d.nand \in [Banks -> Chip] /\ fbg \in Fbgs
        /\ d.buf \in [0 .. NSECT - 1 -> Data \cup {Zero}] /\ IsLog(d.nand)
        /\ FirstWritten(d.nand, zone_to_fcg(zone), fbg, wp \div NSECT)
        /\ \A i \in 0 .. NSECT - 1 : i < wp % NSECT => d.buf[i] \in Data
    BY DEF Working, Calls
  <1>2. wp \div NSECT \in Nat /\ wp % NSECT \in 0 .. NSECT - 1 /\ wp = end + (wp % NSECT) /\ end \in Nat
    <2>1. wp \in Nat
      BY <1>1
    <2>2. wp \div NSECT \in Nat /\ wp % NSECT \in 0 .. NSECT - 1
          /\ wp = (wp \div NSECT) * NSECT + (wp % NSECT)
      BY <2>1, Sizes, DivMod
    <2> QED BY <2>2, Sizes
  <1>3. ASSUME NEW s \in Sectors, s < end
        PROVE  /\ SectorOn(d.nand, zone, fbg, s) = d.nand[lba_to_bank(zone, s)].cell[Ppn(fbg, lba_to_page(s))][s % NSECT]
               /\ SectorOn(d.nand, zone, fbg, s) \in Data
    <2> DEFINE bank == lba_to_bank(zone, s)
               page == lba_to_page(s)
               cell == d.nand[bank].cell[Ppn(fbg, page)]
    <2>1. /\ bank \in BanksOf(zone_to_fcg(zone)) /\ page \in Pages
          /\ PageNo(bank, page) = s \div NSECT /\ s % NSECT \in 0 .. NSECT - 1
          /\ s = (s \div NSECT) * NSECT + (s % NSECT) /\ s \div NSECT \in Nat
      BY <1>1, SectorPlace
    <2>2. bank \in Banks /\ Ppn(fbg, page) \in Ppns
      BY <1>1, <2>1, PpnFacts DEF BanksOf
    <2>3. s \div NSECT < wp \div NSECT
      <3> DEFINE x == s \div NSECT
                 y == wp \div NSECT
      <3>1. x \in Nat /\ y \in Nat /\ x * NSECT <= s /\ s < y * NSECT
        <4>1. x * NSECT \in Nat
          BY <2>1, Sizes
        <4> QED BY <1>2, <1>3, <2>1, <4>1
      <3> HIDE DEF x, y
      <3>2. y <= x => y * NSECT <= x * NSECT
        BY <3>1, Multiples
      <3>3. x * NSECT \in Nat /\ y * NSECT \in Nat /\ s \in Nat
        BY <3>1, Sizes DEF Sectors
      <3>4. x < y
        BY <3>1, <3>2, <3>3
      <3> QED BY <3>4 DEF x, y
    <2>4. page < d.nand[bank].blk_index[fbg]
      BY <1>1, <2>1, <2>3 DEF FirstWritten
    <2>5. cell # Erased
      BY <1>1, <2>1, <2>2, <2>4 DEF IsLog
    <2>6. cell \in Page
      BY <1>1, <2>2, <2>5 DEF Chip
    <2>7. SectorOn(d.nand, zone, fbg, s) = cell[s % NSECT]
      BY <1>1, <2>1, <2>5 DEF SectorOn, NandRead, ReadCode, Blks, Fbgs
    <2> QED BY <2>1, <2>6, <2>7 DEF Page
  <1>4. ASSUME NEW s \in Sectors, s < wp
        PROVE  data[s + 1] = Has(d, fbg, s) /\ data[s + 1] \in Data
    <2>1. s \in Nat /\ s + 1 \in 1 .. wp /\ (s + 1) - 1 = s
      BY <1>1, <1>4, Sizes, SMTT(30) DEF Sectors
    <2>2. data[s + 1] = IF s + 1 <= end THEN SectorOn(d.nand, zone, fbg, s) ELSE d.buf[s % NSECT]
      <3> HIDE DEF end, zone, wp
      <3>1. data[s + 1] = IF s + 1 <= (wp \div NSECT) * NSECT THEN SectorOn(d.nand, zone, fbg, (s + 1) - 1)
                          ELSE d.buf[((s + 1) - 1) % NSECT]
        BY <2>1 DEF HeldOn
      <3> QED BY <2>1, <3>1 DEF end
    <2>3. CASE s < end
      <3>1. s + 1 <= end
        BY <1>2, <2>1, <2>3
      <3> QED BY <1>3, <2>2, <2>3, <3>1 DEF Has
    <2>4. CASE ~(s < end)
      <3>1. ~(s + 1 <= end)
        BY <1>2, <2>1, <2>4
      <3>2. s % NSECT \in 0 .. NSECT - 1 /\ s % NSECT < wp % NSECT
        <4> DEFINE r == s - end
                   x == wp \div NSECT
        <4> HIDE DEF end, wp
        <4>1. r \in 0 .. NSECT - 1 /\ s = end + r /\ r < wp % NSECT
          BY <1>2, <1>4, <2>1, <2>4, Sizes DEF wp
        <4>2. x \in Nat /\ end = x * NSECT
          BY <1>2 DEF end
        <4> HIDE DEF r, x
        <4>3. (x * NSECT + r) % NSECT = r
          BY <4>1, <4>2, Sizes, DivMod
        <4> QED BY <4>1, <4>2, <4>3
      <3>3. d.buf[s % NSECT] \in Data
        BY <1>1, <3>2
      <3> QED BY <2>2, <2>4, <3>1, <3>3 DEF Has
    <2> QED BY <2>3, <2>4
  <1>5. data \in Seq(Data) /\ Len(data) = wp
    <2>1. \A k \in 1 .. wp : data[k] \in Data
      <3> TAKE k \in 1 .. wp
      <3>1. k - 1 \in Sectors /\ k - 1 < wp /\ (k - 1) + 1 = k
        BY <1>1, Sizes DEF Sectors
      <3> HIDE DEF data
      <3>2. data[(k - 1) + 1] \in Data
        BY <1>4, <3>1
      <3> QED BY <3>1, <3>2
    <2>2. DOMAIN data = 1 .. wp /\ data = [k \in 1 .. wp |-> data[k]]
      BY DEF HeldOn
    <2> HIDE DEF data
    <2>3. data \in [1 .. wp -> Data]
      BY <2>1, <2>2
    <2> QED BY <1>1, <2>3, Sizes
  <1> QED BY <1>4, <1>5

\* What a zone holds does not change with other block groups.
LEMMA HeldElsewhere ==
    ASSUME NEW old, NEW new, NEW zone \in Zones, NEW fbg \in Fbgs \cup {-1}, NEW wp \in 0 .. ZONE_SIZE, NEW buf,
           fbg = -1 => wp = 0,
           \A bank \in BanksOf(zone_to_fcg(zone)), page \in Pages :
               fbg # -1 => new[bank].cell[Ppn(fbg, page)] = old[bank].cell[Ppn(fbg, page)]
    PROVE  HeldOn(new, buf, fbg, wp, zone) = HeldOn(old, buf, fbg, wp, zone)
  <1>1. CASE fbg = -1
    BY <1>1, HoldsNothing
  <1>2. CASE fbg # -1
    <2>1. ASSUME NEW s \in Sectors PROVE SectorOn(new, zone, fbg, s) = SectorOn(old, zone, fbg, s)
      <3>1. lba_to_bank(zone, s) \in BanksOf(zone_to_fcg(zone)) /\ lba_to_page(s) \in Pages
        BY SectorPlace
      <3>2. new[lba_to_bank(zone, s)].cell[Ppn(fbg, lba_to_page(s))] = old[lba_to_bank(zone, s)].cell[Ppn(fbg, lba_to_page(s))]
        BY <1>2, <3>1
      <3> QED BY <3>2 DEF SectorOn, NandRead, ReadCode
    <2>2. \A s \in 1 .. wp : s - 1 \in Sectors
      BY Sizes DEF Sectors
    <2>3. \A s \in 1 .. wp : SectorOn(new, zone, fbg, s - 1) = SectorOn(old, zone, fbg, s - 1)
      BY <2>1, <2>2
    <2> QED BY <2>3 DEF HeldOn
  <1> QED BY <1>1, <1>2

-----------------------------------------------------------------------------
\* No two zones share a block group.
LEMMA Apart ==
    ASSUME Tables, Owned(FBG_Queue, HeldBy), NEW y \in Zones, NEW z \in Zones, y # z,
           zone_to_fcg(y) = zone_to_fcg(z), Z2FBG[y] # -1
    PROVE  Z2FBG[y] # Z2FBG[z] /\ Z2FBG[y] # Z2LogFBG[z]
  <1>1. /\ <<y, "data">> # <<z, "data">> /\ <<y, "data">> # <<z, "log">>
        /\ HeldBy[<<y, "data">>] # -1
    BY Typed
  <1>2. \A h, k \in Holders : FcgOf(h) = FcgOf(k) /\ HeldBy[h] = HeldBy[k] /\ HeldBy[h] # -1 => h = k
    BY DEF Owned
  <1>3. /\ <<y, "data">> \in Holders /\ <<z, "data">> \in Holders /\ <<z, "log">> \in Holders
        /\ FcgOf(<<y, "data">>) = FcgOf(<<z, "data">>) /\ FcgOf(<<y, "data">>) = FcgOf(<<z, "log">>)
    BY DEF Holders, FcgOf
  <1>4. HeldBy[<<y, "data">>] # HeldBy[<<z, "data">>] /\ HeldBy[<<y, "data">>] # HeldBy[<<z, "log">>]
    BY <1>1, <1>2, <1>3
  <1> QED BY <1>4, Typed

\* The same of the next state.
LEMMA ApartNext ==
    ASSUME Tables', Owned(FBG_Queue', HeldBy'), NEW y \in Zones, NEW z \in Zones, y # z,
           zone_to_fcg(y) = zone_to_fcg(z), Z2FBG'[y] # -1
    PROVE  Z2FBG'[y] # Z2FBG'[z] /\ Z2FBG'[y] # Z2LogFBG'[z]
  <1>1. /\ <<y, "data">> # <<z, "data">> /\ <<y, "data">> # <<z, "log">>
        /\ HeldBy'[<<y, "data">>] # -1
    BY TypedNext
  <1>2. \A h, k \in Holders : FcgOf(h) = FcgOf(k) /\ HeldBy'[h] = HeldBy'[k] /\ HeldBy'[h] # -1 => h = k
    BY DEF Owned
  <1>3. /\ <<y, "data">> \in Holders /\ <<z, "data">> \in Holders /\ <<z, "log">> \in Holders
        /\ FcgOf(<<y, "data">>) = FcgOf(<<z, "data">>) /\ FcgOf(<<y, "data">>) = FcgOf(<<z, "log">>)
    BY DEF Holders, FcgOf
  <1>4. HeldBy'[<<y, "data">>] # HeldBy'[<<z, "data">>] /\ HeldBy'[<<y, "data">>] # HeldBy'[<<z, "log">>]
    BY <1>1, <1>2, <1>3
  <1> QED BY <1>4, TypedNext

\* A zone that a call leaves alone, and whose block group it does not touch.
LEMMA ZoneKept ==
    ASSUME IndInv, NEW y \in Zones,
           ZD'[y] = ZD[y], Z2FBG'[y] = Z2FBG[y], Z2LogFBG'[y] = Z2LogFBG[y], buffer'[y] = buffer[y],
           Z2FBG[y] # -1 => \A bank \in BanksOf(zone_to_fcg(y)), page \in Pages :
               nand'[bank].cell[Ppn(Z2FBG[y], page)] = nand[bank].cell[Ppn(Z2FBG[y], page)]
    PROVE  ZoneOf'[y] = ZoneOf[y]
  <1>1. Z2FBG[y] \in Fbgs \cup {-1} /\ ZD[y].wp \in 0 .. ZONE_SIZE
    BY DEF IndInv, Tables
  <1>2. Z2FBG[y] = -1 => ZD[y].wp = 0
    BY DEF IndInv, AllFit, Fits
  <1> DEFINE g == Z2FBG[y]
             wp == ZD[y].wp
             new == nand'
  <1>3. \A bank \in BanksOf(zone_to_fcg(y)), page \in Pages :
            g # -1 => new[bank].cell[Ppn(g, page)] = nand[bank].cell[Ppn(g, page)]
    OBVIOUS
  <1> HIDE DEF g, wp, new
  <1>5. HeldOn(new, buffer[y], g, wp, y) = HeldOn(nand, buffer[y], g, wp, y)
    BY <1>1, <1>2, <1>3, HeldElsewhere DEF g, wp
  <1>4. Held(y)' = Held(y)
    BY <1>5, HeldIs DEF g, wp, new
  <1> QED BY <1>4 DEF ZoneOf, ByLog

\* What a zone is before and after.
LEMMA ZoneIs ==
    /\ \A z \in Zones : ZoneOf[z] =
          [state |-> ZD[z].state, tl |-> ByLog(z), data |-> IF ByLog(z) THEN <<>> ELSE Held(z)]
    /\ \A z \in Zones : ZoneOf'[z] =
          [state |-> ZD'[z].state, tl |-> ByLog(z)', data |-> IF ByLog(z)' THEN <<>> ELSE Held(z)']
    /\ \A z \in Zones : ByLog(z)' <=> ZD'[z].state = "TLOPEN" \/ Z2LogFBG'[z] # -1
    /\ DOMAIN ZoneOf = Zones /\ DOMAIN ZoneOf' = Zones
    /\ ZoneOf = [z \in Zones |-> ZoneOf[z]] /\ ZoneOf' = [z \in Zones |-> ZoneOf'[z]]
  BY DEF ZoneOf, ByLog

\* The module of the device counts alike.
LEMMA SameCount == \A S : Device!Cardinality(S) = Cardinality(S)
  BY DEF Device!Cardinality, Cardinality

\* The two counts of open zones.
LEMMA MayOpenIs ==
    ASSUME IndInv
    PROVE  Open_Zone_Cnt # MAX_OPEN_ZONE <=> Device!MayOpen
  <1>1. {z \in Zones : Device!IsOpen(z)} = OpenZones
    <2>1. \A z \in Zones : ZoneOf[z].state = ZD[z].state
      BY ZoneIs
    <2> QED BY <2>1 DEF Device!IsOpen, OpenZones, InUse
  <1>2. Device!MayOpen <=> Cardinality(OpenZones) < MAX_OPEN_ZONE
    BY <1>1, SameCount DEF Device!MayOpen
  <1>3. OpenZones \in SUBSET Zones
    BY DEF OpenZones
  <1>4. Cardinality(OpenZones) \in Nat
    BY <1>3, FiniteZones
  <1> QED BY <1>2, <1>4, Sizes DEF IndInv, Counts

\* Zones that differ in one place.
LEMMA OneDiffers ==
    ASSUME NEW zone \in Zones, \A y \in Zones : y # zone => ZoneOf'[y] = ZoneOf[y], NEW x, ZoneOf'[zone] = x
    PROVE  ZoneOf' = [ZoneOf EXCEPT ![zone] = x]
  BY ZoneIs

\* A call that writes to one zone leaves the others alone.
LEMMA OthersKept ==
    ASSUME IndInv, IndInv', NEW zone \in Zones, NEW fbg,
           SameElsewhere(nand, nand', zone_to_fcg(zone), fbg), fbg \in {Z2FBG'[zone], Z2LogFBG'[zone]},
           NEW y \in Zones, y # zone,
           ZD'[y] = ZD[y], Z2FBG'[y] = Z2FBG[y], Z2LogFBG'[y] = Z2LogFBG[y], buffer'[y] = buffer[y]
    PROVE  ZoneOf'[y] = ZoneOf[y]
  <1>1. ASSUME Z2FBG[y] # -1, NEW bank \in BanksOf(zone_to_fcg(y)), NEW page \in Pages
        PROVE  nand'[bank].cell[Ppn(Z2FBG[y], page)] = nand[bank].cell[Ppn(Z2FBG[y], page)]
    <2>1. Z2FBG[y] \in Fbgs /\ bank \in Banks
      BY <1>1 DEF IndInv, Tables, BanksOf
    <2>2. ~(bank \in BanksOf(zone_to_fcg(zone)) /\ Z2FBG[y] = fbg)
      <3>1. CASE zone_to_fcg(y) = zone_to_fcg(zone)
        <4>1. Tables' /\ Owned(FBG_Queue', HeldBy')
          BY DEF IndInv, Kept
        <4>2. Z2FBG'[y] # Z2FBG'[zone] /\ Z2FBG'[y] # Z2LogFBG'[zone]
          BY <1>1, <3>1, <4>1, ApartNext
        <4> QED BY <4>2
      <3>2. CASE zone_to_fcg(y) # zone_to_fcg(zone)
        BY <3>2, BanksApart
      <3> QED BY <3>1, <3>2
    <2> QED BY <2>1, <2>2 DEF SameElsewhere
  <1> QED BY <1>1, ZoneKept

-----------------------------------------------------------------------------
\* Two sequences with the same elements.
LEMMA SeqEqual ==
    ASSUME NEW S, NEW p \in Seq(S), NEW q \in Seq(S), Len(p) = Len(q), \A i \in 1 .. Len(p) : p[i] = q[i]
    PROVE  p = q
  OBVIOUS

\* A sequence made of two.
LEMMA Joined ==
    ASSUME NEW S, NEW p \in Seq(S), NEW q \in Seq(S), NEW r \in Seq(S), Len(r) = Len(p) + Len(q),
           \A k \in 1 .. Len(p) : r[k] = p[k],
           \A i \in 1 .. Len(q) : r[Len(p) + i] = q[i]
    PROVE  r = p \o q
  <1>1. p \o q \in Seq(S) /\ Len(p \o q) = Len(p) + Len(q) /\ Len(p) \in Nat /\ Len(q) \in Nat
    OBVIOUS
  <1>2. \A k \in 1 .. Len(p) : (p \o q)[k] = p[k]
    OBVIOUS
  <1>3. ASSUME NEW k \in Len(p) + 1 .. Len(p) + Len(q) PROVE (p \o q)[k] = r[k]
    <2>1. (p \o q)[k] = q[k - Len(p)]
      OBVIOUS
    <2>2. k - Len(p) \in 1 .. Len(q) /\ Len(p) + (k - Len(p)) = k
      BY <1>1
    <2> QED BY <2>1, <2>2
  <1>4. \A k \in 1 .. Len(p) + Len(q) : k \in 1 .. Len(p) \/ k \in Len(p) + 1 .. Len(p) + Len(q)
    BY <1>1
  <1>5. \A k \in 1 .. Len(r) : r[k] = (p \o q)[k]
    BY <1>2, <1>3, <1>4
  <1> QED BY <1>1, <1>5, SeqEqual

\* Words are added to what a zone holds.
LEMMA Longer ==
    ASSUME NEW c, NEW d, NEW fbg, NEW words \in Seq(Data), Working(c, fbg), Working(d, fbg),
           Further(c, d, fbg, Len(words)),
           \A i \in 1 .. Len(words) : Has(d, fbg, c.wp + i - 1) = words[i]
    PROVE  LET old == HeldOn(c.nand, c.buf, fbg, c.wp, c.zone)
               new == HeldOn(d.nand, d.buf, fbg, d.wp, d.zone)
           IN  /\ old \in Seq(Data) /\ new \in Seq(Data) /\ Len(old) = c.wp /\ Len(new) = c.wp + Len(words)
               /\ new = old \o words
  <1> DEFINE old == HeldOn(c.nand, c.buf, fbg, c.wp, c.zone)
             new == HeldOn(d.nand, d.buf, fbg, d.wp, d.zone)
             n == Len(words)
  <1>1. /\ old \in Seq(Data) /\ Len(old) = c.wp /\ \A s \in Sectors : s < c.wp => old[s + 1] = Has(c, fbg, s)
    BY HeldByCall
  <1>2. /\ new \in Seq(Data) /\ Len(new) = d.wp /\ \A s \in Sectors : s < d.wp => new[s + 1] = Has(d, fbg, s)
    BY HeldByCall
  <1>3. d.wp = c.wp + n /\ \A s \in Sectors : s < c.wp => Has(d, fbg, s) = Has(c, fbg, s)
    BY DEF Further
  <1>4. c.wp \in 0 .. ZONE_SIZE /\ d.wp \in 0 .. ZONE_SIZE /\ n \in Nat
    BY DEF Working, Calls
  <1>5. \A i \in 1 .. n : Has(d, fbg, c.wp + i - 1) = words[i]
    OBVIOUS
  <1>6. words \in Seq(Data) /\ Len(words) = n
    OBVIOUS
  <1> HIDE DEF old, new, n
  <1>7. ASSUME NEW k \in 1 .. c.wp + n PROVE new[k] = Has(d, fbg, k - 1) /\ k - 1 \in Sectors
    <2>1. c.wp \in Nat /\ ZONE_SIZE \in Nat /\ c.wp + n <= ZONE_SIZE /\ k \in Nat
      BY <1>3, <1>4, Sizes
    <2>2. k - 1 \in Sectors /\ k - 1 < d.wp /\ (k - 1) + 1 = k
      BY <1>3, <1>4, <2>1 DEF Sectors
    <2> QED BY <1>2, <2>2
  <1>8. ASSUME NEW k \in 1 .. Len(old) PROVE new[k] = old[k]
    <2>0. c.wp \in Nat /\ ZONE_SIZE \in Nat
      BY <1>4, Sizes
    <2>1. k \in 1 .. c.wp + n /\ k - 1 < c.wp /\ (k - 1) + 1 = k
      BY <1>1, <1>4, <2>0
    <2> QED BY <1>1, <1>3, <1>7, <2>1
  <1>9. ASSUME NEW i \in 1 .. Len(words) PROVE new[Len(old) + i] = words[i]
    <2>1. c.wp + i \in 1 .. c.wp + n /\ (c.wp + i) - 1 = c.wp + i - 1
      BY <1>4 DEF n
    <2> QED BY <1>1, <1>5, <1>7, <2>1 DEF n
  <1>10. new = old \o words
    <2>1. Len(new) = Len(old) + Len(words)
      BY <1>1, <1>2, <1>3, <1>6
    <2> QED BY <1>1, <1>2, <1>8, <1>9, <2>1, Joined
  <1> QED BY <1>1, <1>2, <1>3, <1>10 DEF old, new, n

\* zns_write adds the words of its request to its zone.
LEMMA WriteIs ==
    ASSUME IndInv, IndInv', NEW zone \in Zones, NEW n \in 1 .. ZONE_SIZE - ZD[zone].wp, NEW word \in Word,
           Write(zone, Written(zone, n, word))
    PROVE  Device!Store(zone, Written(zone, n, word))
  <1> DEFINE f == zone_to_fcg(zone)
             words == Written(zone, n, word)
             open == ZD[zone].state = "EMPTY"
             c == IF open THEN Opened(zone, Popped(FBG_Queue[f])) ELSE At(zone)
             g == c.fbg
             d == PutAll(c, words)
  <1>1. /\ Tables /\ Fits(ZD[zone], Z2FBG[zone], Z2LogFBG[zone], buffer[zone])
    BY DEF IndInv, AllFit
  <1>2. /\ (open /\ Open_Zone_Cnt < MAX_OPEN_ZONE) \/ (ZD[zone].state = "OPEN" /\ ~open)
        /\ Leaves(d) /\ nand' = d.nand /\ Z2FBG' = [Z2FBG EXCEPT ![zone] = d.fbg]
        /\ Z2LogFBG' = Z2LogFBG
    BY DEF Write
  <1>3. /\ Working(c, g) /\ c.zone = zone /\ c.nand = nand /\ c.state = "OPEN" /\ c.wp = ZD[zone].wp
        /\ c.buf = buffer[zone] /\ (~open => g = Z2FBG[zone]) /\ c.wp # ZONE_SIZE
        /\ Z2LogFBG[zone] = -1 /\ (open => c.wp = 0)
    <2>1. CASE open
      <3>1. LET o == Opened(zone, Popped(FBG_Queue[f])) IN
            /\ Working(o, o.fbg) /\ o.zone = zone /\ o.nand = nand /\ o.state = "OPEN" /\ o.wp = 0
        BY <2>1, Opens
      <3>2. Opened(zone, Popped(FBG_Queue[f])).buf = buffer[zone]
        BY DEF Opened, At
      <3>3. ZD[zone].wp = 0 /\ 0 # ZONE_SIZE /\ Z2LogFBG[zone] = -1
        BY <1>1, <2>1, Sizes DEF Fits
      <3> HIDE DEF g
      <3>4. c = Opened(zone, Popped(FBG_Queue[f])) /\ g = c.fbg
        BY <2>1 DEF g
      <3> HIDE DEF c
      <3> QED BY <2>1, <3>1, <3>2, <3>3, <3>4
    <2>2. CASE ~open
      <3>1. ZD[zone].state = "OPEN" /\ InUse(zone)
        BY <1>2, <2>2 DEF InUse
      <3>2. /\ Working(At(zone), HeldBy[<<zone, "data">>]) /\ At(zone).wp # ZONE_SIZE
        BY <3>1, Continues
      <3>3. HeldBy[<<zone, "data">>] = Z2FBG[zone]
        BY <1>1, Typed
      <3>4. /\ At(zone).zone = zone /\ At(zone).nand = nand /\ At(zone).fbg = Z2FBG[zone]
            /\ At(zone).state = "OPEN" /\ At(zone).wp = ZD[zone].wp /\ At(zone).buf = buffer[zone]
        BY <3>1 DEF At
      <3> QED BY <1>1, <2>2, <3>1, <3>2, <3>3, <3>4 DEF Fits
    <2> QED BY <2>1, <2>2
  <1>4. words \in Seq(Data) /\ Len(words) = n /\ c.wp + n <= ZONE_SIZE /\ n \in Nat \ {0}
    BY <1>1, <1>3, WordsFit
  <1> HIDE DEF words, c, g
  <1>5. /\ Working(d, g) /\ Further(c, d, g, n)
        /\ \A i \in 1 .. Len(words) : Has(d, g, c.wp + i - 1) = words[i]
    BY <1>3, <1>4, PutAllFacts
  <1> HIDE DEF d
  <1>6. /\ d.fbg = g /\ d.zone = zone /\ d.wp = c.wp + n /\ d.wp \in 0 .. ZONE_SIZE /\ c.wp \in 0 .. ZONE_SIZE
        /\ d.state = (IF d.wp = ZONE_SIZE THEN "FULL" ELSE "OPEN")
        /\ SameElsewhere(nand, nand', f, g)
    BY <1>2, <1>3, <1>5 DEF Further, Working, Calls, g
  <1>7. /\ ZD'[zone] = [state |-> d.state, wp |-> d.wp] /\ Z2FBG'[zone] = g /\ buffer'[zone] = d.buf
        /\ Z2LogFBG'[zone] = -1
        /\ \A y \in Zones : y # zone =>
              ZD'[y] = ZD[y] /\ Z2FBG'[y] = Z2FBG[y] /\ Z2LogFBG'[y] = Z2LogFBG[y] /\ buffer'[y] = buffer[y]
    BY <1>1, <1>2, <1>3, <1>6 DEF Leaves, Tables
  <1> DEFINE old == HeldOn(nand, buffer[zone], g, c.wp, zone)
             new == HeldOn(nand', d.buf, g, d.wp, zone)
  <1>8. /\ old \in Seq(Data) /\ new \in Seq(Data) /\ Len(old) = c.wp /\ Len(new) = c.wp + n
        /\ new = old \o words
    <2>1. old = HeldOn(c.nand, c.buf, g, c.wp, c.zone) /\ new = HeldOn(d.nand, d.buf, g, d.wp, d.zone)
      BY <1>2, <1>3, <1>6
    <2> HIDE DEF old, new
    <2>2. Working(c, g) /\ Working(d, g) /\ Further(c, d, g, Len(words)) /\ words \in Seq(Data)
      BY <1>3, <1>4, <1>5
    <2>3. \A i \in 1 .. Len(words) : Has(d, g, c.wp + i - 1) = words[i]
      BY <1>5
    <2>4. LET o == HeldOn(c.nand, c.buf, g, c.wp, c.zone)
              w == HeldOn(d.nand, d.buf, g, d.wp, d.zone)
          IN  /\ o \in Seq(Data) /\ w \in Seq(Data) /\ Len(o) = c.wp /\ Len(w) = c.wp + Len(words)
              /\ w = o \o words
      BY <2>2, <2>3, Longer
    <2> QED BY <1>4, <2>1, <2>4
  <1>9. ZoneOf[zone].data = old /\ ZoneOf[zone].state = ZD[zone].state
    <2>1. ~ByLog(zone)
      BY <1>2, <1>3 DEF ByLog
    <2>2. Held(zone) = old
      <3>1. CASE open
        BY <1>3, <3>1, HeldIs, HoldsNothing
      <3>2. CASE ~open
        BY <1>3, <3>2, HeldIs
      <3> QED BY <3>1, <3>2
    <2> QED BY <2>1, <2>2, ZoneIs
  <1>10. ZoneOf'[zone] = [state |-> d.state, tl |-> FALSE, data |-> new]
    <2>1. ~ByLog(zone)' /\ (ByLog(zone)' = FALSE)
      BY <1>6, <1>7 DEF ByLog
    <2>2. Held(zone)' = new
      BY <1>7, HeldIs
    <2> QED BY <1>7, <2>1, <2>2, ZoneIs
  <1> HIDE DEF old, new
  <1>11. ZoneOf' = [ZoneOf EXCEPT ![zone] = Device!Holding(new)]
    <2>1. Device!Holding(new) = [state |-> d.state, tl |-> FALSE, data |-> new]
      BY <1>6, <1>8 DEF Device!Holding
    <2>2. \A y \in Zones : y # zone => ZoneOf'[y] = ZoneOf[y]
      BY <1>6, <1>7, OthersKept
    <2> QED BY <1>10, <2>1, <2>2, OneDiffers
  <1>12. ZD[zone].state = "OPEN" \/ (ZD[zone].state = "EMPTY" /\ Device!MayOpen)
    <2>1. Open_Zone_Cnt < MAX_OPEN_ZONE => Open_Zone_Cnt # MAX_OPEN_ZONE
      BY <1>1, Sizes DEF Tables
    <2> QED BY <1>2, <2>1, MayOpenIs
  <1>13. Len(words) \in 1 .. ZONE_SIZE - Len(old)
    BY <1>4, <1>6, <1>8, Sizes
  <1>14. words = Written(zone, n, word)
    BY DEF words
  <1> QED BY <1>4, <1>8, <1>9, <1>11, <1>12, <1>13, <1>14 DEF Device!Store

\* zns_tl_write fills a zone opened by a log, or does not yet.
LEMMA TLWriteIs ==
    ASSUME IndInv, IndInv', NEW zone \in Zones, NEW n \in 1 .. ZONE_SIZE - ZD[zone].wp, NEW word \in Word,
           TLWrite(zone, Written(zone, n, word))
    PROVE  Device!TLStore(zone)
  <1> DEFINE f == zone_to_fcg(zone)
             words == Written(zone, n, word)
             g == Z2LogFBG[zone]
             map == zone_valid_map[zone]
             c == At(zone)
             b == PutAll(c, words)
             d == CopyOff(b, map)
             m == RunEnd(map, b.wp) - b.wp
  <1>1. Tables /\ Fits(ZD[zone], Z2FBG[zone], Z2LogFBG[zone], buffer[zone])
    BY DEF IndInv, AllFit
  <1>2. /\ ZD[zone].state = "TLOPEN" /\ InUse(zone)
        /\ Leaves(d) /\ nand' = d.nand /\ Z2FBG' = Z2FBG /\ Z2LogFBG' = Z2LogFBG
    BY DEF TLWrite, InUse
  <1>3. HeldBy[<<zone, "log">>] = g /\ g # -1
    BY <1>1, <1>2, Typed DEF Fits
  <1>4. Working(c, g) /\ c.wp # ZONE_SIZE
    BY <1>2, <1>3, Continues
  <1>5. c.zone = zone /\ c.nand = nand /\ c.fbg = Z2FBG[zone] /\ c.state = "TLOPEN" /\ c.wp = ZD[zone].wp
    BY <1>2 DEF At
  <1>6. words \in Seq(Data) /\ Len(words) = n /\ c.wp + n <= ZONE_SIZE
    BY <1>1, <1>5, WordsFit
  <1>7. map \in [Sectors -> {0, 1}]
    BY <1>1, MapType DEF Tables
  <1> HIDE DEF words, c, map, g
  <1>8. Working(b, g) /\ Further(c, b, g, n)
    BY <1>4, <1>6, PutAllFacts
  <1> HIDE DEF b
  <1>9. b.zone = zone /\ b.fbg = Z2FBG[zone]
    BY <1>5, <1>8 DEF Further
  <1>10. m \in Nat /\ Working(d, g) /\ Further(b, d, g, m)
    BY <1>3, <1>7, <1>8, <1>9, Copies DEF g
  <1> HIDE DEF m, d
  <1>11. Further(c, d, g, n + m)
    <2>1. n \in Nat
      OBVIOUS
    <2> QED BY <1>4, <1>8, <1>10, <2>1, FurtherTwice
  <1>12. /\ d.zone = zone /\ d.state \in {"TLOPEN", "FULL"} /\ SameElsewhere(nand, nand', f, g)
    BY <1>2, <1>5, <1>11 DEF Further
  <1>13. /\ ZD'[zone].state = d.state /\ Z2LogFBG'[zone] = g
         /\ \A y \in Zones : y # zone =>
               ZD'[y] = ZD[y] /\ Z2FBG'[y] = Z2FBG[y] /\ Z2LogFBG'[y] = Z2LogFBG[y] /\ buffer'[y] = buffer[y]
    BY <1>1, <1>2, <1>12 DEF Leaves, Tables, g
  <1>14. \A y \in Zones : y # zone => ZoneOf'[y] = ZoneOf[y]
    BY <1>12, <1>13, OthersKept
  <1>15. ZoneOf[zone] = [state |-> "TLOPEN", tl |-> TRUE, data |-> <<>>]
    <2>1. ByLog(zone) = TRUE
      BY <1>2 DEF ByLog
    <2> QED BY <1>2, <2>1, ZoneIs
  <1>16. ZoneOf'[zone] = [state |-> d.state, tl |-> TRUE, data |-> <<>>]
    <2>1. ByLog(zone)' = TRUE
      BY <1>3, <1>13 DEF ByLog
    <2> QED BY <1>13, <2>1, ZoneIs
  <1>17. CASE d.state = "TLOPEN"
    <2>1. ZoneOf'[zone] = ZoneOf[zone]
      BY <1>15, <1>16, <1>17
    <2>2. ZoneOf' = ZoneOf
      BY <1>14, <2>1, ZoneIs
    <2> QED BY <1>15, <2>2 DEF Device!TLStore
  <1>18. CASE d.state = "FULL"
    <2>1. ZoneOf' = [ZoneOf EXCEPT ![zone] = [state |-> "FULL", tl |-> TRUE, data |-> <<>>]]
      BY <1>14, <1>16, <1>18, OneDiffers
    <2>2. [ZoneOf[zone] EXCEPT !.state = "FULL"] = [state |-> "FULL", tl |-> TRUE, data |-> <<>>]
      <3> DEFINE r == ZoneOf[zone]
      <3> HIDE DEF r
      <3>1. r = [state |-> "TLOPEN", tl |-> TRUE, data |-> <<>>]
        BY <1>15 DEF r
      <3>2. [r EXCEPT !.state = "FULL"] = [state |-> "FULL", tl |-> TRUE, data |-> <<>>]
        <4>1. \A t, data : [[state |-> "TLOPEN", tl |-> t, data |-> data] EXCEPT !.state = "FULL"] =
                            [state |-> "FULL", tl |-> t, data |-> data]
          OBVIOUS
        <4> QED BY <3>1, <4>1
      <3> QED BY <3>2 DEF r
    <2>3. ZoneOf' = [ZoneOf EXCEPT ![zone].state = "FULL"]
      BY <2>1, <2>2
    <2> QED BY <1>15, <2>3 DEF Device!TLStore
  <1> QED BY <1>12, <1>17, <1>18

-----------------------------------------------------------------------------
\* zns_tl_open opens a full zone again.
LEMMA TLOpenIs ==
    ASSUME IndInv, IndInv', NEW zone \in Zones, NEW map \in TLMaps, LeavesSome(map), NoLogLeft, TLOpen(zone, map)
    PROVE  Device!TLOpen(zone)
  <1> DEFINE f == zone_to_fcg(zone)
             g == Popped(FBG_Queue[f])
  <1>1. Tables
    BY DEF IndInv
  <1>2. /\ Open_Zone_Cnt # MAX_OPEN_ZONE /\ ZD[zone].state = "FULL" /\ g \in Fbgs
        /\ Z2FBG' = Z2FBG /\ Z2LogFBG' = [Z2LogFBG EXCEPT ![zone] = g]
    BY TLOpens
  <1>3. PICK c, d, m :
           /\ c.zone = zone /\ c.nand = nand /\ c.fbg = Z2FBG[zone] /\ c.log = g
           /\ c.state = "TLOPEN" /\ c.wp = 0 /\ c.cnt = Open_Zone_Cnt + 1
           /\ Working(d, g) /\ Further(c, d, g, m)
           /\ d.wp # ZONE_SIZE /\ d.state = "TLOPEN" /\ d.zone = zone /\ d.wp \in 0 .. ZONE_SIZE
           /\ Leaves(d) /\ nand' = d.nand
    BY TLOpens
  <1> HIDE DEF g
  <1>4. /\ ZD'[zone].state = "TLOPEN" /\ Z2LogFBG'[zone] = g
        /\ \A y \in Zones : y # zone =>
              ZD'[y] = ZD[y] /\ Z2FBG'[y] = Z2FBG[y] /\ Z2LogFBG'[y] = Z2LogFBG[y] /\ buffer'[y] = buffer[y]
    BY <1>1, <1>2, <1>3 DEF Leaves, Tables
  <1>5. SameElsewhere(nand, nand', f, g)
    BY <1>3 DEF Further
  <1>6. \A y \in Zones : y # zone => ZoneOf'[y] = ZoneOf[y]
    BY <1>4, <1>5, OthersKept
  <1>7. ZoneOf'[zone] = [state |-> "TLOPEN", tl |-> TRUE, data |-> <<>>]
    <2>1. ByLog(zone)' = TRUE
      BY <1>4 DEF ByLog
    <2> QED BY <1>4, <2>1, ZoneIs
  <1>8. ZoneOf' = [ZoneOf EXCEPT ![zone] = [state |-> "TLOPEN", tl |-> TRUE, data |-> <<>>]]
    BY <1>6, <1>7, OneDiffers
  <1>9. ZoneOf[zone].state = "FULL"
    BY <1>2, ZoneIs
  <1> QED BY <1>2, <1>8, <1>9, MayOpenIs DEF Device!TLOpen

\* A zone that is given back is empty, and the others keep what they hold.
LEMMA Emptied ==
    ASSUME NEW zone \in Zones, ZD'[zone] = [state |-> "EMPTY", wp |-> 0], Z2FBG'[zone] = -1, Z2LogFBG'[zone] = -1
    PROVE  ZoneOf'[zone] = Device!Empty
  <1>1. ByLog(zone)' = FALSE /\ Held(zone)' = <<>>
    BY HeldIs, HoldsNothing DEF ByLog
  <1> QED BY <1>1, ZoneIs DEF Device!Empty

\* The block groups of other zones are not erased with it.
LEMMA CleanedElsewhere ==
    ASSUME NEW chips \in [Banks -> Chip], IsLog(chips), NEW zone \in Zones,
           Z2FBG[zone] \in Fbgs \cup {-1}, Z2LogFBG[zone] \in Fbgs \cup {-1},
           NEW fcg, NEW fbg \in Fbgs,
           zone_to_fcg(zone) = fcg => fbg # Z2FBG[zone] /\ fbg # Z2LogFBG[zone],
           NEW bank \in BanksOf(fcg), NEW page \in Pages
    PROVE  Cleaned(chips, zone)[bank].cell[Ppn(fbg, page)] = chips[bank].cell[Ppn(fbg, page)]
  <1> DEFINE f == zone_to_fcg(zone)
             c1 == ErasedIn(chips, f, Z2FBG[zone])
             c2 == ErasedIn(c1, f, Z2LogFBG[zone])
  <1>1. f \in Fcgs
    <2>1. <<zone, "data">> \in Holders /\ FcgOf(<<zone, "data">>) = f
      BY DEF Holders, FcgOf
    <2> QED BY <2>1, HolderType
  <1>2. c1 \in [Banks -> Chip] /\ IsLog(c1) /\ SameElsewhere(chips, c1, f, Z2FBG[zone])
    BY <1>1, EraseFacts
  <1> HIDE DEF c1
  <1>3. SameElsewhere(c1, c2, f, Z2LogFBG[zone])
    BY <1>1, <1>2, EraseFacts
  <1> HIDE DEF c2
  <1>4. bank \in Banks /\ ~(bank \in BanksOf(f) /\ fbg = Z2FBG[zone]) /\ ~(bank \in BanksOf(f) /\ fbg = Z2LogFBG[zone])
    <2>1. bank \in BanksOf(f) => f = fcg
      BY BanksApart
    <2> QED BY <2>1 DEF BanksOf
  <1>5. c1[bank].cell[Ppn(fbg, page)] = chips[bank].cell[Ppn(fbg, page)]
    BY <1>2, <1>4 DEF SameElsewhere
  <1>6. c2[bank].cell[Ppn(fbg, page)] = c1[bank].cell[Ppn(fbg, page)]
    BY <1>3, <1>4 DEF SameElsewhere
  <1> QED BY <1>5, <1>6 DEF Cleaned, c1, c2

\* zns_reset empties a zone.
LEMMA ResetIs ==
    ASSUME IndInv, NEW zone \in Zones, Reset(zone)
    PROVE  Device!Reset(zone)
  <1>1. /\ Tables /\ Owned(FBG_Queue, HeldBy) /\ nand \in [Banks -> Chip] /\ IsLog(nand)
    BY DEF IndInv, Kept, Followed
  <1>2. /\ ZD[zone].state = "FULL" /\ nand' = Cleaned(nand, zone) /\ buffer' = buffer
        /\ ZD'[zone] = [state |-> "EMPTY", wp |-> 0] /\ Z2FBG'[zone] = -1 /\ Z2LogFBG'[zone] = -1
        /\ \A y \in Zones : y # zone =>
              ZD'[y] = ZD[y] /\ Z2FBG'[y] = Z2FBG[y] /\ Z2LogFBG'[y] = Z2LogFBG[y]
    BY <1>1 DEF Reset, Tables
  <1>3. ASSUME NEW y \in Zones, y # zone PROVE ZoneOf'[y] = ZoneOf[y]
    <2>1. ASSUME Z2FBG[y] # -1, NEW bank \in BanksOf(zone_to_fcg(y)), NEW page \in Pages
          PROVE  nand'[bank].cell[Ppn(Z2FBG[y], page)] = nand[bank].cell[Ppn(Z2FBG[y], page)]
      <3>1. /\ Z2FBG[y] \in Fbgs
            /\ Z2FBG[zone] \in Fbgs \cup {-1} /\ Z2LogFBG[zone] \in Fbgs \cup {-1}
        BY <1>1, <2>1 DEF Tables
      <3>2. zone_to_fcg(zone) = zone_to_fcg(y) => Z2FBG[y] # Z2FBG[zone] /\ Z2FBG[y] # Z2LogFBG[zone]
        BY <1>1, <1>3, <2>1, Apart
      <3>3. Cleaned(nand, zone)[bank].cell[Ppn(Z2FBG[y], page)] = nand[bank].cell[Ppn(Z2FBG[y], page)]
        <4> DEFINE fcg == zone_to_fcg(y)
                   fbg == Z2FBG[y]
        <4> HIDE DEF fcg, fbg
        <4>1. /\ fbg \in Fbgs /\ bank \in BanksOf(fcg)
              /\ zone_to_fcg(zone) = fcg => fbg # Z2FBG[zone] /\ fbg # Z2LogFBG[zone]
          BY <2>1, <3>1, <3>2 DEF fcg, fbg
        <4>2. Cleaned(nand, zone)[bank].cell[Ppn(fbg, page)] = nand[bank].cell[Ppn(fbg, page)]
          BY <1>1, <2>1, <3>1, <4>1, CleanedElsewhere
        <4> QED BY <4>2 DEF fbg
      <3> QED BY <1>2, <3>3
    <2> QED BY <1>2, <1>3, <2>1, ZoneKept
  <1>4. ZoneOf' = [ZoneOf EXCEPT ![zone] = Device!Empty]
    BY <1>2, <1>3, Emptied, OneDiffers
  <1>5. ZoneOf[zone].state = "FULL"
    BY <1>2, ZoneIs
  <1> QED BY <1>4, <1>5 DEF Device!Reset

-----------------------------------------------------------------------------
\* The sectors of a full zone that no log rewrote.
LEMMA FullIs ==
    ASSUME IndInv, NEW zone \in Zones, ZD[zone].state = "FULL", NEW s \in Sectors
    PROVE  Held(zone)[s + 1] = Stored(zone, Z2FBG[zone], s)
  <1> DEFINE wp == ZD[zone].wp
             end == (wp \div NSECT) * NSECT
  <1>1. wp = ZONE_SIZE
    BY DEF IndInv, AllFit, Fits
  <1>2. end = ZONE_SIZE
    BY <1>1, ZonePages DEF ZONE_SIZE
  <1>3. s + 1 \in 1 .. ZONE_SIZE /\ s + 1 <= ZONE_SIZE /\ (s + 1) - 1 = s
    BY Sizes DEF Sectors
  <1>4. Held(zone) = [x \in 1 .. wp |-> IF x <= end THEN Stored(zone, Z2FBG[zone], x - 1)
                                        ELSE buffer[zone][(x - 1) % NSECT]]
    BY DEF Held
  <1> HIDE DEF wp, end
  <1> QED BY <1>1, <1>2, <1>3, <1>4

\* zns_izc copies the sectors of its list, and empties the zone they are from.
LEMMA IzcIs ==
    ASSUME IndInv, IndInv', NEW src \in Zones, NEW dest \in Zones \ {src}, NEW list \in CopyLists,
           Izc(src, dest, list)
    PROVE  Device!Compact(src, dest, list)
  <1> DEFINE to == zone_to_fcg(dest)
             h == <<dest, "data">>
             g == Popped(FBG_Queue[to])
             words == Listed(src, list)
             c == Opened(dest, g)
             d == PutAll(c, words)
             n == Len(list)
             queue1 == [FBG_Queue EXCEPT ![to] = Rest(@)]
             held1 == [HeldBy EXCEPT ![h] = g]
             pages1 == [PagesBy EXCEPT ![h] = 0]
  <1>1. /\ Tables /\ Owned(FBG_Queue, HeldBy) /\ Tables' /\ Owned(FBG_Queue', HeldBy')
        /\ Fits(ZD[src], Z2FBG[src], Z2LogFBG[src], buffer[src])
        /\ Fits(ZD[dest], Z2FBG[dest], Z2LogFBG[dest], buffer[dest])
        /\ dest # src /\ dest \in Zones
    BY DEF IndInv, AllFit, Kept
  <1>2. /\ Open_Zone_Cnt # MAX_OPEN_ZONE
        /\ ZD[src].state = "FULL" /\ ZD[dest].state = "EMPTY"
        /\ ZD' = [ZD EXCEPT ![dest] = [state |-> d.state, wp |-> d.wp],
                            ![src] = [state |-> "EMPTY", wp |-> 0]]
        /\ buffer' = [buffer EXCEPT ![dest] = d.buf]
        /\ nand' = Cleaned(d.nand, src)
        /\ Z2FBG' = [Z2FBG EXCEPT ![dest] = d.fbg, ![src] = -1]
        /\ Z2LogFBG' = [Z2LogFBG EXCEPT ![dest] = -1, ![src] = -1]
    BY DEF Izc
  <1>3. /\ g \in Fbgs /\ Working(c, g)
        /\ c.zone = dest /\ c.nand = nand /\ c.fbg = g /\ c.state = "OPEN" /\ c.wp = 0
        /\ Kept(nand, queue1, held1, pages1)
    BY <1>1, <1>2, Opens
  <1>4. zone_to_fcg(src) = to => g # Z2FBG[src] /\ g # Z2LogFBG[src]
    <2>1. /\ HeldBy \in [Holders -> Fbgs \cup {-1}]
          /\ h \in Holders /\ FcgOf(h) = to
          /\ \A k \in {"data", "log"} : /\ <<src, k>> \in Holders /\ <<src, k>> # h
                                        /\ FcgOf(<<src, k>>) = zone_to_fcg(src)
          /\ HeldBy[<<src, "data">>] = Z2FBG[src] /\ HeldBy[<<src, "log">>] = Z2LogFBG[src]
      BY <1>1, Typed
    <2>2. g # -1
      BY <1>3, Sizes DEF Fbgs
    <2> HIDE DEF h, g
    <2>3. held1[h] = g /\ held1[<<src, "data">>] = Z2FBG[src] /\ held1[<<src, "log">>] = Z2LogFBG[src]
      BY <2>1
    <2>4. \A k, l \in Holders : FcgOf(k) = FcgOf(l) /\ held1[k] = held1[l] /\ held1[k] # -1 => k = l
      <3> HIDE DEF held1
      <3> QED BY <1>3 DEF Kept, Owned
    <2> HIDE DEF held1
    <2> QED BY <2>1, <2>2, <2>3, <2>4
  <1>5. /\ list \in Seq(Sectors) /\ n \in Nat /\ n <= ZONE_SIZE
        /\ DOMAIN list = 1 .. n /\ \A i \in 1 .. n : list[i] \in Sectors
    BY ZnsAssumption DEF ZnsAssumption
  <1>6. /\ words \in Seq(Data) /\ Len(words) = n
        /\ \A i \in 1 .. n : words[i] = Stored(src, Z2FBG[src], list[i])
    <2>1. \A i \in 1 .. n : Stored(src, Z2FBG[src], list[i]) \in Data
      BY <1>2, <1>5, FullBlock
    <2>2. words = [i \in 1 .. n |-> Stored(src, Z2FBG[src], list[i])]
      BY <1>5 DEF Listed
    <2> HIDE DEF words, n
    <2>3. words \in [1 .. n -> Data]
      BY <2>1, <2>2
    <2> QED BY <1>5, <2>2, <2>3
  <1> HIDE DEF words, c, g, h, n, queue1, held1, pages1
  <1>7. /\ Working(d, g) /\ Further(c, d, g, n)
        /\ \A i \in 1 .. n : Has(d, g, i - 1) = words[i]
    <2>1. c.wp + Len(words) <= ZONE_SIZE
      BY <1>3, <1>5, <1>6, Sizes
    <2>2. \A i \in 1 .. n : Has(d, g, c.wp + i - 1) = words[i]
      <3>1. \A i \in 1 .. Len(words) : Has(PutAll(c, words), g, c.wp + i - 1) = words[i]
        BY <1>3, <1>6, <2>1, PutAllFacts
      <3> QED BY <1>6, <3>1
    <2>3. \A i \in 1 .. n : c.wp + i - 1 = i - 1
      BY <1>3, <1>5
    <2> HIDE DEF d
    <2>4. \A i \in 1 .. n : Has(d, g, i - 1) = words[i]
      BY <2>2, <2>3
    <2>5. Working(d, g) /\ Further(c, d, g, n)
      BY <1>3, <1>6, <2>1, PutAllFacts DEF d
    <2> QED BY <2>4, <2>5
  <1> HIDE DEF d
  <1>8. /\ d.zone = dest /\ d.fbg = g /\ d.wp = n /\ d.nand \in [Banks -> Chip] /\ IsLog(d.nand)
        /\ d.state = (IF n = ZONE_SIZE THEN "FULL" ELSE "OPEN")
        /\ SameElsewhere(nand, d.nand, to, g)
    BY <1>3, <1>5, <1>7 DEF Further, Working, Calls
  <1>9. /\ ZD'[dest] = [state |-> d.state, wp |-> n] /\ ZD'[src] = [state |-> "EMPTY", wp |-> 0]
        /\ Z2FBG'[dest] = g /\ Z2FBG'[src] = -1 /\ Z2LogFBG'[dest] = -1 /\ Z2LogFBG'[src] = -1
        /\ buffer'[dest] = d.buf
        /\ \A z \in Zones : z # dest /\ z # src =>
              /\ ZD'[z] = ZD[z] /\ Z2FBG'[z] = Z2FBG[z] /\ Z2LogFBG'[z] = Z2LogFBG[z]
              /\ buffer'[z] = buffer[z]
    BY <1>1, <1>2, <1>8 DEF Tables
  <1>10. /\ Z2FBG[src] \in Fbgs \cup {-1} /\ Z2LogFBG[src] \in Fbgs \cup {-1}
    BY <1>1 DEF Tables
  <1>11. ASSUME NEW y \in Zones, y # src, y # dest PROVE ZoneOf'[y] = ZoneOf[y]
    <2>1. ASSUME Z2FBG[y] # -1, NEW bank \in BanksOf(zone_to_fcg(y)), NEW page \in Pages
          PROVE  nand'[bank].cell[Ppn(Z2FBG[y], page)] = nand[bank].cell[Ppn(Z2FBG[y], page)]
      <3> DEFINE f == zone_to_fcg(y)
                 fbg == Z2FBG[y]
      <3>1. fbg \in Fbgs /\ bank \in Banks
        BY <1>1, <2>1 DEF Tables, BanksOf
      <3>2. zone_to_fcg(src) = f => fbg # Z2FBG[src] /\ fbg # Z2LogFBG[src]
        BY <1>1, <1>11, <2>1, Apart
      <3>3. f = to => fbg # g
        <4>1. Z2FBG'[y] = fbg /\ Z2FBG'[y] # -1
          BY <1>9, <1>11, <2>1
        <4>2. f = to => Z2FBG'[y] # Z2FBG'[dest]
          BY <1>1, <1>11, <4>1, ApartNext
        <4> QED BY <1>9, <4>1, <4>2
      <3> HIDE DEF f, fbg
      <3>4. bank \in BanksOf(f)
        BY <2>1 DEF f
      <3>5. d.nand[bank].cell[Ppn(fbg, page)] = nand[bank].cell[Ppn(fbg, page)]
        <4>1. ~(bank \in BanksOf(to) /\ fbg = g)
          BY <3>3, <3>4, BanksApart
        <4> QED BY <1>8, <2>1, <3>1, <4>1 DEF SameElsewhere
      <3> DEFINE chips == d.nand
      <3>6. chips \in [Banks -> Chip] /\ IsLog(chips)
        BY <1>8
      <3> HIDE DEF chips
      <3>7. Cleaned(chips, src)[bank].cell[Ppn(fbg, page)] = chips[bank].cell[Ppn(fbg, page)]
        BY <1>10, <2>1, <3>1, <3>2, <3>4, <3>6, CleanedElsewhere
      <3> QED BY <1>2, <3>5, <3>7 DEF fbg, chips
    <2> QED BY <1>9, <1>11, <2>1, ZoneKept
  <1>12. ZoneOf'[src] = Device!Empty
    BY <1>9, Emptied
  <1> DEFINE data == HeldOn(d.nand, d.buf, g, n, dest)
  <1>13. data \in Seq(Data) /\ Len(data) = n /\ data = words
    <2>1. /\ data \in Seq(Data) /\ Len(data) = n
          /\ \A s \in Sectors : s < n => data[s + 1] = Has(d, g, s)
      BY <1>7, <1>8, HeldByCall
    <2> HIDE DEF data
    <2>2. \A i \in 1 .. n : data[i] = words[i]
      <3> TAKE i \in 1 .. n
      <3>1. i - 1 \in Sectors /\ i - 1 < n /\ (i - 1) + 1 = i
        BY <1>5, Sizes DEF Sectors
      <3>2. data[(i - 1) + 1] = Has(d, g, i - 1)
        BY <2>1, <3>1
      <3> QED BY <1>7, <3>1, <3>2
    <2> QED BY <1>6, <2>1, <2>2, SeqEqual
  <1>14. Held(dest)' = data
    <2> DEFINE chips == d.nand
               buf == d.buf
    <2>0. chips \in [Banks -> Chip] /\ IsLog(chips)
      BY <1>8
    <2> HIDE DEF chips, buf
    <2>1. \A bank \in BanksOf(to), page \in Pages :
             Cleaned(chips, src)[bank].cell[Ppn(g, page)] = chips[bank].cell[Ppn(g, page)]
      <3> HIDE DEF to
      <3>1. TAKE bank \in BanksOf(to), page \in Pages
      <3> QED BY <1>3, <1>4, <1>10, <2>0, CleanedElsewhere
    <2>2. g \in Fbgs \cup {-1} /\ g # -1 /\ n \in 0 .. ZONE_SIZE
      BY <1>3, <1>5, Sizes DEF Fbgs
    <2> DEFINE new == Cleaned(chips, src)
    <2> HIDE DEF new
    <2>3. \A bank \in BanksOf(zone_to_fcg(dest)), page \in Pages :
             g # -1 => new[bank].cell[Ppn(g, page)] = chips[bank].cell[Ppn(g, page)]
      BY <2>1 DEF new
    <2>4. HeldOn(new, buf, g, n, dest) = HeldOn(chips, buf, g, n, dest)
      BY <1>1, <2>2, <2>3, HeldElsewhere
    <2>5. Held(dest)' = HeldOn(new, buf, g, n, dest)
      <3>1. Held(dest)' = HeldOn(nand', buffer'[dest], Z2FBG'[dest], ZD'[dest].wp, dest)
        BY <1>1, HeldIs
      <3>2. ZD'[dest].wp = n
        BY <1>9
      <3> QED BY <1>2, <1>9, <3>1, <3>2 DEF new, chips, buf
    <2> QED BY <2>4, <2>5 DEF chips, buf
  <1> HIDE DEF data
  <1>15. ZoneOf'[dest] = [state |-> d.state, tl |-> FALSE, data |-> data]
    <2>1. ByLog(dest)' = FALSE
      BY <1>8, <1>9 DEF ByLog
    <2>2. ZD'[dest].state = d.state
      BY <1>9
    <2> QED BY <1>1, <1>14, <2>1, <2>2, ZoneIs
  <1>16. ZoneOf'[dest] = Device!Holding(data)
    BY <1>8, <1>13, <1>15 DEF Device!Holding
  <1>17. ZoneOf' = [ZoneOf EXCEPT ![src] = Device!Empty, ![dest] = Device!Holding(data)]
    <2> DEFINE e == Device!Empty
               x == Device!Holding(data)
    <2> HIDE DEF e, x
    <2>1. ZoneOf'[src] = e /\ ZoneOf'[dest] = x
      BY <1>12, <1>16 DEF e, x
    <2>2. ZoneOf' = [ZoneOf EXCEPT ![src] = e, ![dest] = x]
      BY <1>1, <1>11, <2>1, ZoneIs
    <2> QED BY <2>2 DEF e, x
  <1>18. IF ZoneOf[src].tl THEN data \in Seq(Data) /\ Len(data) = Len(list)
         ELSE data = [i \in DOMAIN list |-> ZoneOf[src].data[list[i] + 1]]
    <2>1. ZoneOf[src].tl = ByLog(src)
      BY ZoneIs
    <2>2. CASE ByLog(src)
      BY <1>13, <2>1, <2>2 DEF n
    <2>3. CASE ~ByLog(src)
      <3>1. ZoneOf[src].data = Held(src)
        BY <2>3, ZoneIs
      <3>2. \A i \in 1 .. n : Held(src)[list[i] + 1] = words[i]
        BY <1>2, <1>5, <1>6, FullIs
      <3>3. words = [i \in 1 .. n |-> words[i]]
        BY <1>5, <1>6
      <3>4. words = [i \in 1 .. n |-> ZoneOf[src].data[list[i] + 1]]
        BY <3>1, <3>2, <3>3
      <3> QED BY <1>5, <1>13, <2>1, <2>3, <3>4
    <2> QED BY <2>2, <2>3
  <1>19. ZoneOf[src].state = "FULL" /\ ZoneOf[dest].state = "EMPTY" /\ Device!MayOpen
    BY <1>1, <1>2, ZoneIs, MayOpenIs
  <1>20. ZoneOf'[dest].data = data
    BY <1>15
  <1> QED BY <1>17, <1>18, <1>19, <1>20 DEF Device!Compact

\* The zones of zns_init are those of an empty device.
LEMMA DeviceInit == Init => Device!Init
  <1> SUFFICES ASSUME Init PROVE Device!Init
    OBVIOUS
  <1>1. ASSUME NEW z \in Zones PROVE ZoneOf[z] = Device!Empty
    <2>1. ZD[z] = [state |-> "EMPTY", wp |-> 0] /\ Z2LogFBG[z] = -1
      BY DEF Init
    <2>2. ByLog(z) = FALSE /\ Held(z) = <<>>
      BY <2>1, HeldIs, HoldsNothing DEF ByLog
    <2> QED BY <2>1, <2>2, ZoneIs DEF Device!Empty
  <1>2. ZoneOf = [z \in Zones |-> Device!Empty]
    <2> DEFINE e == Device!Empty
    <2> HIDE DEF e
    <2>1. \A z \in Zones : ZoneOf[z] = e
      BY <1>1 DEF e
    <2>2. ZoneOf = [z \in Zones |-> e]
      BY <2>1, ZoneIs
    <2> QED BY <2>2 DEF e
  <1> QED BY <1>2 DEF Device!Init

\* Every call does what the device is asked for.
LEMMA DeviceStep == IndInv /\ IndInv' /\ [CarefulNext]_vars => [Device!Next]_<<ZoneOf, call>>
  <1> SUFFICES ASSUME IndInv, IndInv', [CarefulNext]_vars PROVE [Device!Next]_<<ZoneOf, call>>
    OBVIOUS
  <1>1. CASE UNCHANGED vars
    <2>1. ZoneOf' = ZoneOf /\ call' = call
      BY <1>1 DEF vars, ZoneOf, ByLog, Held, Stored
    <2> QED BY <2>1
  <1>2. CASE CarefulNext
    <2>1. PICK zone \in Zones :
            OtherCall(zone) \/ \E map \in TLMaps : LeavesSome(map) /\ NoLogLeft /\ OpenLog(zone, map)
      BY <1>2 DEF CarefulNext
    <2>2. ASSUME NEW n \in 1 .. ZONE_SIZE - ZD[zone].wp, NEW word \in Word,
                 Write(zone, Written(zone, n, word)) \/ TLWrite(zone, Written(zone, n, word)),
                 call' = Device!WriteCall(zone, Written(zone, n, word))
          PROVE  Device!Next
      <3>1. Device!Store(zone, Written(zone, n, word)) \/ Device!TLStore(zone)
        BY <2>2, WriteIs, TLWriteIs
      <3>2. call'.op = "write" /\ call'.zone = zone /\ call'.data = Written(zone, n, word)
        BY <2>2 DEF Device!WriteCall
      <3>3. Device!Store(zone, call'.data) \/ Device!TLStore(zone)
        BY <3>1, <3>2
      <3> QED BY <3>2, <3>3 DEF Device!Next
    <2>3. ASSUME Reset(zone), call' = Device!ResetCall(zone) PROVE Device!Next
      <3>1. Device!Reset(zone)
        BY <2>3, ResetIs
      <3> QED BY <2>3, <3>1 DEF Device!Next
    <2>4. ASSUME NEW dest \in Zones \ {zone}, NEW list \in CopyLists, Izc(zone, dest, list),
                 call' = Device!CopyCall(zone, dest, list)
          PROVE  Device!Next
      <3>1. Device!Compact(zone, dest, list)
        BY <2>4, IzcIs
      <3> QED BY <2>4, <3>1 DEF Device!Next
    <2>5. ASSUME NEW map \in TLMaps, LeavesSome(map), NoLogLeft, TLOpen(zone, map),
                 call' = Device!TLOpenCall(zone)
          PROVE  Device!Next
      <3>1. Device!TLOpen(zone)
        BY <2>5, TLOpenIs
      <3> QED BY <2>5, <3>1 DEF Device!Next
    <2> QED BY <2>1, <2>2, <2>3, <2>4, <2>5 DEF OtherCall, OpenLog
  <1> QED BY <1>1, <1>2

\* The simulator is a zoned device (ImplementsDevice): the words of a request
\* are added to its zone in order, and are there until the zone is reset,
\* whatever is written, copied and erased of other zones, and zns_izc copies
\* what its list names.  The host is careful.
THEOREM ZnsIsADevice == CarefulSpec => ImplementsDevice
  BY ZnsInvariance, DeviceInit, DeviceStep, PTL DEF CarefulSpec, ImplementsDevice, Device!Spec
===============================================================================
