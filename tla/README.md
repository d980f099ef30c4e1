# A formal model of the storage labs, the reservation server and the scheduler of Laptop_Ubuntu_PSBOJ

The repository is one student's course work: seven semesters of separate
programs, many of them kept in several snapshots. Its largest program of its
own is the storage stack of the embedded-systems course (`3-2/EmbeddedSul`): a
NAND flash simulator and, on top of it, four flash translation layers of
growing ambition and a simulator of zoned storage. This project models that
stack first, then the two programs with the most concurrency: the threaded
seat-reservation server of the system-programming course (`2-2/PA3`) and the
fair scheduler of the operating-systems course (`3-1/OS/xv6-sse-local`).

## 1. Inventory

Sources are below `src/`. "Checked" and "proved" refer to sections 4 and 5.

| Component | State it keeps | Operations | What is hard | Status |
|---|---|---|---|---|
| NAND simulator, `3-2/EmbeddedSul/PRJ1/workspace/nand.c` (same code in `HW2/HW2_Submit`) | page contents, `iswritten`, `blk_index` | `nand_init`, `nand_write`, `nand_read`, `nand_erase` | two representations of one fact; order of the error tests | modelled, proved |
| NAND simulator of Lab #1, `HW1/nand.c` | pages with flags `WRITTEN`, `BE_WRITTEN` | the same | the writable position is a flag that moves from page to page | modelled, proved |
| Page-mapping FTL, `HW2/HW2_Submit/ftl.c` | `L2P`, `isValid`, `next_ppn`, `gc_trigger_ppn`, `free_pblk`, per bank | `ftl_open`, `ftl_read`, `ftl_write`, garbage collection inside a write | mapping changed by the collection a write starts; ignored error codes; capacity; partial pages | modelled, proved |
| Demand-based FTL, `PRJ1/workspace/ftl.c` | page buffer, mapping cache (CMT), directory (GTD), block status, map and data frontier | read, write, buffer flush, cache miss and write-back, data collection, map collection | two caches over one flash; collections nested in collections, which move what a cache refers to; map blocks full of live pages | modelled, proved |
| Write-buffer FTL, `HW3/ftl.c`; mapping-cache FTL, `HW4/workspace/ftl.c` | parts of the above | parts of the above | as above | not modelled: earlier stages of the above |
| ZNS simulator, `HW5/20211030_submit/zns.c` | zone descriptors, open-zone count, queues of free block groups, zone-to-block maps, page buffers | `zns_init`, `zns_write`, `zns_read`, `zns_reset`, `zns_izc`, `zns_tl_open` | resource counts through fill, reset and compaction; log zones | modelled, proved |
| Seat-reservation server, `2-2/PA3/workspace/20201218/submit2/pa3_server.c`, and its client | `client2user`, `user2client`, seats, one thread per client | login, reserve, check, cancel, logout | tests and assignments of threads that name each other's users and seats; three mutexes; two tables that must be inverse; clients that leave | server modelled, proved; client as far as the server sees it |
| xv6 with a fair scheduler, `3-1/OS/xv6-sse-local/proc.c`, `trap.c` | process table, virtual run times, time slice | `scheduler`, timer trap, `fork`, `exit`, `wait`, `sleep`, `wakeup`, `kill`, `setnice` | interrupts between any two critical sections; wakeups; run times that overflow | process table and scheduler modelled, safety proved; memory, files and exec not |
| xv6 with swapping, `3-1/OS/PRJ4/xv6`; with mmap, `3-1/OS/PRJ3/xv6-sse-local` | LRU list and swap bitmap; mmap areas | page faults, eviction, `mmap`, `munmap` | reclamation during a fault | not modelled (section 7) |
| Minishell (`2-2/PA2`), editor (`2-2/PA1`), weekly exercises (`2-2/week*`), homework of `2-1`, `2-2/DS`, `3-2/PuEn`, `4-1` | little or none beyond one computation | | I/O | not modelled |
| rv8 (`3-1/Comgugye`) | | | third-party code | not modelled |

How they interact: the server and its clients exchange fixed-size queries and
replies over one connection each; the server's threads share the tables. In the
storage stack a driver (`ftl_test.c`, `zns_test.c`) submits requests of
sectors; the layer calls the chip with page addresses, and the translation
layers keep their logical page number in the page's spare area. There,
everything runs in one thread, so the interleavings that matter are those of a
call with the work it starts on the way, garbage collection above all. The
server, by contrast, runs one thread per client, and any interleaving of their
handlers can happen. The kernel runs on one CPU, but a timer or a device may
interrupt wherever interrupts are on. The programs of different courses have
nothing to do with each other.

What makes each component correct:

* the chip: a block is a log, whatever is called with whatever address;
* the page-mapping layer: it is a disk, i.e. a read returns what was last
  written; behind that, the tables agree with each other and with the chip in
  the middle of a collection too, every ignored return code is a success, and
  every collection reclaims something;
* the demand-based layer: the same disk, whatever is buffered, cached and
  being moved, at every step of a flush that evicts a map page that collects
  map blocks;
* the ZNS simulator: each block group is in one place, open zones are counted
  exactly, a zone holds what was written to it, compaction copies what its
  list names;
* the server: every query takes effect at one moment between its arrival and
  its reply, the threads never deadlock, the login tables are inverse;
* the scheduler: no wakeup is lost, every child has a living parent, run times
  keep their order when they saturate, everyone gets to run.

## 2. Modules

| Module | What it is | Source |
|---|---|---|
| `NandDevice` | abstract: what a flash chip promises | comments and codes of `nand.c`, `nand.h` |
| `Nand` | the chip as pure operators on a bank record, for the layers to apply | `PRJ1/workspace/nand.c` |
| `NandSim`, `NandSim_proofs` | the chip on its own, under any calls; refines `NandDevice` | same |
| `NandHw1`, `NandHw1_proofs` | the chip of Lab #1; refines `NandDevice` with erase unit "bank" | `HW1/nand.c` |
| `BlockDevice` | abstract: a disk of sectors with one call at a time | what `ftl_test.c` relies on |
| `PageFTL`, `PageFTL_proofs` | the page-mapping layer on `Nand`; refines `BlockDevice` | `HW2/HW2_Submit/ftl.c`, `ftl.h`, `ftl_test.c` |
| `MapCache` | the paged mapping of project 1: cache, directory, map blocks and their collection, on `Nand` | `PRJ1/workspace/ftl.c` |
| `DemandFTL` | the demand-based layer: buffer and data path composed with `MapCache`; refines `BlockDevice` | same, `ftl_test.c` |
| `FlashLog`, `DemandFTL_proofs` | a kind of blocks as a log with a table of current copies, and the lemmas about its steps; the proofs about `DemandFTL`, which has two such logs | same |
| `ZonedDevice` | abstract: zones written from start to end and emptied as a whole | what `zns_test.c` relies on |
| `Zns`, `MCZns`, `Zns_proofs` | the ZNS simulator on `Nand`; refines `ZonedDevice` | `HW5/20211030_submit/zns.c`, `zns_test.c` |
| `SeatBooking` | abstract: a service that handles whole queries one at a time | what a client of the server relies on |
| `ReservationServer`, `ReservationServer_proofs` | the threads of the server, mutex by mutex; refines `SeatBooking` | `pa3_server.c`, `pa3_client.c` |
| `FairSched`, `MCFairSched`, `FairSched_proofs` | process table, scheduler and timer trap of xv6 | `proc.c`, `trap.c` of `3-1/OS/xv6-sse-local` |

### Nand, NandSim, NandHw1

`nand[bank].cell[ppn]` is the contents of a page or `Erased`; `iswritten` is
the test `cell[ppn] # Erased`. The bytes `nand_erase` leaves behind cannot be
read and are not kept. `blk_index` is kept as in the code, because its
agreement with `iswritten` is something to check, not something to assume. The
early returns of the functions are `WriteCode`, `ReadCode` and `EraseCode`, in
their order.

`NandHw1` keeps the two flags as two tables. Its `nand_erase` declares a local
variable that hides its parameter and so looks at, and clears, every block of
the bank; the model does what the code does.

### PageFTL

A call of `ftl_read` or `ftl_write` is a run of steps; nothing interrupts it,
but a property of every state is then a property of every point of the call
between two loop iterations, collections included.

| Action | Code |
|---|---|
| `Submit`, `Return` | one iteration of the loop of `main` in `ftl_test.c` |
| `FetchPage` | one iteration of the page loop of `ftl_read` (or its one-page case) |
| `PackPage` | the packing half of an iteration of `ftl_write` |
| `GCStart`, `GCCopy`, `GCFinish` | `garbage_collection`: victim selection, one page of the copy loop, the rest |
| `Program` | the rest of `write_through_lpn` |

Words of a sector are opaque (`Word`, `Blank` for 0xFFFFFFFF, `Junk` for an
uninitialised word). Buffers are functions of the sector address, which
abstracts the pointer arithmetic of `current_read_buffer` but not the number of
sectors each branch transfers: `BlankFilled` is where `sector_kazu` is one
short. The integer division of an empty request is kept (`send_kazu`). The
geometry of `ftl.h` becomes constants, its formulas definitions.

Left out: the statistics counters (`stats`), which are only printed.

### MapCache, DemandFTL

The layer of project 1 keeps its logical-to-physical map in flash, in map
pages of which a few are cached. `MapCache` has the mapping and everything that
makes a map page cached; `DemandFTL` extends it with the data path, and its
steps that look up or set an entry are enabled only when the page of the entry
is cached (`MapReady`). Since `mpc` and `pc` are two places of one thread, a
map collection can be in the middle of a data collection which is in the middle
of a write, as in the code.

| Action | Code |
|---|---|
| `UseFreeSlot` | `use_free_slot` |
| `PickSlot` | `make_free_slot`, up to the test of the trigger |
| `MapGCCopy`, `MapGCFinish` | `map_garbage_collection`: one page of its loop, the rest |
| `EvictSlot` | `original_make_free_slot` after the test |
| `FetchPage` | an iteration of the page loop of `ftl_read` |
| `PackPage` | the packing half of an iteration of `ftl_write` |
| `Store` | the end of `write_through_lpn` |
| `PickVictim` | its choice of a buffer to flush, up to the test of the trigger |
| `SkipInvalid`, `GCCopy`, `GCRemap`, `GCFinish` | `garbage_collection`: a stale page, the copy and the remapping of a valid one, the rest |
| `Flush` | the program of the buffer that makes room |

`rand()` chooses the slot to evict and the buffer to flush: any. One bank is
modelled; the banks share nothing but the request whose pages go round them,
which `PageFTL` models, and its proofs cover, for any number.

### Zns

A call is one step, since the program is one thread and calls no layer that
could call back: what matters is what calls leave behind for each other.
`buffer_flush`, which most calls reach from a loop over sectors, is a function
of a record that holds what a call changes of its zone (`At`), and the loops
over sectors are recursive functions (`PutAll`) of that record.

| Action | Code |
|---|---|
| `Write` | `zns_write` of an empty or open zone |
| `TLWrite` | `zns_write` of a zone opened by `zns_tl_open`: the sectors, then those of the bitmap that follow |
| `Reset` | `zns_reset` |
| `Izc` | `zns_izc`, the reset of the source included |
| `TLOpen` | `zns_tl_open`, the immediate copy of leading valid sectors included |
| `zns_read` | an operator: the answer of `zns_read` for `nsect` sectors of a zone without a log; `Round` is a round of its loops over pages |
| `OtherCall`, `OpenLog` | a command of `zns_test.c` that succeeds, with its request in `call` |

`call` is the request of the last step: it ties what a step does to what the
host asked, in `ZonedDevice`. What is written is told apart by zone, sector and
value (`Data`), so a word in the wrong place is seen.

`Next` is the host of `zns_test.c`, which passes on whatever it reads. The code
does not keep its tables right for it (findings 4 and 5). `CarefulNext` is a
host that knows the two cases: it resets a zone it has filled through a log
before it opens another one (`NoLogLeft`), and no bitmap names all the sectors
of its zone (`LeavesSome`). Neither restriction is in the code or the driver;
what holds, and is proved, of `CarefulSpec` is said of such a host only. For
both, no copy list is longer than a zone (`ZnsAssumption`).

`zns_read` of an OPEN zone copies whole pages as long as they are in flash,
whatever is left of the request (`zns.c:201-209`): its answer may be longer than
`nsect`, and then overruns the buffer of `zns_test.c:73`. The model's answer has
the words copied, all of them; the memory they go to is not modelled.

### FairSched

The `Makefile` starts one CPU (`CPUS := 1`), so what holds `ptable.lock` runs
with interrupts off and is one step; between two steps an interrupt may come if
interrupts are on (`InterruptsOn`). They are off from the moment a process that
was switched to in `wait` goes on until it releases the lock, and from a timer
trap that finds the process killed until its `exit` (`must`).

| Action | Code |
|---|---|
| `Switch` | an iteration of `scheduler`'s loop that finds a runnable process: the search for the lowest run time from it, the time slice, `swtch`, and the end of `sleep` |
| `Restart` | the end of the table: the lock is released, interrupts come on |
| `Tick` | the timer trap: the charge with `overflow_handler`, `wakeup(&ticks)`, and then `yield` or `exit` if due |
| `Wakeup` | a device interrupt, or a call of the process that runs, with `wakeup1` |
| `Sleep` | `sleep` |
| `allocproc`, `Fork` | `fork` up to and from the point where the child has a slot; it may fail in between |
| `Exit`, `Wait`, `Kill`, `setnice` | these calls; `Wait` is one round of its loop |

`wakeup1` places the processes it wakes one after the other, each relative to
those that are ready by then; like the code this is a loop over the table
(`Placed`, and `total_weight` for the sum of the weights). Run times are integers of bounded width: `is_overflow` tests before it adds, and
what does not fit saturates (`Plus`).

Left out: memory, files, `exec`, the `runtime` that `ps` prints, pids. `init`
only forks and waits (`init.c:22-39`), is neither killed nor reniced by
others, and never exits, which would be a panic. The 0x0FFFFFFF by which
`overflow_handler` moves run times is at least what one tick charges
(`SchedAssumption`; 3057 is the largest charge of the table of weights), so
that one call makes room.

### ReservationServer

`client2user`, `user2client`, `password` and `seat` are the tables of the code,
with -1 as its marker; the mutex tables hold the client whose thread has locked
an entry. A client is the slot `fd - 3` (`client2fd`). `pc[c]` is where the
thread of client `c` is.

| Action | Code |
|---|---|
| `Accept` | an iteration of `main`'s loop; the lowest free descriptor is used |
| `Read`, `ReadAtEnd`, `Dispatch` | `read` and the `switch` of `thread_func`; the exit query |
| `LockClient`, `LockUser`, `LockSeat` | the `pthread_mutex_lock` calls at the top of each handler |
| `Decide` | the `if` chain of the handler, as far as its tests (`MayLogin`, ..., `Granted`) |
| `LoginClient`, `LogoutClient`, `SetUser`, `SetSeat` | its assignments |
| `ScanSeat`, `ScanEnd` | the loop of `check_reservation`, seat by seat |
| `Reply` | the `write` of the reply, with the mutexes held |
| `UnlockClient`, `UnlockUser`, `UnlockSeat` | the unlock calls, in the order of the code |
| `HangUp` | a client that goes away without the exit query |

Tests and assignments are separate steps because what keeps them together in
the code is the mutexes, and whether those suffice is the question.

`read`'s result is compared with 0 before it is assigned (`n = read(..) < 0`),
and the end of the input is not an error, so a thread whose client is gone
handles its last query again for as long as the process lives
(`ReadAtEnd`). If it has not read any, the variable `q` is uninitialised and
the model takes any query. The second `write` to a closed connection raises
SIGPIPE, for which the server has no handler, so the process ends. The model
has no step for that: an end only cuts a behaviour short, which leaves safety
as it is. For liveness it matters, and `RepliesKeepComing` is about behaviours
in which no client goes away without the exit query.

Left out: user and seat numbers outside the tables (the mutex tables are
indexed before the range of a seat is tested), the count that `check_reservation`
writes behind its list (`send[cnt]`, `pa3_server.c:163`, outside the array if
one user has all 256 seats), queries that arrive in pieces,
printing, and the failure of `socket`, `bind`, `listen` and `accept`.
`is_client_busy` is never called.

## 3. Abstract specifications

`NandDevice` says what the comments of `nand.c` say. Two constants record where
the implementations differ: `RewriteCodes`, which errors may refuse a rewrite,
and `EraseUnit`, what an erase clears. The documented values are `OVERWRITE`
alone and "block"; `NandSim` needs `POSITION` as well, `NandHw1` needs "bank"
(see the observations in section 4).

`BlockDevice` is a disk whose calls transfer their sectors in arbitrary
groups. `LastUnset` allows a read to leave its last sector unset if that sector
was never written, the one deviation the page-mapping layer has (finding 1);
the demand-based layer implements it with `LastUnset` false.

`ZonedDevice` is a set of zones with a limit on those open at a time. Its steps
are bound to the requests of the host: a step stores the words of its `call`,
copies what its list names, empties the zone it names, and nothing else. A zone
that was opened by a transfer log is filled and emptied like any other; what it
holds is left open until then. `Answer` is what a read is to get.

`SeatBooking` is asked, acts at one moment, and answers. It keeps the two login
tables of the code, since a logout may set them apart (finding 2). The
refinement mapping lets a query act with the first assignment of its handler
(or the end of the scan, or the failed test); between the two assignments of
login and logout the second entry counts as set (`user2clientSeen`).

## 4. Runs

| Run | Configuration | Question | Result |
|---|---|---|---|
| `nand_sim` | 1 bank, 2 blocks of 3 pages, 2 contents | Is the chip a set of logs? Do `iswritten` and `blk_index` agree? | holds |
| `nand_hw1` | 2 banks, 2 blocks of 2 pages, 2 contents | The same of Lab #1's chip, erased by banks | holds |
| `ftl_remap` | 1 bank, 3 blocks of 2 pages, 2 sectors a page, requests of up to 4 sectors | Do tables and chip agree at every step of a collection that moves some pages of a victim? Is it a disk for requests over pages and parts of pages? | holds |
| `ftl_fill` | 2 banks of 3 one-page blocks, 2 sectors a page, requests of up to 4 sectors | Does a read fill its buffer? | no (finding 1) |
| `demand_maps` | 3 data blocks and 2 map blocks of 3 pages, 2 map pages, 1 cache slot, 2 buffers, requests of up to 3 pages | Do buffer, cache, directory, page states and chip agree through nested write-backs and collections? Is it a disk? | holds |
| `demand_full` | 3 data and 2 map blocks of 2 pages, 2 map pages | Does a map collection make room when all map pages are live? | no (finding 3) |
| `zns` | 2 banks in one channel group, 3 blocks of 2 pages, 1 open zone, 2 sectors a page, so 2 zones of 8 sectors; a careful host | Are block groups, open zones and written pages accounted for? Is it a zoned device that stores what its requests say? Do reads of any length get it back? | holds |
| `zns_relog` | the same, the host of `zns_test.c` | Has every block group one owner? | no (finding 4) |
| `zns_fullmap` | the same, bitmaps of no sector and of all | Is the count of open zones exact? | no (finding 5) |
| `res_replies` | 2 clients, 1 user, 2 seats, 2 passwords, hang-ups, foreign logouts | Does every query take effect at one moment? Do tests stand until the assignment, lists of seats hold at one moment? Deadlock? Do replies keep coming? | holds |
| `res_logout` | 2 clients, 2 users, 1 seat | Are the login tables inverse, whatever a logout names? | no (finding 2) |
| `sched` | 3 processes, 2 weights, 2 channels, run times from -2 to 1 | Is a wakeup lost? Is the order of run times kept when they saturate? Does everyone run? | holds |

Bounds, storage. Three blocks are the least with which a collection has a
choice between the free block and others. Two pages a block make a victim
partly valid. In `ftl_remap` two sectors a page make a request cover part of a
page at either end, so that a page is completed from its old contents before
the collection its write starts. It has one bank, because two, with two pages a
block and two sectors a page, are out of TLC's reach; only `ftl_fill`, which
stops at its counterexample, has two. That requests go round the banks right is
what the proof of `FTLIsADisk` shows. Calls with addresses one below and one above every range stand
for all addresses outside the chip. In the demand-based layer one cache slot
for two map pages makes every change of map page a write-back, and two
buffers let a victim be chosen; two entries in a map page and three logical
pages let a request cover pages of both map pages, and a whole page between two
others. A page is one sector there: with two the run is out of TLC's reach too,
and that parts of pages are completed right is in the proof of
`DemandFTLIsADisk`. In `zns` one free block group is left over when both zones
are filled, the one a log or a copy needs, and one open zone is the limit at
which counting errors show; a page belongs to one of two banks, so that a block
group is a block in each. `SomeMaps` and `SomeLists` (`MCZns`) are bitmaps and
lists that begin and end in and between pages, repeat a sector, reverse the
zone; `FullMaps` has the bitmap of all sectors. `MaxSect` bounds the length of a request and
nothing else is bounded: the tables are finite, so each run covers histories
of any length.

Bounds, server. Two clients are enough for a thread to meet another that names
its user or its seat; two seats let one change while the scan is at the other.
A cycle of waits of three threads would need a third class of contended
mutexes: that of a client is only ever taken by its own thread. Nothing but the
tables' sizes and the passwords is bounded, and the proofs drop these bounds.

Bounds, scheduler. Three slots are init, a parent and a child, so that a
parent can exit before its child and after it. Run times are two bits wide
(`MAXIMUM_INT` 1), so that overflow and saturation at both ends happen within
a few ticks, and the two weights charge one and two units a tick. One channel
is that of `sys_sleep`, the other any other.

Fairness. `RepliesKeepComing` assumes that the processor runs some thread that
can run (`FairSpec` of `ReservationServer`), and no more: neither that a given
thread is run nor that a mutex is granted in any order, which POSIX does not
promise. It therefore says that some reply comes, not that each does. Its
antecedent is that no client ever goes away without the exit query: after one
has, the server replies to a closed connection, and the second `write` ends the
process. `EveryoneRuns` assumes that the CPU goes on in
the scheduler's loop and in the kernel code that runs with interrupts off
(weak fairness), and that the timer interrupt is taken once interrupts are on
(strong fairness of `Tick`: interrupts are on again and again, and a pending
interrupt is taken then). What a user process does is not fair. The property
has an antecedent, that from some time on nobody is created or woken, since
without it the scheduler starves (below). Deadlock is checked in every run.

### Findings

1. `HW2_Submit/ftl.c:247`: a read of several pages ending in an unmapped page
   leaves its last sector unset; the comment at `ftl.c:230` says `sector_kazu`
   is the number of sectors to put into the buffer.
2. `pa3_server.c:251`: `logout` clears the client's entry and that of the user
   the query names without testing that they belong together. Comments at lines
   20 and 22 describe the tables as the user at a client and the client of a
   user; after such a logout a user may count as connected at a client that
   counts as offline, and cannot log in until some client logs it out.
3. `PRJ1/workspace/ftl.c:663`: `map_garbage_collection`, which its comment says
   makes an empty page for the map, makes none when every page of the full map
   blocks is live; the write-back that needed one then programs a page beyond
   the trigger, ignores the error, and loses a map page. The configurations
   `ftl1.h` and `ftl2.h` are both at that limit (4 live map pages for 4 usable
   ones, 8 for 8). The layer needs fewer map pages than usable ones, and two
   over-provisioned data blocks (see the observation at `ftl.c:405`), which is
   what `demand_maps` has and the proofs assume.
4. `zns.c:341`: when `zns_write` fills a zone through its log, it sets the zone
   FULL and keeps both block groups; the comments at `zns.c:154` and `:357` say
   that the source is erased then. A `zns_tl_open` of that zone before a reset
   stores its log over the old one, whose block group is in no queue and with no
   zone from then on: nothing erases it or hands it out again. If the queue is
   empty by then, the new log is block group -1.
5. `zns.c:358`: with a bitmap of all sectors `zns_tl_open` copies the zone to
   its log at once; `buffer_flush` counts the zone off (`zns.c:114`) and
   `zns_tl_open` does it again. The comment at `zns.c:340` has it counted off
   once. `Open_Zone_Cnt` is then one less than there are open zones, -1 in the
   counterexample, and the limit of open zones lets one more through each time.
   It also gives back the log it has just filled and keeps the source, where
   the comment at `:357` has the source erased.

### Observations

Read off the code while modelling it; no run checks them.

* `nand.c:75`: a write to a written page returns `NAND_ERR_POSITION`, since
  `blk_index` is tested before `iswritten`; the comment at `nand.c:59-60`
  promises `NAND_ERR_OVERWRITE`. `HW1/nand.c:184`: erasing a block erases its
  bank; the comment at `HW1/nand.c:170-175` promises a block.
* `pa3_server.c:308`: the exit query leaves `client2user` as it is, so a closed
  connection still counts as online (comment at line 20), and the next one with
  its descriptor takes the session over.
* `PRJ1/workspace/ftl.c:405`: the data blocks have the limit of finding 3 too.
  `garbage_collection` runs before the page that needs room has superseded its
  old copy, so with every logical page in flash once and one over-provisioned
  block there is nothing to reclaim: written once from end to end and then
  again, such a layer programs past the trigger. In the configuration of
  `demand_maps` with `N_USER_OP_BLOCKS_PB = 1` TLC finds a behaviour of 37
  states that ends with such a collection. One block is what `ftl.h`, `ftl5.h`
  and `ftl6.h` leave; `ftl1.h` to `ftl4.h` leave none, which is one block less
  than the logical pages need beside the empty one.
* `pa3_server.c:296-304`: the thread of a client that is gone replies to it
  again and again; there is no handler for SIGPIPE, so the second `write` to the
  closed connection ends the process, with the tables and all other clients'
  sessions.
* `zns.c:201-209`: a read of an OPEN zone copies whole pages, so a read of, say,
  one sector of a page in flash writes `NSECT` words into a buffer of one
  (`zns_test.c:73`). `ReadsBack` states for which lengths the answer is exact.
* `zns.c:255-268`: a read of a TLOPEN zone takes what was rewritten from the
  old block group and the rest from the log, and does not advance over unread
  sectors. `zns.c:207-215`: a read that starts inside a page in flash takes
  that page's sectors from the wrong place, and may not end if it reaches the
  buffer. `ReadsBack` is about the other reads.
* `proc.c:601`: `kill` compares pids alone, and an unused slot may have pid 0, so
  `kill(0)` marks an unused slot killed; the model's `Kill` takes a slot in use.
* `proc.c:537`: `wakeup1` starts its minimum at 0, so a woken process is placed
  a tick below 0 even when all that are ready are far above; and below all of
  them in any case. A process that sleeps and is woken over and over comes
  first every time. Without the antecedent of
  `EveryoneRuns` TLC finds it: process 2 sleeps, the interrupt that comes when
  the scheduler restarts its loop wakes it below process 1, it runs again, and
  process 1 never does. `kill`, on the other hand, makes a sleeper runnable
  without placing it.

## 5. Proofs

TLC checks small instances; these hold for every value of the constants that
the named assumptions allow. In each module an inductive invariant (`IInv`,
`IndInv`) is proved for `Init` and for each action, and the properties follow.

| Module | Theorems |
|---|---|
| `NandSim_proofs` | `ChipInvariance`; `ChipTypeCorrect`, `BlocksAreLogs`; `ChipImplementsDevice`: `Spec => ImplementsDevice` |
| `NandHw1_proofs` | `Hw1Invariance`; `FlagsAgree`; `Hw1ImplementsDevice`: `Spec => ImplementsBankErasedDevice` |
| `PageFTL_proofs` | `Invariance`; `TypeCorrect`, `MappingSafe`, `NoStaleCopies`, `ReclaimSafe`, `ProgramsSafe`; `PackedStays`; `FTLIsADisk`: `Spec => ImplementsDisk` |
| `DemandFTL_proofs` (lemmas in `FlashLog`) | `StatusInvariance`, `RegionsStayApart`; `Invariance`; `TypeCorrect`, `MappingSafe`, `DirectorySafe`, `NoStaleCopies`, `SlotsUnique`, `ProgramsSafe`, `ReclaimSafe`; `MapChangesByFlushAndMove`; `PackedStays`; `DemandFTLIsADisk`: `Spec => ImplementsDisk`; `SafeWhileReclaiming`, `DiskWhileReclaiming` |
| `Zns_proofs` | `ZnsInvariance`; `ZonesTyped`, `BlocksHaveAnOwner`, `OpenZonesCounted`, `ChipFollows`, `ReadsAreCorrect`; `ZnsIsADevice`: `Spec => ImplementsDevice` |
| `ReservationServer_proofs` | `ServerInvariance`; `ServerTypeCorrect`, `NoStaleDecision`, `ListsAreExact`, `DeadlockFree`; `HandlersAreAtomic`: `Spec => ImplementsBooking`; `OwnLogoutsKeepInverse` |
| `FairSched_proofs` | `TableInvariance`; `WakeupsKept`, `ParentsStay`; `Ranges`; `OrderStays`: `Spec => OrderKept` |

### The chips

`NandSim`: `TypeOK` and `WrittenPrefix` together are inductive
(`NandSimAssumption`: positive sizes). With them a block is the sequence of its
pages up to `blk_index` (`LogOfNand`, `LogFacts`); a write that succeeds appends
to it, an erase empties it, and every code is that of `NandDevice`
(`WriteImplements`, `ReadImplements`, `EraseImplements`).

`NandHw1`: what the flags of a block stand for is a number (`Position`): pages
before it are `WRITTEN`, the page at it, if there is one, is `BE_WRITTEN`.
The invariant says that every block has one; a write moves it by one
(`WriteFacts`), which needs both flags, and an erase sets it to 0 in the whole
bank. `PositionIsLength` ties it to what the refinement mapping counts.

### The page-mapping layer

For every geometry with at least two blocks a bank, every positive
over-provisioning ratio and every request length.

None of the properties is inductive. `ValidPagesAreMapped`, for instance, needs
the write that `Program` issues to succeed and to hit an unwritten page, which
needs the shape of the bank: `IndInv` adds where written pages lie
(`Frontier`: everything outside the free block except the stretch from
`next_ppn` to `gc_trigger_ppn`; `FreeBlock`: the pages a collection has moved;
`ChipInv`: `iswritten` against `blk_index`) and how far a collection has come
(`NoMovedPageMapped`, `GCInv`). From these

* `FrontierIsWritable`: the frontier is its block's next position, so
  `nand_write` succeeds;
* `FullBankHasInvalid`: the full blocks of a bank have `(BLKS_PER_BANK - 1) *
  PAGES_PER_BLK` written pages, more than `N_LPNS_PB`; if all were valid, the
  spare area would map them injectively into the logical pages;
* `VictimFacts`: the victim maximises the invalid pages, hence has one, hence
  is not the free block;
* `GCCopyStep`: a collection that has copied `i` of its first `i` pages has yet
  to meet the invalid one, so it never fills the free block, and `GCFinishStep`
  leaves room for the pending write.

That the layer is a disk (`FTLIsADisk`) rests on these. What a sector holds is a
word of the page its logical page is mapped to (`WordAt`, `SectorIs`);
`GCCopyWords` and `GCFinishWords` show that a collection changes no word: the
page copied is the one its spare area names, since it is valid, and the block
erased has no mapped page left. It also needs an invariant of its own,
`HostInv`: the page a call packs before it starts a collection keeps the old
words of a partial page, and they must still be the current ones when the
collection has moved that page. Then `Program` is the disk's `Store` of the
sectors on one page, `FetchPage` its `Fetch`, and every other step stutters
(`DiskStep`).

Assumptions: `FTLAssumption` (the constants are positive, two blocks at least,
over-provisioning not zero) and `ErasedIsNoPage` (the marker for an erased page
is not a page); TLC evaluates both in every run of `PageFTL`.

### The demand-based layer

`RegionsStayApart` needs the block states alone (`StatusInv`): either side of
the bank has one empty block, and what a collection took as its target is still
that block when it ends, because a collection of map blocks that starts in the
middle of a data collection sees the lower empty block as empty and takes the
higher one. It holds for every geometry, however full the flash is.

Everything else needs the contents of the flash. The data blocks under `L2P`
and the map blocks under `GTD` are the same thing, a log (`Log` in `FlashLog`):

* `Frontier`: every page of the blocks in use is written but for the stretch
  from the next page to the trigger, and in the empty block what a collection
  has copied;
* `Contents`: what is written is a page of the kind, and only written pages of
  blocks in use are ever invalid;
* `Table`: the table leads to valid pages that carry their key, and a valid
  page is the current copy of its key unless the collection is past it;
* `Collecting`: a collection has a victim with an invalid page and has copied
  as many pages as it has passed only if it has not met that page yet.

`AppendLog`, `StartLog`, `SkipLog`, `CopyLog`, `FinishLog` and `FrameLog` are the
steps of a log, `FullLogHasInvalid` is the count (the written pages of a full log
outnumber the keys; if all were valid, their spare areas would map them
injectively into the keys), `NextWritable` and `CopyWritable` say that the next
page to program is fresh. Each is used for both logs.

What makes the layer harder than two logs is that they interleave. The data
collection copies a page in one step and maps it in a later one, `GCRemap`,
and to map it may take a write-back and a collection of map blocks. In between,
the current table of the data blocks is neither before nor after the copy. The
invariant states the log of the data for the table and the collection as they
will be (`DataMap`, `DataGC`), and what is still true of the source beside it
(`RemapInv`). `L2P` itself is computed from the cache and the map blocks;
each step of the cache is shown to leave it alone (`MapKept`), from
`CacheInv`: a map page has one slot, what is cached is dirty, and a map page is
marked as new exactly as long as it is neither cached nor in flash.

Assumptions: `MapCacheAssumption` (positive sizes, two blocks of either kind)
and `DemandAssumption` (positive sizes), which TLC evaluates in every run of
`DemandFTL`; `ErasedIsNoPage`. The theorems that name it also assume
`EnoughRoom`: two over-provisioned data blocks, and fewer map pages than the map
blocks but one have. It is what finding 3 and the observation at `ftl.c:405` ask
for, no more: with less, the count fails and TLC has the counterexample. `ftl7.h`
and `ftl8.h` have that room (3 blocks and 246 map pages for 336; 2 blocks and 312
for 432), as have the constants of `demand_maps`; the other
headers do not (`ftl.h`, `ftl5.h`, `ftl6.h` have one over-provisioned block,
`ftl1.h` to `ftl4.h` none, and no spare map page either). `SafeWhileReclaiming` is
for these: without `EnoughRoom`, everything holds for as long as every
collection so far has had a page to reclaim, so a collection that starts in
vain is the only way to lose a page. `DiskWhileReclaiming` says the same of the
refinement.

`DemandFTLIsADisk` is the refinement of `BlockDevice`. A sector is a word of the
buffer its page has, else of the page its logical page maps to (`WordIn`;
`SectorIs` ties it to `SectorAt`). A flush takes the words of one page from the
one to the other (`FlushWords`); everything else below a call leaves all of them
alone: `LoadMapWords` for the cache, its write-backs and the collection of map
blocks, which touch no data page, `GCCopyWords`, `GCRemapWords` and
`GCFinishWords` for the collection of data blocks. Two facts are not in the
invariant of the layer and are proved beside it (`HostInv`, `PackedStays`):

* `SameCopy`: between `GCCopy` and `GCRemap` the copy agrees with the page it was
  made of, through a write-back and a collection of map blocks in between;
* what a call has packed to store (`data`) has the request's sectors and, for the
  others of the page, the words the disk has now. It is packed before the buffer
  is flushed and collections run, so it takes all the lemmas above to say that
  they are still the words when `Store` comes.

Then `Store` is the disk's `Store` of the sectors on one page (`StoreIs`),
`FetchPage` its `Fetch` (`FetchIs`), `Submit` and `Return` are its own, and every
other step stutters (`DiskStep`).

### The zoned device

For every geometry with more blocks than open zones and every list of `zns_izc`
no longer than a zone, and for a host that leaves a sector out of every bitmap of
`zns_tl_open` and resets a zone filled through a log before it opens another
(`CarefulSpec`). Both conditions are needed: findings 4 and 5 are what
`BlocksHaveAnOwner` and `OpenZonesCounted` lose without them, and the range of
`Open_Zone_Cnt` in `TypeOK` needs the first as well.
The five invariants rest on one inductive invariant:

* `Owned`: a block group is in the queue of its channel group, once, or with
  one zone, as its data or its log;
* `Followed`: of a block group a zone fills, as many pages are written as `wp`
  has passed, in the order of the zone's sectors; a full log or a log's source
  is written to the end; what is free is erased. So no `nand_write` fails, and
  the pages a copy reads are there. `Kept` is both;
* `Fits`: a zone's state against its `wp`, block groups and buffer;
* `Counts`: the open zones are counted, and no more zones than may be open have a
  log. Since a channel group has `MAX_OPEN_ZONE` block groups more than zones,
  a zone that is opened, copied to or given a log finds a free one (`SomeFree`).

A call goes from sector to sector. `Working` is what is true of its record
before and after each `Put`, `Further` how far it has come since the start;
`PutAllFacts` carries them through a loop by the same two lemmas as in the
scheduler (`Rounds`, `LoopResult`, below). `TLWrite` and `TLOpen` run a second
loop up to the next sector the bitmap does not name (`RunEnd`), `Izc` resets
what it has copied, in the same channel group or another.

Assumptions: `ZnsAssumption` (positive sizes, banks divided evenly, fewer open
zones than blocks, and what bitmaps and lists are) and `ErasedIsNoPage`; TLC
evaluates both in run `zns`.

`ReadsAreCorrect`: a read is always between two pages, or past the last one in
flash (`OnTheWay`), so each round gets what is wanted next, at least a sector of
it (`ReadRound`); as many rounds as sectors are enough (`ReadAll`). What is
wanted is `Answer` of `ZonedDevice`, and that this is what the host wrote is the
refinement.

`ZnsIsADevice` is the refinement of `ZonedDevice`. What a zone holds depends on
the chips only through its own block group (`HeldOn`, `HeldElsewhere`), and no
two zones share one (`Apart`), so a call leaves the other zones alone: one that
writes by `OthersKept`, one that erases by `CleanedElsewhere`. What a call has
written is what its zone then holds, in order (`HeldByCall`): what it held
before and then the words of the request (`Longer`). With these there is one
lemma for each action: `WriteIs` (`Store`), `TLWriteIs` (`TLStore`), `TLOpenIs`,
`ResetIs` and `IzcIs` (`Compact`).

### The server

`ReservationServer_proofs` proves, for any number of clients, users, seats and
passwords, with and without hang-ups and foreign logouts:

| Theorem | Statement |
|---|---|
| `ServerInvariance` | `Spec => []IndInv` |
| `ServerTypeCorrect` | `Spec => []TypeOK` |
| `NoStaleDecision` | `Spec => []DecisionsStand` |
| `ListsAreExact` | `Spec => []ScanIsExact` |
| `DeadlockFree` | `Spec => []NoCircularWait` |
| `HandlersAreAtomic` | `Spec => ImplementsBooking` |
| `OwnLogoutsKeepInverse` | `Spec => []TablesInverse`, without foreign logouts and hang-ups |

`IndInv` adds to the properties who holds a mutex, by where the threads are
(`MutexInv`), and where the handler of a query can be (`ActionInv`). From these

* `Exclusion`: two threads between lock and unlock name different users and
  seats; `Footprint`: a thread changes only entries whose mutexes it holds. So
  what another has tested stands (`StandsAfterOthersStep`);
* `SeatsKept`: a seat comes or goes only for the user a thread works for, so
  the mutex of the user keeps the list of that user as it is, although the scan
  reads seats whose mutexes others hold (`ExactAfterOthersStep`);
* deadlock: among waiting threads, the one that waits for the mutex that is
  last in the order c2u, u2c, seat waits for a thread that does not wait for
  an equal or earlier one;
* `SeenSet`, `SeenDone`, `SilentStep`, `EffectStep`: each step of a handler is
  one step of `SeatBooking` or none;
* `SeenInverse`: the client's entry and the user's entry as seen agree at every
  step, if a logout names the client's user (`OwnQueries`).

Assumption: `ServerAssumption` (the sizes are natural numbers, passwords too).

### The scheduler

For any number of processes, channels, weights and any width of run times.
`NoLostWakeup` needs more than itself: a slot that is free or being filled has
no parent (`FreeSlots`), else a `fork` could take its only child from a
sleeping parent; a slot being filled belongs to one `fork` (`Forks`); only the
process on the CPU is RUNNING (`OneRuns`), so that who exits was not asleep in
`wait`; nobody is its own parent and init has none (`Family`). `ParentsAlive`,
that every child's parent is alive, is the other half: `exit` hands children to
init, which stays. `ExitInv` is the long case: it follows both wakeups of
`exit`, that of the parent and that of init for an orphan that is a zombie.

Run times: `Ranges` (`Spec => []TypeOK`) and `OrderStays`. The two loops over
the table, of `wakeup1` and of the sum of the weights, are recursive functions
of a slot. The library's induction theorems take an operator as a parameter, so
two lemmas stand in for them: `Rounds`, that what a round keeps every round
keeps, from the least slot at which it does not (`LeastNat`), and `LoopResult`,
that there is a function which the rounds define. From these
`PlacedFacts` (wakeups change the run times of those woken and keep them in
range) and `TotalWeight` (the sum is at least each of its terms, so that a time
slice is at most the time there is to share, `ShareFacts`). The charge of a tick
stays in range because the room made is at least the tick of the lightest
process, or the run time is at the lowest of all (`ChargedFacts`); it keeps the
order because subtraction that saturates is monotone (`ChargedInOrder`).
`SchedAssumption` therefore says that `SHIFT` is at least the tick of each
weight, and at most the width of the range: 0x0FFFFFFF is, for 32-bit run times,
1000*1024 and the weights of the table.

Model-checked only: liveness (`RepliesKeepComing`, `EveryoneRuns`), which is out of the prover's reach. Every invariant, action
property and refinement that a run with result "holds" checks is proved. The
findings are TLC's alone: a violation is a behaviour of one instance.

## 6. Plan

Done: chips, both translation layers, zoned storage, server, scheduler; the
inductive invariants of all of them; refinement proofs for the chips, both
translation layers, zoned storage and the server; the action properties of the
demand-based layer and the scheduler.

Left: `DemandFTL` is modelled and proved for one bank, since its banks share no
state; `PageFTL` has any number, and a request that goes round them could be
added to `DemandFTL` in the same way. What holds of the zoned device under the
host of `zns_test.c` itself, for instance that no block group ever has two
owners, is not proved. The three hazards that have no property are things the
code does, which sections 2 and 4 describe.

## 7. Not modelled

* `3-1/Comgugye/rv8`: third-party code, which is most of the repository's lines.
* `HW3` and `HW4` of the storage stack: the buffer and the mapping cache of
  project 1 on their own. Their mechanisms are those of `DemandFTL` and
  `MapCache`.
* Swapping in xv6 (`PRJ4`): the eviction writes a `struct page` where the page
  should go (`kalloc.c:368`), and a page is both freed and returned
  (`kalloc.c:379`, `:395`). There is no protocol whose steps a model could
  follow to a property that the code is meant to have and could keep.
* `mmap` in xv6 (`PRJ3`): the process table is that of project 2, and an area
  belongs to the one process that uses it.
* Memory, files and `exec` of xv6: course material under these projects.
* Minishell, editor, weekly exercises and homework: single-shot programs around
  system calls or one computation, without state that several steps share.
* Reads of a zone with a log (`zns.c:251-270`), which change nothing.
