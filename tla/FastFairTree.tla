---------------------------- MODULE FastFairTree ----------------------------
(***************************************************************************)
(* The page B+-tree of src/core/btree.h (FAST and FAIR), word by word.     *)
(*                                                                         *)
(* One writer at a time changes the tree (apply_buffered_op and            *)
(* warmup_insert hold tree_mu).  A writer's operation is the sequence of   *)
(* word writes it issues, in program order; one step makes one of them     *)
(* visible.  scan_range reads without tree_mu, so a scan takes one step    *)
(* per word it reads of a leaf and per slot it reads of an internal page   *)
(* (count() is one step too) and may see any prefix of the writes.         *)
(* btree_search runs under tree_mu and is an operator on the heap between  *)
(* operations.                                                             *)
(*                                                                         *)
(* A leaf record's ptr is its key (the wrapper stores the key as the       *)
(* value), so keys start at 1; 0 is the null ptr.  Flushes order nothing   *)
(* for a reader and are left out here.                                     *)
(***************************************************************************)
EXTENDS Integers, Sequences, SequencesExt, FiniteSets, FiniteSetsExt

CONSTANTS
    TreeKeys,       \* keys the writer inserts and erases, from 1 up
    cardinality,    \* records of a page
    Loads,          \* sequences of keys the tree may be loaded with
    Ranges,         \* pairs <<start, count>> scans ask for
    MaxWrites,      \* bound: insertions and deletions after the load
    MaxPages        \* bound: pages allocated

ASSUME TreeAssumption ==
    /\ TreeKeys \subseteq 1 .. 1000
    /\ cardinality \in Nat /\ cardinality >= 4

VARIABLES
    heap,       \* page id -> page
    root,       \* the root's page id
    todo,       \* word writes the current operation has yet to make visible
    writes,     \* operations issued since the load
    stored,     \* records of each key the finished operations account for
    doubled,    \* keys inserted while the tree had them
    erased,     \* an erase has been issued
    scan        \* the scan in progress

treeVars == <<heap, root, todo, writes, stored, doubled, erased, scan>>

null == 0

LONG_MAX == 1000001

Slots == 0 .. (cardinality - 1)

\* A child pointer, told apart from the leaf values.
PageRef(p) == 1000 + p
PageOf(ptr) == ptr - 1000

NewPage(level) ==
    [leftmost |-> null, sibling |-> null, level |-> level, switch_counter |-> 0,
     last_index |-> -1, key |-> [i \in Slots |-> LONG_MAX], ptr |-> [i \in Slots |-> null]]

\* page(left, key, right, level): the root above a split.
NewRootPage(left, k, right, level) ==
    [NewPage(level) EXCEPT !.leftmost = left, !.key[0] = k, !.ptr[0] = PageRef(right),
                           !.last_index = 0]

IsForward(counter) == counter % 2 = 0

-----------------------------------------------------------------------------
(* One page *)

\* count(): entries before the first null ptr, found from last_index.
count(pg) ==
    LET at   == pg.last_index + 1
        up   == {i \in Slots : i >= at /\ pg.ptr[i] = null}
        down == {i \in Slots : i <= at /\ pg.ptr[i] = null}
    IN  IF IsForward(pg.switch_counter) THEN Min(up)
        ELSE IF down # {} THEN Max(down)
        ELSE Min({i \in Slots : pg.ptr[i] = null})

\* A word write: field f (slot i where f is key or ptr) of page p becomes v.
W(p, f, i, v) == [page |-> p, field |-> f, slot |-> i, value |-> v]

\* One write done to the pair of heap and root.
Apply(hr, w) ==
    CASE w.field = "page" -> [hr EXCEPT !.heap = Append(@, w.value)]
      [] w.field = "root" -> [hr EXCEPT !.root = w.value]
      [] w.field = "key"  -> [hr EXCEPT !.heap[w.page].key[w.slot] = w.value]
      [] w.field = "ptr"  -> [hr EXCEPT !.heap[w.page].ptr[w.slot] = w.value]
      [] OTHER            -> [hr EXCEPT !.heap[w.page][w.field] = w.value]

ApplyAll(hr, ws) == FoldLeft(Apply, hr, ws)

\* Where FAST places key: behind the last record that is not greater.
PlaceOf(pg, key, num) ==
    LET below == {i \in 0 .. (num - 1) : pg.key[i] <= key}
    IN  IF below = {} THEN 0 ELSE Max(below) + 1

\* One record moved up a slot: ptr, then key.
Shifted(p, pg, i) ==
    << W(p, "ptr", i + 1, pg.ptr[i]), W(p, "key", i + 1, pg.key[i]) >>

\* Mutation: the null ptr behind the records is not moved up first.
insert_key_NoSentinel(p, pg, key, ptr, num) ==
    LET at    == PlaceOf(pg, key, num)
        first == << W(p, "key", 0, key), W(p, "ptr", 0, ptr), W(p, "ptr", 1, null) >>
        shift == FlattenSeq([n \in 1 .. (num - at) |-> Shifted(p, pg, num - n)])
    IN  (IF num = 0 THEN first
         ELSE shift \o << W(p, "key", at, key), W(p, "ptr", at, ptr) >>)
        \o << W(p, "last_index", 0, num) >>

\* The writes of insert_key into page p, which looks like pg and has num
\* records: shift the greater ones up from the top, duplicate the ptr below
\* the place (leftmost_ptr under slot 0), then key, then ptr.
insert_key(p, pg, key, ptr, num) ==
    LET at    == PlaceOf(pg, key, num)
        turn  == IF IsForward(pg.switch_counter) THEN << >>
                 ELSE << W(p, "switch_counter", 0, (pg.switch_counter + 1) % 256) >>
        first == << W(p, "key", 0, key), W(p, "ptr", 0, ptr), W(p, "ptr", 1, null) >>
        shift == FlattenSeq([n \in 1 .. (num - at) |-> Shifted(p, pg, num - n)])
        below == IF at > 0 THEN pg.ptr[at - 1]
                 ELSE IF pg.leftmost = null THEN null ELSE PageRef(pg.leftmost)
    IN  turn \o (IF num = 0 THEN first
                 ELSE << W(p, "ptr", num + 1, pg.ptr[num]) >> \o shift \o
                      << W(p, "ptr", at, below), W(p, "key", at, key), W(p, "ptr", at, ptr) >>)
             \o << W(p, "last_index", 0, num) >>

\* The writes of remove_key on a leaf that holds key: turn the page's
\* direction, duplicate the ptr below the record, shift the rest down.
remove_key(p, pg, key) ==
    LET n     == Min({i \in Slots : pg.ptr[i] = null})
        at    == Min({i \in 0 .. (n - 1) : pg.key[i] = key})
        turn  == IF IsForward(pg.switch_counter)
                 THEN << W(p, "switch_counter", 0, (pg.switch_counter + 1) % 256) >>
                 ELSE << >>
        shift == FlattenSeq([j \in 1 .. (n - at) |->
                     << W(p, "key", at + j - 1, pg.key[at + j]),
                        W(p, "ptr", at + j - 1, pg.ptr[at + j]) >>])
    IN  turn \o << W(p, "ptr", at, IF at = 0 THEN null ELSE pg.ptr[at - 1]) >>
             \o shift \o << W(p, "last_index", 0, pg.last_index - 1) >>

-----------------------------------------------------------------------------
(* Searching, with nobody writing *)

\* linear_search on an internal page: its sibling, or the child for key.
\* Nothing is ever removed from an internal page, so it is always forward.
ChildFor(hp, p, key) ==
    LET pg    == hp[p]
        above == {i \in 0 .. (count(pg) - 1) : key < pg.key[i]}
        below == IF above = {} THEN count(pg) - 1 ELSE Min(above) - 1
    IN  IF pg.sibling # null /\ key >= hp[pg.sibling].key[0] THEN pg.sibling
        ELSE IF below < 0 THEN pg.leftmost ELSE PageOf(pg.ptr[below])

\* Down to the given level.
RECURSIVE Descend(_, _, _, _)
Descend(hp, p, key, level) ==
    IF hp[p].level = level THEN p ELSE Descend(hp, ChildFor(hp, p, key), key, level)

\* linear_search on a leaf: is there a record of key (one whose ptr differs
\* from the one below it)?
LeafHas(pg, key) ==
    \E i \in 0 .. (count(pg) - 1) :
        /\ pg.key[i] = key
        /\ i > 0 => pg.ptr[i - 1] # pg.ptr[i]

\* The leaf btree_search and btree_delete end at: along the siblings while
\* the key is not here and not below the next leaf's first key.
RECURSIVE LeafFor(_, _, _)
LeafFor(hp, p, key) ==
    IF ~LeafHas(hp[p], key) /\ hp[p].sibling # null /\ key >= hp[hp[p].sibling].key[0]
    THEN LeafFor(hp, hp[p].sibling, key)
    ELSE p

btree_search(key) ==
    LeafHas(heap[LeafFor(heap, Descend(heap, root, key, 0), key)], key)

-----------------------------------------------------------------------------
(* Inserting *)

\* Mutation: leaves are split the way internal pages are.
SplitOff_AboveMiddle(pg, m, num) ==
    LET add(new, i) == ApplyAll([heap |-> << new >>, root |-> null],
                                insert_key(1, new, pg.key[i], pg.ptr[i], i - m - 1)).heap[1]
        moved == FoldLeft(add, NewPage(pg.level), [i \in 1 .. (num - m - 1) |-> m + i])
    IN  [moved EXCEPT !.leftmost = IF pg.leftmost = null THEN null ELSE PageOf(pg.ptr[m]),
                      !.sibling  = pg.sibling]

\* The page a split allocates: records m up of pg, or on an internal page
\* those above m, whose child m becomes leftmost_ptr, inserted one by one.
SplitOff(pg, m, num) ==
    LET leaf  == pg.leftmost = null
        from  == IF leaf THEN m ELSE m + 1
        add(new, i) == ApplyAll([heap |-> << new >>, root |-> null],
                                insert_key(1, new, pg.key[i], pg.ptr[i], i - from)).heap[1]
        moved == FoldLeft(add, NewPage(pg.level), [i \in 1 .. (num - from) |-> from + i - 1])
    IN  [moved EXCEPT !.leftmost = IF leaf THEN null ELSE PageOf(pg.ptr[m]),
                      !.sibling  = pg.sibling]

\* Mutation: the page is truncated before its new sibling is linked.
SplitWrites_TruncateFirst(p, pg, sib, sibling, m) ==
    << W(sib, "page", 0, sibling),
       W(p, "switch_counter", 0, (pg.switch_counter + 2) % 256),
       W(p, "ptr", m, null),
       W(p, "last_index", 0, m - 1),
       W(p, "sibling", 0, sib) >>

\* FAIR: the new page, the link to it, the turn of the counter, the cut.
SplitWrites(p, pg, sib, sibling, m) ==
    << W(sib, "page", 0, sibling),
       W(p, "sibling", 0, sib),
       W(p, "switch_counter", 0,
         (pg.switch_counter + (IF IsForward(pg.switch_counter) THEN 2 ELSE 1)) % 256),
       W(p, "ptr", m, null),
       W(p, "last_index", 0, m - 1) >>

\* store: to the right while the key is above the sibling's first key; into
\* the page if it has room; else split it, store into a half, and give the
\* new root or the parent (btree_insert_internal) the split key.
RECURSIVE store(_, _, _, _)
store(hr, p, key, ptr) ==
    LET pg  == hr.heap[p]
        num == count(pg)
    IN  IF pg.sibling # null /\ key > hr.heap[pg.sibling].key[0]
        THEN store(hr, pg.sibling, key, ptr)
        ELSE IF num < cardinality - 1
        THEN insert_key(p, pg, key, ptr, num)
        ELSE LET m     == num \div 2
                 sib   == Len(hr.heap) + 1
                 half  == SplitOff(pg, m, num)
                 cut   == SplitWrites(p, pg, sib, half, m)
                 split == ApplyAll(hr, cut)
                 put   == IF key < pg.key[m]
                          THEN insert_key(p, split.heap[p], key, ptr, m)
                          ELSE insert_key(sib, half, key, ptr, count(half))
                 after == ApplyAll(split, put)
                 up    == IF hr.root = p
                          THEN << W(sib + 1, "page", 0,
                                    NewRootPage(p, pg.key[m], sib, pg.level + 1)),
                                  W(0, "root", 0, sib + 1) >>
                          ELSE IF pg.level + 1 > hr.heap[hr.root].level THEN << >>
                          ELSE store(after,
                                     Descend(after.heap, hr.root, pg.key[m], pg.level + 1),
                                     pg.key[m], PageRef(sib))
             IN  cut \o put \o up

btree_insert(hr, key) == store(hr, Descend(hr.heap, hr.root, key, 0), key, key)

\* btree_delete of a key that btree_search finds (apply_buffered_op asks
\* first; for a missing key the call does not return).
btree_delete(hr, key) ==
    LET p == LeafFor(hr.heap, Descend(hr.heap, hr.root, key, 0), key)
    IN  remove_key(p, hr.heap[p], key)

-----------------------------------------------------------------------------
\* buf holds the slots written so far, out what scan_range returns.  The last
\* five fields are kept for the properties.
NoScan == [phase |-> "idle", start |-> 0, end |-> 0, page |-> null, leaf |-> null,
           counter |-> 0, i |-> 0, k |-> 0, t |-> 0, back |-> FALSE,
           off |-> 0, old_off |-> 0, buf |-> << >>, out |-> << >>,
           stable |-> {}, seen |-> {}, quiet |-> TRUE, early |-> FALSE, borrowed |-> FALSE]

Tree == [heap |-> heap, root |-> root]

Loaded(keys) ==
    FoldLeft(LAMBDA hr, k : ApplyAll(hr, btree_insert(hr, k)),
             [heap |-> << NewPage(0) >>, root |-> 1], keys)

Init ==
    \E keys \in Loads :
        /\ heap = Loaded(keys).heap
        /\ root = Loaded(keys).root
        /\ todo = << >>
        /\ writes = 0
        /\ stored = [k \in TreeKeys |-> Cardinality({i \in DOMAIN keys : keys[i] = k})]
        /\ doubled = {}
        /\ erased = FALSE
        /\ scan = NoScan

Members == {k \in TreeKeys : stored[k] > 0}

\* A running scan remembers which keys have been in the tree all along and
\* which at some time; a key on its way in or out is not one of the former.
Track(before, after) ==
    scan' = [scan EXCEPT !.stable = @ \cap before \cap after, !.seen = @ \cup before \cup after,
                           !.quiet = (scan.phase = "idle")]

Insert(k) ==
    /\ todo = << >>
    /\ writes < MaxWrites
    /\ todo' = btree_insert(Tree, k)
    /\ writes' = writes + 1
    /\ stored' = [stored EXCEPT ![k] = @ + 1]
    /\ doubled' = IF stored[k] > 0 THEN doubled \cup {k} ELSE doubled
    /\ Track(Members, Members \cup {k})
    /\ UNCHANGED <<heap, root, erased>>

Erase(k) ==
    /\ todo = << >>
    /\ writes < MaxWrites
    /\ btree_search(k)
    /\ todo' = btree_delete(Tree, k)
    /\ writes' = writes + 1
    /\ stored' = [stored EXCEPT ![k] = @ - 1]
    /\ Track(Members, {x \in Members : x # k \/ stored[k] > 1})
    /\ erased' = TRUE
    /\ UNCHANGED <<heap, root, doubled>>

\* The next word write becomes visible.
WriteWord ==
    /\ todo # << >>
    /\ heap' = Apply(Tree, Head(todo)).heap
    /\ root' = Apply(Tree, Head(todo)).root
    /\ todo' = Tail(todo)
    /\ Len(heap') <= MaxPages
    /\ UNCHANGED <<writes, stored, doubled, erased, scan>>

-----------------------------------------------------------------------------
(* scan_range(start, count): btree_search_range after the drain, no lock   *)

Scanning(phase) == scan.phase = phase

pageOfScan == heap[scan.page]

ScanStep == UNCHANGED <<heap, root, todo, writes, stored, doubled, erased>>

\* The drain before the scan has finished its writes; a count of 0 returns at
\* once, else the buffer is allocated and the root is read.
scan_range(range) ==
    /\ Scanning("idle")
    /\ todo = << >>
    /\ range[2] > 0
    /\ scan' = [NoScan EXCEPT !.phase = "page", !.start = range[1],
                              !.end = range[1] + range[2], !.page = root,
                              !.stable = Members, !.seen = Members]
    /\ ScanStep

\* linear_search(min) on an internal page begins, or a leaf is entered: the
\* counter is read and with it the direction.
EnterPage ==
    /\ Scanning("page")
    /\ LET pg   == pageOfScan
           leaf == IF scan.leaf = null THEN scan.page ELSE scan.leaf
       IN  scan' = IF pg.leftmost # null
                   THEN [scan EXCEPT !.phase = "child", !.counter = pg.switch_counter, !.i = 0]
                   ELSE [scan EXCEPT
                            !.phase = IF IsForward(pg.switch_counter) THEN "slot" ELSE "count",
                            !.back = ~IsForward(pg.switch_counter),
                            !.leaf = leaf, !.counter = pg.switch_counter,
                            !.i = 0, !.old_off = scan.off]
    /\ ScanStep

\* Internal page, slot i: the loop's null test, the key, and the test that
\* the ptr below differs from this one.
ChildSlot ==
    /\ Scanning("child")
    /\ LET pg    == pageOfScan
           below == IF scan.i = 0 THEN PageRef(pg.leftmost) ELSE pg.ptr[scan.i - 1]
       IN  scan' = IF scan.i > 0 /\ pg.ptr[scan.i] = null
                   THEN [scan EXCEPT !.t = below, !.phase = "checkChild"]
                   ELSE IF scan.start < pg.key[scan.i] /\ below # pg.ptr[scan.i]
                   THEN [scan EXCEPT !.t = below, !.phase = "checkChild"]
                   ELSE [scan EXCEPT !.i = @ + 1]
    /\ ScanStep

\* The counter is read again; unchanged, the sibling is looked at.
CheckChild ==
    /\ Scanning("checkChild")
    /\ LET pg == pageOfScan
       IN  scan' = IF pg.switch_counter # scan.counter
                   THEN [scan EXCEPT !.phase = "page"]
                   ELSE [scan EXCEPT !.phase = "page", !.t = 0,
                            !.page = IF /\ pg.sibling # null
                                        /\ scan.start >= heap[pg.sibling].key[0]
                                     THEN pg.sibling ELSE PageOf(scan.t)]
    /\ ScanStep

\* Backward, the loop starts at count() - 1: count() of the first leaf of
\* the scan, not of the one being read.
CountLeaf ==
    /\ Scanning("count")
    /\ scan' = [scan EXCEPT !.phase = "slot", !.borrowed = @ \/ scan.leaf # scan.page,
                            !.i = LET n == count(heap[scan.leaf]) IN IF n = 0 THEN 0 ELSE n - 1]
    /\ ScanStep

\* On to the next slot; what was read of this one is forgotten.
NextSlot == IF ~scan.back THEN [scan EXCEPT !.phase = "slot", !.i = @ + 1, !.k = 0, !.t = 0]
            ELSE IF scan.i = 0 THEN [scan EXCEPT !.phase = "check", !.k = 0, !.t = 0]
            ELSE [scan EXCEPT !.phase = "slot", !.i = @ - 1, !.k = 0, !.t = 0]

\* The forward loop's null test (slot 0 has none).
ReadCondition ==
    /\ Scanning("slot")
    /\ scan' = IF ~scan.back /\ scan.i > 0 /\ pageOfScan.ptr[scan.i] = null
               THEN [scan EXCEPT !.phase = "check"]
               ELSE [scan EXCEPT !.phase = "key"]
    /\ ScanStep

\* The key: below or at min, go on; at or above max, the scan returns.
ReadKey ==
    /\ Scanning("key")
    /\ LET k == pageOfScan.key[scan.i]
       IN  scan' = IF k <= scan.start THEN NextSlot
                   ELSE IF k >= scan.end THEN [scan EXCEPT !.phase = "gathered", !.early = TRUE]
                   ELSE [scan EXCEPT !.phase = "ptr", !.k = k]
    /\ ScanStep

ReadPtr ==
    /\ Scanning("ptr")
    /\ scan' = [scan EXCEPT !.phase = "below", !.t = pageOfScan.ptr[scan.i]]
    /\ ScanStep

\* A ptr equal to the one below it (null under slot 0) is no record.
ReadBelow ==
    /\ Scanning("below")
    /\ scan' = IF scan.t = (IF scan.i = 0 THEN null ELSE pageOfScan.ptr[scan.i - 1])
               THEN NextSlot
               ELSE [scan EXCEPT !.phase = "again"]
    /\ ScanStep

\* buf[off] = v, over what an earlier reading of the page has left there.
Stored(buf, off, v) ==
    IF off < Len(buf) THEN [buf EXCEPT ![off + 1] = v] ELSE Append(buf, v)

\* The key must not have changed; then the record's value goes to the buffer.
ReadKeyAgain ==
    /\ Scanning("again")
    /\ scan' = IF pageOfScan.key[scan.i] = scan.k /\ scan.t # null
               THEN [NextSlot EXCEPT !.buf = Stored(@, scan.off, scan.t), !.off = @ + 1]
               ELSE NextSlot
    /\ ScanStep

\* A changed counter: the page is read again from old_off on; slots that the
\* second reading does not reach keep their values.  Else on to the sibling.
CheckCounter ==
    /\ Scanning("check")
    /\ LET pg == pageOfScan
       IN  scan' = IF pg.switch_counter # scan.counter
                   THEN [scan EXCEPT !.phase = "page", !.off = scan.old_off]
                   ELSE [scan EXCEPT !.phase = "sibling"]
    /\ ScanStep

FollowSibling ==
    /\ Scanning("sibling")
    /\ LET next == pageOfScan.sibling
       IN  scan' = IF next = null THEN [scan EXCEPT !.phase = "gathered"]
                   ELSE [scan EXCEPT !.phase = "page", !.page = next]
    /\ ScanStep


\* The loop over the slots of buf: start + i for the i-th that is not 0.  (The
\* buffer has count slots; the loop sees no value stored past its end.)
ConvertSlots ==
    /\ Scanning("gathered")
    /\ LET n == Min({Len(scan.buf), scan.end - scan.start})
       IN  scan' = [scan EXCEPT !.phase = "done", !.out = [i \in 1 .. n |-> scan.start + i - 1]]
    /\ ScanStep

EndScan ==
    /\ Scanning("done")
    /\ scan' = NoScan
    /\ ScanStep

Next ==
    \/ \E k \in TreeKeys : Insert(k)
    \/ \E k \in TreeKeys : Erase(k)
    \/ WriteWord
    \/ \E range \in Ranges : scan_range(range)
    \/ EnterPage
    \/ ChildSlot
    \/ CheckChild
    \/ CountLeaf
    \/ ReadCondition
    \/ ReadKey
    \/ ReadPtr
    \/ ReadBelow
    \/ ReadKeyAgain
    \/ CheckCounter
    \/ FollowSibling
    \/ ConvertSlots
    \/ EndScan

Spec == Init /\ [][Next]_treeVars

-----------------------------------------------------------------------------
(* Properties *)

Leaves == {p \in DOMAIN heap : heap[p].level = 0}

\* Between operations btree_search finds exactly the keys inserted more often
\* than erased, through any splits; of a key that was inserted while the
\* tree had it, a copy may be out of its reach, but no erased key is found.
SearchIsMembership ==
    todo = << >> =>
        \A k \in TreeKeys : /\ btree_search(k) => stored[k] > 0
                            /\ stored[k] > 0 => btree_search(k) \/ k \in doubled

\* The values btree_search_range has put in the buffer, and those among them
\* that its last reading of every leaf has put there.
Gathered == ToSet(scan.buf)
LastGathered == ToSet(SubSeq(scan.buf, 1, scan.off))

\* The range btree_search_range asks for, open at both ends.
Between(S) == {k \in S : scan.start < k /\ k < scan.end}

\* The range search beside inserts, erases, splits and new roots gathers only
\* values of keys that were in the tree at some moment of the search, unless
\* it has read a leaf with the count() of another one (linear_search_range
\* calls count() of the page it began at).
RangeSearchGathersMembers ==
    Scanning("gathered") /\ ~scan.borrowed => Gathered \subseteq scan.seen

\* FAST and FAIR: a range search that goes to the last leaf gathers every key
\* strictly between min and max that was in the tree all along, although
\* records are shifted and pages split under it word by word.  (linear_search_range
\* asks for key > min and key < max.  A search that returns at a key past max
\* may have read that key from a slot not yet written.)
UncutSearchIsComplete ==
    Scanning("gathered") /\ ~scan.borrowed /\ ~scan.early =>
        Between(scan.stable \ doubled) \subseteq LastGathered


\* What future_btree.h says of scan_range: the keys in [start, start + count).
Asked(k) == scan.start <= k /\ k < scan.end

\* With nobody writing, the range search gathers only values of keys that
\* exist in the tree.
QuietSearchGathersMembers == Scanning("gathered") /\ scan.quiet => Gathered \subseteq scan.seen

\* The keys scan_range writes into out exist in the tree, at least with nobody
\* writing.
ScanReturnsKeys ==
    Scanning("done") /\ scan.quiet => \A k \in ToSet(scan.out) : Asked(k) /\ k \in scan.seen

\* With nobody writing and nothing erased or inserted twice before, scan_range
\* returns the number of keys in [start, start + count).
ScanCountsKeys ==
    Scanning("done") /\ scan.quiet /\ ~erased /\ doubled = {} =>
        Len(scan.out) = Cardinality({k \in scan.seen : Asked(k)})
=============================================================================
