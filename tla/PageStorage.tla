---------------------------- MODULE PageStorage ----------------------------
(***************************************************************************)
(* rt::vm::storage::Storage: a contract's storage as a VM sees it.  Bytes  *)
(* live in pages; a page is either overridden by a write of this           *)
(* execution, or held in a small LRU cache of what was read, or known to   *)
(* the host only.  The first write to a page is charged to the storage fee *)
(* bucket.  A Storage has one owner, so each call is one action.           *)
(*                                                                         *)
(* A guest's buffer is told from its neighbours by position: byte i of the *)
(* storage written by a call tagged t holds ByteOf(t, i).                  *)
(*                                                                         *)
(* The host is external: it answers storage_read from a fixed snapshot.    *)
(***************************************************************************)
EXTENDS Integers, SequencesExt

CONSTANTS
    Slots,       \* slot numbers, ordered as SlotID is
    NPages,      \* pages of a slot (u32 indices in the code)
    PageSize,    \* 32
    CacheSize,   \* STORAGE_CACHE_SIZE
    StagingSize, \* length of put_to_cache, STORAGE_CACHE_SIZE / 16
    FeePages,    \* pages the storage fee bucket can pay for
    Writes       \* tags telling the writes apart

ASSUME ConstantsAssumption ==
    /\ Slots \subseteq Nat /\ NPages \in Nat \ {0} /\ PageSize \in Nat \ {0}
    /\ CacheSize \in Nat \ {0} /\ StagingSize \in Nat /\ FeePages \in Nat
    /\ Writes \subseteq Nat \ {0}

SlotBytes == NPages * PageSize
PageIDs == Slots \X (0 .. NPages - 1)
Offsets == 0 .. PageSize - 1

(* A byte is known by where it belongs and by who put it there: the host   *)
(* (0) or a write.  Old is what a buffer holds before the call.            *)
ByteOf(tag, i) == tag * SlotBytes + i
Old == -1
Byte == {ByteOf(tag, i) : tag \in Writes \cup {0}, i \in 0 .. SlotBytes - 1}

HostPage(id) == [o \in Offsets |-> ByteOf(0, id[2] * PageSize + o)]

VARIABLES
    pages,      \* StoragePagesOverride: PageID -> its bytes, for written pages
    cache,      \* ConstLru, most recently used first: <<id, bytes>>
    feesLeft,   \* pages the bucket can still pay for
    contents,   \* history: what each byte of each slot should read as
    wrong       \* history: the bytes the last read did not return as they should be

vars == <<pages, cache, feesLeft, contents, wrong>>

Init ==
    /\ pages = <<>>
    /\ cache = <<>>
    /\ feesLeft = FeePages
    /\ contents = [s \in Slots |-> [i \in 0 .. SlotBytes - 1 |-> ByteOf(0, i)]]
    /\ wrong = {}

Written == DOMAIN pages

-----------------------------------------------------------------------------
(* ConstLru (external): get makes an entry the most recently used one;     *)
(* insert puts a new one in front and evicts the least recently used.      *)

Cached(c, id) == \E k \in 1 .. Len(c) : c[k][1] = id
EntryOf(c, id) == CHOOSE k \in 1 .. Len(c) : c[k][1] = id
CachedPage(c, id) == c[EntryOf(c, id)][2]
Without(c, id) == IF Cached(c, id) THEN RemoveAt(c, EntryOf(c, id)) ELSE c
Newest(c, n) == IF Len(c) > n THEN SubSeq(c, 1, n) ELSE c
LruGet(c, id) ==
    IF Cached(c, id) THEN <<<<id, CachedPage(c, id)>>>> \o Without(c, id) ELSE c
LruInsert(c, id, data) == <<<<id, data>>>> \o Newest(Without(c, id), CacheSize - 1)

-----------------------------------------------------------------------------
(* read: the known pages at both ends of the range are cut off, the rest   *)
(* is read from the host in one call, and a second pass over all the pages *)
(* lays the known ones over the buffer and caches the ones just read.      *)

FirstPage(from) == from \div PageSize
LastPage(to) == (to - 1) \div PageSize
PagesOf(slot, from, to) ==
    [k \in 1 .. LastPage(to) - FirstPage(from) + 1 |-> <<slot, FirstPage(from) + k - 1>>]

(* page_is_known, and how many pages in a row are.                         *)
Known(id) == id \in Written \/ Cached(cache, id)
KnownRun(ids) == Min({k \in 1 .. Len(ids) : ~Known(ids[k])} \cup {Len(ids) + 1}) - 1

(* Asking promotes the page in the cache, unless it is an override.        *)
Look(c, id) == IF id \in Written THEN c ELSE LruGet(c, id)
Touch(c, ids) == FoldLeft(LAMBDA acc, id : Look(acc, id), c, ids)

(* Mutant of Overlay: the page is laid from its start, not from its part.  *)
Overlay_Shifted(buf, id, data) ==
    [i \in DOMAIN buf |->
        IF i \div PageSize = id[2] THEN data[(i - Min(DOMAIN buf)) % PageSize] ELSE buf[i]]

(* The bytes of page id that fall in the buffer.                           *)
Overlay(buf, id, data) ==
    [i \in DOMAIN buf |-> IF i \div PageSize = id[2] THEN data[i % PageSize] ELSE buf[i]]

(* Mutant of Extract: the bytes are taken from the start of the buffer.    *)
Extract_FromStart(buf, id) == [o \in Offsets |-> buf[Min(DOMAIN buf) + o]]

Extract(buf, id) == [o \in Offsets |-> buf[id[2] * PageSize + o]]

(* The bytes between the known pages at both ends, which the host is asked *)
(* for in one call; the rest of the buffer is as it was.                   *)
NeedFrom(slot, from, to) ==
    LET prefix == KnownRun(PagesOf(slot, from, to))
    IN  IF prefix = 0 THEN from ELSE (FirstPage(from) + prefix) * PageSize
NeedTo(slot, from, to) ==
    LET suffix == KnownRun(Reverse(PagesOf(slot, from, to)))
    IN  IF suffix = 0 THEN to ELSE (LastPage(to) - suffix + 1) * PageSize

HostRead(from, to, needFrom, needTo) ==
    [i \in from .. to - 1 |-> IF needFrom <= i /\ i < needTo THEN ByteOf(0, i) ELSE Old]

(* The cache when both ends have been looked at.                           *)
CutEnds(ids) ==
    Touch(cache, SubSeq(ids, 1, KnownRun(ids)) \o SubSeq(Reverse(ids), 1, KnownRun(Reverse(ids))))

(* The second pass, at one page.                                           *)
ReadPass(st, id, needFrom, needTo) ==
    CASE id \in Written ->
            [st EXCEPT !.buf = Overlay(@, id, pages[id])]
      [] id \notin Written /\ Cached(st.cache, id) ->
            [st EXCEPT !.buf = Overlay(@, id, CachedPage(st.cache, id)),
                       !.cache = LruGet(@, id)]
      [] /\ id \notin Written /\ ~Cached(st.cache, id)
         /\ id[2] * PageSize >= needFrom /\ (id[2] + 1) * PageSize <= needTo ->
            IF Len(st.staged) < StagingSize
            THEN [st EXCEPT !.staged = Append(@, <<id, Extract(st.buf, id)>>)]
            ELSE [st EXCEPT !.cache = LruInsert(@, id, Extract(st.buf, id))]
      [] OTHER -> st

SecondPass(st, ids, needFrom, needTo) ==
    FoldLeft(LAMBDA acc, id : ReadPass(acc, id, needFrom, needTo), st, ids)

(* What was staged is cached in the end.                                   *)
PutStaged(c, staged) == FoldLeft(LAMBDA acc, e : LruInsert(acc, e[1], e[2]), c, staged)

ReadResult(slot, from, to) ==
    LET ids == PagesOf(slot, from, to)
        needFrom == NeedFrom(slot, from, to)
        needTo == NeedTo(slot, from, to)
        start == [buf |-> HostRead(from, to, needFrom, needTo), cache |-> CutEnds(ids),
                  staged |-> <<>>]
        end == SecondPass(start, ids, needFrom, needTo)
    IN  [buf |-> end.buf, cache |-> PutStaged(end.cache, end.staged)]

ReadRange(slot, from, to) ==
    \E r \in {ReadResult(slot, from, to)} :
        /\ cache' = r.cache
        /\ wrong' = {i \in from .. to - 1 : r.buf[i] # contents[slot][i]}
        /\ UNCHANGED <<pages, feesLeft, contents>>

Read ==
    \E slot \in Slots, from \in 0 .. SlotBytes - 1 : \E to \in from + 1 .. SlotBytes :
        ReadRange(slot, from, to)

-----------------------------------------------------------------------------
(* write: a range inside one page, or else the partial first page, then    *)
(* the partial last one, then the whole pages in order.                    *)

WriteOrder(slot, from, to) ==
    LET ids == PagesOf(slot, from, to)
        partialFirst == from > FirstPage(from) * PageSize
        partialLast == to < (LastPage(to) + 1) * PageSize
    IN  IF Len(ids) = 1 THEN ids
        ELSE (IF partialFirst THEN <<Head(ids)>> ELSE <<>>)
             \o (IF partialLast THEN <<Last(ids)>> ELSE <<>>)
             \o SubSeq(ids, IF partialFirst THEN 2 ELSE 1,
                             IF partialLast THEN Len(ids) - 1 ELSE Len(ids))

(* Mutant of NewPage: an existing override is not merged.                  *)
NewPage_FromHost(ps, id, from, buf) ==
    LET At(o) == id[2] * PageSize + o - from
    IN  [o \in Offsets |-> IF At(o) \in DOMAIN buf THEN buf[At(o)] ELSE HostPage(id)[o]]

(* A page after the write: the existing override or the host's page (never *)
(* the cache), overlaid with the bytes of the buffer that fall in it.      *)
NewPage(ps, id, from, buf) ==
    LET base == IF id \in DOMAIN ps THEN ps[id] ELSE HostPage(id)
        At(o) == id[2] * PageSize + o - from
    IN  [o \in Offsets |-> IF At(o) \in DOMAIN buf THEN buf[At(o)] ELSE base[o]]

Put(ps, id, data) == [p \in DOMAIN ps \cup {id} |-> IF p = id THEN data ELSE ps[p]]

(* write_page: the first write of a page is charged before it is stored;   *)
(* when the bucket is empty the call fails there.                          *)
WritePage(st, id, data) ==
    IF id \in DOMAIN st.pages THEN [st EXCEPT !.pages = Put(@, id, data)]
    ELSE IF st.fees = 0 THEN [st EXCEPT !.ok = FALSE]
    ELSE [st EXCEPT !.pages = Put(@, id, data), !.fees = @ - 1]

(* A failed page ends the call.                                            *)
WriteNext(st, id, from, buf) ==
    IF st.ok THEN WritePage(st, id, NewPage(st.pages, id, from, buf)) ELSE st

WriteResult(slot, from, to, buf) ==
    FoldLeft(LAMBDA st, id : WriteNext(st, id, from, buf),
             [pages |-> pages, fees |-> feesLeft, ok |-> TRUE],
             WriteOrder(slot, from, to))

(* What the pages and the host say a byte is.                              *)
Holds(ps, slot, i) ==
    LET id == <<slot, i \div PageSize>>
    IN  IF id \in DOMAIN ps THEN ps[id][i % PageSize] ELSE ByteOf(0, i)

(* The buffer a guest passes.                                              *)
Buf(tag, from, to) == [k \in 0 .. to - from - 1 |-> ByteOf(tag, from + k)]

(* A failed call has stored some of its pages: of each byte of its range   *)
(* the old value or the new one stands.                                    *)
Write ==
    \E slot \in Slots, from \in 0 .. SlotBytes - 1, tag \in Writes :
    \E to \in from + 1 .. SlotBytes :
    \E r \in {WriteResult(slot, from, to, Buf(tag, from, to))} :
        /\ pages' = r.pages
        /\ feesLeft' = r.fees
        /\ contents' = [contents EXCEPT ![slot] = [i \in DOMAIN @ |->
              IF i \in from .. to - 1 /\ (r.ok \/ Holds(r.pages, slot, i) # @[i])
              THEN ByteOf(tag, i) ELSE @[i]]]
        /\ wrong' = {}
        /\ UNCHANGED cache

Next == Read \/ Write

Spec == Init /\ [][Next]_vars

-----------------------------------------------------------------------------
(* make_delta: the overridden pages in order, a page that follows another  *)
(* of its slot appended to the last entry.                                 *)

PageBefore(a, b) == a[1] < b[1] \/ (a[1] = b[1] /\ a[2] < b[2])

InOrder(ids) ==
    CHOOSE s \in [1 .. Cardinality(ids) -> ids] :
        \A i, j \in DOMAIN s : i < j => PageBefore(s[i], s[j])

(* Mutant of AddPage: the previous page is looked for in any slot.         *)
AddPage_AnySlot(ps, res, id) ==
    IF id[2] # 0 /\ \E s \in Slots : <<s, id[2] - 1>> \in DOMAIN ps /\ res # <<>>
    THEN [res EXCEPT ![Len(res)].data = Append(@, ps[id])]
    ELSE Append(res, [id |-> id, data |-> <<ps[id]>>])

AddPage(ps, res, id) ==
    IF id[2] # 0 /\ <<id[1], id[2] - 1>> \in DOMAIN ps
    THEN [res EXCEPT ![Len(res)].data = Append(@, ps[id])]
    ELSE Append(res, [id |-> id, data |-> <<ps[id]>>])

make_delta(ps) == FoldLeft(LAMBDA res, id : AddPage(ps, res, id), <<>>, InOrder(DOMAIN ps))

-----------------------------------------------------------------------------
(* Properties.                                                             *)

TypeOK ==
    /\ Written \subseteq PageIDs
    /\ \A id \in Written : pages[id] \in [Offsets -> Byte]
    /\ Len(cache) <= CacheSize
    /\ \A k \in 1 .. Len(cache) : cache[k] \in PageIDs \X [Offsets -> Byte]
    /\ feesLeft \in 0 .. FeePages

(* A cached page is what the host holds, under one entry: the bytes of a   *)
(* buffer the host call did not fill never reach the cache.                *)
CacheIsHost ==
    \A k \in 1 .. Len(cache) :
        /\ cache[k][2] = HostPage(cache[k][1])
        /\ \A l \in 1 .. Len(cache) : cache[k][1] = cache[l][1] => k = l

(* A read returns, for every byte of the range, the last byte written      *)
(* there or else the host's: cutting the range, the cache and the override *)
(* are never visible ("so no read page is dropped").                       *)
ReadReturnsContents == wrong = {}

(* The storage bucket has paid for each page that is part of the delta,    *)
(* once, whether the writes succeeded or failed half way.                  *)
OneFeePerPage == feesLeft + Cardinality(Written) = FeePages

(* What read and write keep for later is right: within its bounds, cached  *)
(* pages are the host's, and fees are paid for exactly the overrides.      *)
CacheAndFeesExact == TypeOK /\ CacheIsHost /\ OneFeePerPage

(* Overrides over the host's pages are the storage as it should be: a      *)
(* write changes its whole range and nothing else, and a write that runs   *)
(* out of fees leaves in its range each byte as it was or as written.      *)
StorageIsContents ==
    \A s \in Slots, i \in 0 .. SlotBytes - 1 : Holds(pages, s, i) = contents[s][i]

(* The delta sent to the host says of each page exactly what the override  *)
(* says, once: an entry stands for consecutive pages of one slot.          *)
DeltaSays(d) ==
    UNION {{<<<<d[k].id[1], d[k].id[2] + n - 1>>, d[k].data[n]>> :
              n \in 1 .. Len(d[k].data)} : k \in 1 .. Len(d)}
DeltaPages(d) == FoldLeft(LAMBDA n, e : n + Len(e.data), 0, d)
DeltaIsPages ==
    LET d == make_delta(pages)
    IN  /\ DeltaSays(d) = {<<id, pages[id]>> : id \in Written}
        /\ DeltaPages(d) = Cardinality(Written)

=============================================================================
