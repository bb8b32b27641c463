----------------------------- MODULE BlockProxy -----------------------------
(***************************************************************************)
(* Byte ranges of an archived object, served through a cache of blocks     *)
(* (internal/offload/proxy.go).                                            *)
(*                                                                         *)
(* A request looks which blocks are missing, fetches each run of them      *)
(* without the lock, stores it, which may evict others, and then takes its *)
(* blocks from the cache one by one.  A byte is its offset in the object,  *)
(* whose bytes never change.                                               *)
(***************************************************************************)
EXTENDS Naturals, Sequences, FiniteSetsExt

CONSTANTS
    Requests,     \* concurrent requests
    Total,        \* size of the object
    BlockSize, MaxCachedBytes,
    MaxServes     \* bound: ranges asked for

ASSUME BlockProxyAssumption ==
    /\ IsFiniteSet(Requests) /\ Total \in Nat \ {0} /\ BlockSize \in Nat \ {0}
    /\ MaxCachedBytes \in Nat /\ MaxServes \in Nat

Offsets == 0..Total - 1
Blocks == 0..(Total - 1) \div BlockSize
LesserOf(a, b) == IF a < b THEN a ELSE b

\* Bytes first to last of the object.
Bytes(first, last) == [i \in 1..(last + 1 - first) |-> first + i - 1]

VARIABLES
    lru,          \* cached blocks, the most recently used first
    data,         \* cached block -> its bytes
    cachedBytes,
    req,          \* request -> [at, start, end, missing, next, out]; next: the block to take
    serves

proxyVars == <<lru, data, cachedBytes, req, serves>>

\* Bytes in some blocks: their places are counted.
Size(blocks) == Cardinality(UNION {{b} \X DOMAIN blocks[b] : b \in DOMAIN blocks})

Cached == {lru[i] : i \in DOMAIN lru}

NoRequest == [at |-> "idle", start |-> 0, end |-> 0, missing |-> {}, next |-> 0, out |-> <<>>]

ProxyInit ==
    /\ lru = <<>> /\ data = <<>> /\ cachedBytes = 0
    /\ req = [r \in Requests |-> NoRequest]
    /\ serves = 0

First(q) == q.start \div BlockSize
Final(q) == q.end \div BlockSize

\* A span that cannot fit into the cache is streamed and never gets here.
Serve(r) ==
    /\ req[r].at \in {"idle", "served", "failed", "vanished"} /\ serves < MaxServes
    /\ \E s, e \in Offsets :
         /\ s <= e /\ e + 1 - s <= MaxCachedBytes
         /\ req' = [req EXCEPT ![r] = [NoRequest EXCEPT !.at = "look", !.start = s, !.end = e]]
    /\ serves' = serves + 1
    /\ UNCHANGED <<lru, data, cachedBytes>>

\* What is missing, under the lock.  Nothing is marked as used.
Look(r) ==
    /\ req[r].at = "look"
    /\ LET q == req[r]
       IN req' = [req EXCEPT ![r].at = "fetch", ![r].missing = (First(q)..Final(q)) \ Cached,
                             ![r].next = First(q)]
    /\ UNCHANGED <<lru, data, cachedBytes, serves>>

\* The last of the contiguous run that starts with the first missing block.
RunEnd(missing) == Max({b \in missing : Min(missing)..b \subseteq missing})

\* The fetched bytes of blocks first to last, cut into blocks.
Cut(first, last) ==
    LET buf == Bytes(first * BlockSize, LesserOf(last * BlockSize + BlockSize, Total) - 1)
    IN [b \in first..last |->
          LET off == (b - first) * BlockSize
          IN SubSeq(buf, off + 1, LesserOf(off + BlockSize, Len(buf)))]

InOrder(set) ==
    CHOOSE s \in [1..Cardinality(set) -> set] : \A i, j \in DOMAIN s : i < j => s[i] < s[j]

\* A list without the blocks first to last.
Rest(list, first, last) ==
    LET others == {i \in DOMAIN list : list[i] \notin first..last}
    IN [k \in 1..Cardinality(others) |-> list[InOrder(others)[k]]]

\* Blocks first to last come to the front, the last one foremost.
ToFront(list, first, last) == [i \in 1..last + 1 - first |-> last + 1 - i] \o Rest(list, first, last)

Foremost(list, k) == {list[i] : i \in 1..k}

\* Evict from the back until the cap is kept: the longest prefix that fits.
\* The check that would spare the newest block compares it with an element
\* that is no longer in the list.
Fitting(list, blocks) ==
    Max({k \in 0..Len(list) : Size(Restrict(blocks, Foremost(list, k))) <= MaxCachedBytes})

\* Mutant: a block that two requests fetched is counted twice.
CountedTwice(first, last) == Size(Cut(first, last))

\* Bytes that stored blocks add to the count: those of blocks that are new.
Counted(first, last) == Size(Restrict(Cut(first, last), (first..last) \ Cached))

\* The cached blocks and those just cut; a block fetched twice is replaced.
WithFetched(first, last) ==
    [b \in DOMAIN data \cup first..last |-> IF b \in first..last THEN Cut(first, last)[b] ELSE data[b]]

Store(first, last) ==
    LET list == ToFront(lru, first, last)
        blocks == WithFetched(first, last)
        n == Fitting(list, blocks)
    IN /\ lru' = SubSeq(list, 1, n)
       /\ data' = Restrict(blocks, Foremost(list, n))
       /\ cachedBytes' = cachedBytes + Counted(first, last)
                            - Size(Restrict(blocks, DOMAIN blocks \ Foremost(list, n)))

FetchRun(r) ==
    LET missing == req[r].missing IN
    /\ req[r].at = "fetch" /\ missing # {}
    /\ Store(Min(missing), RunEnd(missing))
    /\ req' = [req EXCEPT ![r].missing = @ \ (Min(missing)..RunEnd(missing))]
    /\ UNCHANGED serves

FetchFails(r) ==
    /\ req[r].at = "fetch" /\ req[r].missing # {}
    /\ req' = [req EXCEPT ![r] = [NoRequest EXCEPT !.at = "failed"]]
    /\ UNCHANGED <<lru, data, cachedBytes, serves>>

\* Mutant: the last block's end is taken from the start of the range.
SliceFromStart(q) ==
    LET lo == IF q.next = First(q) THEN q.start - q.next * BlockSize ELSE 0
        hi == IF q.next = Final(q) THEN q.end - q.start + 1 ELSE Len(data[q.next])
    IN SubSeq(data[q.next], lo + 1, hi)

Slice(q) ==
    LET lo == IF q.next = First(q) THEN q.start - q.next * BlockSize ELSE 0
        hi == IF q.next = Final(q) THEN q.end - q.next * BlockSize + 1 ELSE Len(data[q.next])
    IN SubSeq(data[q.next], lo + 1, hi)

Assemble(r) ==
    LET q == req[r] IN
    /\ q.at = "fetch" /\ q.missing = {} /\ q.next \in Cached
    /\ lru' = ToFront(lru, q.next, q.next)
    /\ req' = [req EXCEPT ![r].out = q.out \o Slice(q), ![r].next = q.next + 1,
                          ![r].at = IF q.next = Final(q) THEN "served" ELSE "fetch"]
    /\ UNCHANGED <<data, cachedBytes, serves>>

Vanished(r) ==
    /\ req[r].at = "fetch" /\ req[r].missing = {} /\ req[r].next \notin Cached
    /\ req' = [req EXCEPT ![r] = [NoRequest EXCEPT !.at = "vanished"]]
    /\ UNCHANGED <<lru, data, cachedBytes, serves>>

ProxyNext ==
    \E r \in Requests :
        Serve(r) \/ Look(r) \/ FetchRun(r) \/ FetchFails(r) \/ Assemble(r) \/ Vanished(r)

ProxySpec == ProxyInit /\ [][ProxyNext]_proxyVars

-----------------------------------------------------------------------------
\* A request that is served gets the bytes it asked for, in order, across
\* unaligned ends, a short last block and blocks fetched twice.
ServedExactly ==
    \A r \in Requests : LET q == req[r] IN
        q.at = "served" => q.out = Bytes(q.start, q.end)

\* The count of cached bytes is that of the blocks in the list, and keeps to
\* the cap; the list and the map hold the same blocks.
CacheExact ==
    /\ IsInjective(lru) /\ Cached = DOMAIN data
    /\ cachedBytes = Size(data)
    /\ cachedBytes <= MaxCachedBytes
=============================================================================
