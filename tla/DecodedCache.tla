---------------------------- MODULE DecodedCache ----------------------------
(***************************************************************************)
(* The decoded images a fetcher keeps (media/cache.go): least recently     *)
(* used first out, bounded by entries and by bytes, with a running count   *)
(* of the bytes.  The fetch goroutines call it in any order; each call     *)
(* holds the lock throughout.                                              *)
(***************************************************************************)
EXTENDS Integers, SequencesExt, FiniteSetsExt

CONSTANTS
  Keys,     \* URLs
  Bytes,    \* decodedImageBytes: what an image may take; 0 when it is unknown
  MaxSize,  \* entries
  MaxBytes  \* bytes of all entries

VARIABLES
  lru,      \* the entries, most recently used first
  lruBytes, \* the running count
  latest    \* history: the bytes of the image each URL was last put with; 0: never
vars == <<lru, lruBytes, latest>>

Entry == [key : Keys, bytes : Bytes]
Total(s) == FoldLeft(LAMBDA n, e : n + e.bytes, 0, s)
Without(s, k) == SelectSeq(s, LAMBDA e : e.key # k)
Cached(k) == \E e \in ToSet(lru) : e.key = k

\* evictLRULocked: from the back, until both limits hold of what is left.
Evict(s, n) ==
  LET fits(k) == k = 0 \/ (k <= MaxSize /\ n - Total(SubSeq(s, k + 1, Len(s))) <= MaxBytes)
      kept == Max({k \in 0 .. Len(s) : fits(k)})
  IN /\ lru' = SubSeq(s, 1, kept) /\ lruBytes' = n - Total(SubSeq(s, kept + 1, Len(s)))

GetLRU(k) ==
  /\ Cached(k)
  /\ lru' = SelectSeq(lru, LAMBDA e : e.key = k) \o Without(lru, k)
  /\ UNCHANGED <<lruBytes, latest>>

\* PutLRU of an image that cannot be kept: nothing must stay under its URL.
Uncacheable(k, b) ==
  /\ b = 0 \/ b > MaxBytes
  /\ lru' = Without(lru, k) /\ lruBytes' = lruBytes - Total(SelectSeq(lru, LAMBDA e : e.key = k))

Replace(k, b) ==
  /\ b \in 1 .. MaxBytes /\ Cached(k)
  /\ Evict(<<[key |-> k, bytes |-> b]>> \o Without(lru, k),
           lruBytes - Total(SelectSeq(lru, LAMBDA e : e.key = k)) + b)

PushFront(k, b) ==
  /\ b \in 1 .. MaxBytes /\ ~Cached(k)
  /\ Evict(<<[key |-> k, bytes |-> b]>> \o lru, lruBytes + b)

PutLRU(k, b) ==
  /\ latest' = [latest EXCEPT ![k] = b]
  /\ Uncacheable(k, b) \/ Replace(k, b) \/ PushFront(k, b)

Init == lru = <<>> /\ lruBytes = 0 /\ latest = [k \in Keys |-> 0]
Next == \E k \in Keys : GetLRU(k) \/ (\E b \in Bytes : PutLRU(k, b))
Spec == Init /\ [][Next]_vars

(* ------------------------------ properties ----------------------------- *)

\* Both limits hold after every call and the running count is exactly what the entries
\* take, also after an image was replaced by a larger one or refused; and the limits cost
\* the least recently used only: an image that can be kept at all is there after its put.
WithinLimits == Len(lru) <= MaxSize /\ lruBytes = Total(lru) /\ lruBytes <= MaxBytes
PutStays == [][\A k \in Keys : latest'[k] # latest[k] /\ latest'[k] \in 1 .. MaxBytes
                 => lru' # <<>> /\ lru'[1] = [key |-> k, bytes |-> latest'[k]]]_vars

\* A URL never keeps the pixels of an image it was put with earlier, and is kept once.
LatestOnly ==
  /\ \A e \in ToSet(lru) : e.bytes = latest[e.key]
  /\ \A i, j \in DOMAIN lru : lru[i].key = lru[j].key => i = j
=============================================================================
