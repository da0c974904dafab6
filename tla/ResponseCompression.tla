------------------------ MODULE ResponseCompression ------------------------
(***************************************************************************)
(* ResponseCompressor and MetricsManager (crates/dnsd): the pattern cache  *)
(* and statistics that concurrent compressions share, and the window of    *)
(* response times the DNS handler's metrics keep.                          *)
(*                                                                         *)
(* A response is large or small and zstd makes it small, hardly smaller or *)
(* fails.  decompress_response keeps no state and is left out.  No binary  *)
(* of the repository calls the compressor; the DNS handler calls the       *)
(* metrics for every query.                                                *)
(***************************************************************************)
EXTENDS Integers, Sequences, FiniteSets, SequencesExt

CONSTANTS
    Tasks,        \* concurrent calls of compress_response
    Responses,    \* responses: [name, size, packed], packed 0 where zstd fails
    MinSize,      \* CompressionConfig::min_compress_size
    PatternCap,   \* entries the pattern cache is limited to (1000)
    EvictCount,   \* entries dropped when it is full (100)
    Times,        \* response times
    WindowCap,    \* MetricsManager::max_response_times (1000)
    MinSamples,   \* samples before percentiles are computed (20)
    MaxCalls      \* calls between two resets of the statistics (a bound)

ASSUME CompressionAssumption ==
    /\ {PatternCap, EvictCount, WindowCap, MinSamples, MaxCalls} \subseteq Nat \ {0}
    /\ EvictCount <= PatternCap /\ MinSamples <= WindowCap
    /\ \A r \in Responses : r.size \in Nat /\ r.packed \in Nat

VARIABLES
    task,      \* task[t]: where a call of compress_response is, and its response
    patterns,  \* the responses whose compressed form is cached
    stats,     \* CompressionStats
    window,    \* the last response times
    p95, p99   \* the percentiles computed last

compVars == <<task, patterns, stats, window, p95, p99>>

NoResponse == [name |-> "none", size |-> 0, packed |-> 0]
IdleTask  == [pc |-> "idle", r |-> NoResponse]
ZeroStats == [total |-> 0, compressed |-> 0, original |-> 0, packed |-> 0]

CompInit ==
    /\ task = [t \in Tasks |-> IdleTask]
    /\ patterns = {}
    /\ stats = ZeroStats
    /\ window = <<>>
    /\ p95 = 0 /\ p99 = 0

\* update_stats, under the lock of the statistics
UpdateStats(r, size, compressed) ==
    stats' = [total      |-> stats.total + 1,
              compressed |-> stats.compressed + (IF compressed THEN 1 ELSE 0),
              original   |-> stats.original + r.size,
              packed     |-> stats.packed + size]

Return(t) == task' = [task EXCEPT ![t].pc = "done"]
ReturnPlain(t) == Return(t) /\ UpdateStats(task[t].r, task[t].r.size, FALSE)
ReturnPacked(t) == Return(t) /\ UpdateStats(task[t].r, task[t].r.packed, TRUE)

\* compress_response: small ones go back as they are; a cached pattern is used.
StartCompress(t, r) ==
    /\ task[t].pc = "idle"
    /\ stats.total + Cardinality({u \in Tasks : task[u].pc \notin {"idle", "done"}}) < MaxCalls
    /\ task' = [task EXCEPT ![t] = [pc |-> "size", r |-> r]]
    /\ UNCHANGED <<patterns, stats, window, p95, p99>>

CheckSize(t) ==
    /\ task[t].pc = "size"
    /\ LET r == task[t].r IN
       \/ r.size < MinSize /\ ReturnPlain(t)
       \/ r.size >= MinSize /\ r \in patterns /\ ReturnPacked(t)
       \/ /\ r.size >= MinSize /\ r \notin patterns
          /\ task' = [task EXCEPT ![t].pc = "compress"]
          /\ UNCHANGED stats
    /\ UNCHANGED <<patterns, window, p95, p99>>

Beneficial(r) == r.packed # 0 /\ 10 * r.packed < 9 * r.size

\* cache_compression_pattern: a full cache first loses EvictCount entries, in
\* the arbitrary order of the map.  The mutant evicts one entry too late.
InsertWithin(cap, r) ==
    IF Cardinality(patterns) >= cap
    THEN \E gone \in SUBSET patterns : /\ Cardinality(gone) = EvictCount
                                       /\ patterns' = (patterns \ gone) \cup {r}
    ELSE patterns' = patterns \cup {r}
InsertLate(r) == InsertWithin(PatternCap + 1, r)
InsertPattern(r) == InsertWithin(PatternCap, r)

CompressData(t) ==
    /\ task[t].pc = "compress"
    /\ LET r == task[t].r IN
       \/ /\ Beneficial(r)
          /\ InsertPattern(r)
          /\ ReturnPacked(t)
       \/ /\ ~Beneficial(r)
          /\ ReturnPlain(t)
          /\ UNCHANGED patterns
    /\ UNCHANGED <<window, p95, p99>>

ResetStats ==
    /\ stats # ZeroStats
    /\ stats' = ZeroStats
    /\ UNCHANGED <<task, patterns, window, p95, p99>>

Deliver(t) ==
    /\ task[t].pc = "done"
    /\ task' = [task EXCEPT ![t] = IdleTask]
    /\ UNCHANGED <<patterns, stats, window, p95, p99>>

-----------------------------------------------------------------------------
(* MetricsManager::update_metrics *)

\* The index of a percentile in the sorted window (truncated, as the cast does).
PercentileIndex(n, p) == (n * p) \div 100

UpdateMetrics(d) ==
    /\ LET w == Append(window, d)
           kept == IF Len(w) > WindowCap THEN Tail(w) ELSE w
           sorted == SortSeq(kept, <)
       IN /\ window' = kept
          /\ IF Len(kept) >= MinSamples
             THEN /\ p95' = sorted[PercentileIndex(Len(kept), 95) + 1]
                  /\ p99' = sorted[PercentileIndex(Len(kept), 99) + 1]
             ELSE UNCHANGED <<p95, p99>>
    /\ UNCHANGED <<task, patterns, stats>>

ResetMetrics ==
    /\ window # <<>>
    /\ window' = <<>> /\ p95' = 0 /\ p99' = 0
    /\ UNCHANGED <<task, patterns, stats>>

CompNext ==
    \/ \E t \in Tasks : \/ CheckSize(t) \/ CompressData(t) \/ Deliver(t)
                        \/ \E r \in Responses : StartCompress(t, r)
    \/ ResetStats

MetricsNext == ResetMetrics \/ \E d \in Times : UpdateMetrics(d)

CompSpec == CompInit /\ [][CompNext \/ MetricsNext]_compVars

-----------------------------------------------------------------------------
(* Properties *)

\* cache_compression_pattern, "Limit cache size to prevent memory issues":
\* concurrent compressions never push the pattern cache past its limit, although
\* each looks its pattern up, compresses and inserts in separate critical
\* sections, and may find a cache that others have filled meanwhile.
PatternsBounded == Cardinality(patterns) <= PatternCap

\* Once enough samples are kept, the percentiles are those of the window the
\* last update left: samples of it that no more than 5% and 1% of it exceed.
PercentilesCurrent ==
    LET Above(x) == Cardinality({i \in DOMAIN window : window[i] > x})
    IN Len(window) >= MinSamples =>
         /\ {p95, p99} \subseteq {window[i] : i \in DOMAIN window}
         /\ 100 * Above(p95) <= 5 * Len(window)
         /\ 100 * Above(p99) <= Len(window)
=============================================================================
