---------------------------- MODULE SemanticCache ----------------------------
(* The semantic query cache (app/retrieval/cache.py): entries in the order   *)
(* of their last use, beside two parallel lists of keys and embeddings that  *)
(* the similarity search runs over.  Its client computes an answer from the  *)
(* files when a lookup misses, and clears the cache when the files change.   *)
EXTENDS Naturals, Sequences, FiniteSets, SequencesExt, Lists

CONSTANTS Queries, Sim,   \* similarity of two queries' embeddings
          Threshold, MaxEntries, Ttl,
          MaxTime, MaxVersion, NoReply

ASSUME CacheAssumption ==
    /\ Sim \in [Queries \X Queries -> Nat]
    /\ MaxEntries \in Nat \ {0}
    /\ {Threshold, Ttl, MaxTime, MaxVersion} \subseteq Nat

VARIABLES
    entries,   \* _entries: [key, made, at], least recently used first
    keys,      \* _keys
    embs,      \* _embeddings, each named by the query it encodes
    disk,      \* what save() wrote last
    now,       \* the clock
    files,     \* version of the files answers are computed from
    cleared,   \* history: the version at the last clear of this process
    recent,    \* history: the queries, most recently used last
    served     \* what the last call was answered, if get: [asked, entry, at]

cacheVars == <<entries, keys, embs, disk, now, files, cleared, recent, served>>

Entry == [key : Queries, made : 0 .. MaxVersion, at : 0 .. MaxTime]
KeysOf(es) == [i \in DOMAIN es |-> es[i].key]
Has(key) == \E e \in ToSet(entries) : e.key = key
EntryOf(key) == CHOOSE e \in ToSet(entries) : e.key = key
Others(es, key) == Without(es, {e \in ToSet(es) : e.key = key})
MovedToEnd(s, x) == Append(Without(s, {x}), x)
PositionOf(key) == CHOOSE i \in DOMAIN keys : keys[i] = key

CacheInit == /\ entries = <<>> /\ keys = <<>> /\ embs = <<>> /\ disk = <<>>
        /\ now = 0 /\ files = 0 /\ cleared = 0
        /\ recent = <<>> /\ served = NoReply

(* np.argmax: the first of the most similar embeddings.                      *)
Best(q) == CHOOSE i \in DOMAIN embs :
              \A j \in DOMAIN embs : \/ Sim[<<q, embs[j]>>] < Sim[<<q, embs[i]>>]
                                     \/ Sim[<<q, embs[j]>>] = Sim[<<q, embs[i]>>] /\ i <= j
Near(q) == embs # <<>> /\ Sim[<<q, embs[Best(q)]>>] >= Threshold

(* Mutant: the embedding of another entry goes with it.                     *)
EvictEntryOnly(key) == /\ entries' = Others(entries, key)
                       /\ keys' = Remove(keys, key) /\ embs' = Tail(embs)

Evict(key) == /\ entries' = Others(entries, key)
              /\ keys' = RemoveAt(keys, PositionOf(key))
              /\ embs' = RemoveAt(embs, PositionOf(key))

Expired(e) == now - e.at > Ttl

(* get: only the most similar entry counts, even when it has expired.        *)
Miss(q) ==
    /\ ~Near(q) /\ served' = NoReply
    /\ UNCHANGED <<entries, keys, embs, disk, now, files, cleared, recent>>
GetExpired(q) ==
    /\ Near(q) /\ Expired(EntryOf(keys[Best(q)])) /\ served' = NoReply
    /\ Evict(keys[Best(q)])
    /\ UNCHANGED <<disk, now, files, cleared, recent>>
Hit(q) ==
    /\ Near(q) /\ ~Expired(EntryOf(keys[Best(q)]))
    /\ LET e == EntryOf(keys[Best(q)]) IN
       /\ entries' = MovedToEnd(entries, e)
       /\ recent' = MovedToEnd(recent, e.key)
       /\ served' = [asked |-> q, entry |-> e, at |-> now]
    /\ UNCHANGED <<keys, embs, disk, now, files, cleared>>

(* put, with what the client computed from the files as they are.            *)
NewEntry(q) == [key |-> q, made |-> files, at |-> now]
Replace(q) ==
    /\ Has(q) /\ entries' = Append(Others(entries, q), NewEntry(q))
    /\ embs' = [embs EXCEPT ![PositionOf(q)] = q]
    /\ recent' = MovedToEnd(recent, q)
    /\ served' = NoReply /\ UNCHANGED <<keys, disk, now, files, cleared>>

(* At the capacity the least recently used entries go first.                 *)
Excess == IF Len(entries) < MaxEntries THEN 0 ELSE Len(entries) - MaxEntries + 1
Insert(q) ==
    /\ ~Has(q)
    /\ LET gone == ToSet(KeysOf(SubSeq(entries, 1, Excess)))
           kept == Without([i \in DOMAIN keys |-> i], {i \in DOMAIN keys : keys[i] \in gone})
       IN /\ entries' = Append(SubSeq(entries, Excess + 1, Len(entries)), NewEntry(q))
          /\ keys' = Append([i \in DOMAIN kept |-> keys[kept[i]]], q)
          /\ embs' = Append([i \in DOMAIN kept |-> embs[kept[i]]], q)
    /\ recent' = MovedToEnd(recent, q)
    /\ served' = NoReply /\ UNCHANGED <<disk, now, files, cleared>>

(* invalidate, of one query and of everything.                               *)
Invalidate(q) ==
    /\ Has(q) /\ Evict(q)
    /\ served' = NoReply /\ UNCHANGED <<disk, now, files, cleared, recent>>
Clear ==
    /\ entries' = <<>> /\ keys' = <<>> /\ embs' = <<>> /\ cleared' = files
    /\ served' = NoReply
    /\ UNCHANGED <<disk, now, files, recent>>

Save == /\ disk' = entries
        /\ served' = NoReply /\ UNCHANGED <<entries, keys, embs, now, files, cleared, recent>>
(* A new process loads what was saved last: entries that were invalidated    *)
(* since are back.                                                           *)
Reload ==
    /\ entries' = disk /\ keys' = KeysOf(disk) /\ embs' = KeysOf(disk)
    /\ cleared' = 0 /\ recent' = KeysOf(disk) /\ served' = NoReply
    /\ UNCHANGED <<disk, now, files>>

Tick == /\ now < MaxTime /\ now' = now + 1 /\ served' = NoReply
        /\ UNCHANGED <<entries, keys, embs, disk, files, cleared, recent>>
ChangeFiles == /\ files < MaxVersion /\ files' = files + 1
               /\ served' = NoReply /\ UNCHANGED <<entries, keys, embs, disk, now, cleared, recent>>

Lookup == \E q \in Queries : Miss(q) \/ GetExpired(q) \/ Hit(q)
Store == \E q \in Queries : Replace(q) \/ Insert(q)
CacheNext == \/ Lookup \/ Store \/ \E q \in Queries : Invalidate(q)
        \/ Clear \/ Save \/ Reload \/ Tick \/ ChangeFiles
CacheSpec == CacheInit /\ [][CacheNext]_cacheVars

----------------------------------------------------------------------------
(* The cache stays within its capacity and in step with itself through every *)
(* eviction, replacement and reload: the lists the search runs over name the *)
(* entries, position by position, and the entry that goes first at the       *)
(* capacity is the one whose last store or hit is the longest ago.           *)
CacheInStep ==
    /\ entries \in Seq(Entry) /\ Len(entries) <= MaxEntries
    /\ keys = embs /\ IsInjective(keys)
    /\ ToSet(keys) = ToSet(KeysOf(entries)) /\ Len(keys) = Len(entries)
    /\ KeysOf(entries) = Without(recent, ToSet(recent) \ ToSet(keys))

(* An answer served was stored for a query similar enough, has not expired,  *)
(* and was not computed before the process last cleared its cache.           *)
ServedWhileValid ==
    served # NoReply =>
        /\ Sim[<<served.asked, served.entry.key>>] >= Threshold
        /\ served.at - served.entry.at <= Ttl
        /\ served.entry.made >= cleared
=============================================================================
