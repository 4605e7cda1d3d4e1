---------------------------- MODULE MemoryStore ----------------------------
(***************************************************************************)
(* The bounded memory of core/memory_store.py.  Several request threads    *)
(* share one MemoryStore and its re-entrant lock.  A record holds the lock *)
(* from the size check to the INSERT, but every DELETE of the eviction     *)
(* loop and the INSERT commit one by one, so a crash may fall between any  *)
(* two of them.  An entry is its size and the second it was created in:    *)
(* now_iso has no fraction, so entries of one second are ordered by id.    *)
(***************************************************************************)
EXTENDS Integers, Sequences, FiniteSets, FiniteSetsExt, SequencesExt

CONSTANTS
    MemoryThreads,  \* request threads that use the store
    MaxTotalBytes,  \* max_total_bytes
    EntrySizes,     \* sizes of the contents that are offered
    EntryIds,       \* ids an entry may get: uuids, or the caller's entry_id
    MaxSeconds      \* bound on the seconds that pass

NoThread == "none"

ASSUME MemoryAssumption ==
    /\ NoThread \notin MemoryThreads
    /\ MaxTotalBytes \in Nat /\ MaxSeconds \in Nat
    /\ EntrySizes \subseteq Nat /\ EntryIds \subseteq Nat

VARIABLES
    entries,      \* memory_entries: id -> [size, at], for the rows that exist
    onOverflow,   \* the curation strategy
    memoryLock,   \* the thread inside self._lock, or NoThread
    recording,    \* thread -> its record call: [pc, size, id, oldest]
    second        \* the clock, at the resolution of now_iso

memoryVars == <<entries, onOverflow, memoryLock, recording, second>>

NotRecording == [pc |-> "idle", size |-> 0, id |-> 0, oldest |-> << >>]

total_size(rows) == MapThenSumSet(LAMBDA i : rows[i].size, DOMAIN rows)

Fits(rows, size) == total_size(rows) + size <= MaxTotalBytes

\* ORDER BY created_at ASC, id ASC
Older(i, j) ==
    \/ entries[i].at < entries[j].at
    \/ entries[i].at = entries[j].at /\ i < j

OldestFirst ==
    CHOOSE ids \in SetToSeqs(DOMAIN entries) :
        \A a, b \in DOMAIN ids : a < b => Older(ids[a], ids[b])

Without(rows, i) == [j \in DOMAIN rows \ {i} |-> rows[j]]

MemoryInit ==
    /\ entries = << >>
    /\ onOverflow \in {"evict_oldest", "reject"}
    /\ memoryLock = NoThread
    /\ recording = [t \in MemoryThreads |-> NotRecording]
    /\ second = 0

\* Mutant of MemoryLockFree: the lock of record is not taken.
LockIgnored == TRUE

MemoryLockFree == memoryLock = NoThread

\* record enters the lock: an entry larger than the bound is refused, then
\* _make_room_for decides between no curation, rejection and eviction.
record(t) ==
    /\ recording[t].pc = "idle"
    /\ MemoryLockFree
    /\ \E size \in EntrySizes, i \in EntryIds :
        \/ /\ size > MaxTotalBytes \/ (~Fits(entries, size) /\ onOverflow = "reject")
           /\ UNCHANGED <<memoryLock, recording>>
        \/ /\ size <= MaxTotalBytes
           /\ Fits(entries, size) \/ onOverflow = "evict_oldest"
           /\ memoryLock' = t
           /\ recording' = [recording EXCEPT ![t] =
                  IF Fits(entries, size)
                  THEN [pc |-> "insert", size |-> size, id |-> i, oldest |-> << >>]
                  ELSE [pc |-> "evict", size |-> size, id |-> i, oldest |-> OldestFirst]]
    /\ UNCHANGED <<entries, onOverflow, second>>

\* One turn of the eviction loop.
EvictOne(t) ==
    LET call == recording[t] IN
    /\ call.pc = "evict"
    /\ call.oldest /= << >> /\ ~Fits(entries, call.size)
    /\ entries' = Without(entries, Head(call.oldest))
    /\ recording' = [recording EXCEPT ![t].oldest = Tail(@)]
    /\ UNCHANGED <<onOverflow, memoryLock, second>>

\* The loop is left: there is room, or the defensive check raises.
EvictionEnds(t) ==
    LET call == recording[t] IN
    /\ call.pc = "evict"
    /\ call.oldest = << >> \/ Fits(entries, call.size)
    /\ IF Fits(entries, call.size)
       THEN /\ recording' = [recording EXCEPT ![t].pc = "insert"]
            /\ UNCHANGED memoryLock
       ELSE /\ recording' = [recording EXCEPT ![t] = NotRecording]
            /\ memoryLock' = NoThread
    /\ UNCHANGED <<entries, onOverflow, second>>

\* The INSERT.  An id that is already stored violates the primary key: the
\* call raises, and what was evicted for it stays evicted.
InsertEntry(t) ==
    LET call == recording[t]
        row  == [size |-> call.size, at |-> second]
    IN
    /\ call.pc = "insert"
    /\ entries' = IF call.id \in DOMAIN entries THEN entries
                  ELSE [i \in DOMAIN entries \cup {call.id} |->
                            IF i = call.id THEN row ELSE entries[i]]
    /\ recording' = [recording EXCEPT ![t] = NotRecording]
    /\ memoryLock' = NoThread
    /\ UNCHANGED <<onOverflow, second>>

\* delete, under the lock: an unknown id raises, a stored one is removed and
\* its absence verified.
deleteEntry(i) ==
    /\ memoryLock = NoThread
    /\ i \in DOMAIN entries
    /\ entries' = Without(entries, i)
    /\ UNCHANGED <<onOverflow, memoryLock, recording, second>>

NextSecond ==
    /\ second < MaxSeconds
    /\ second' = second + 1
    /\ UNCHANGED <<entries, onOverflow, memoryLock, recording>>

\* The process dies between two statements; the rows are what was committed.
MemoryCrash ==
    /\ memoryLock /= NoThread
    /\ memoryLock' = NoThread
    /\ recording' = [t \in MemoryThreads |-> NotRecording]
    /\ UNCHANGED <<entries, onOverflow, second>>

MemoryNext ==
    \/ \E t \in MemoryThreads :
        record(t) \/ EvictOne(t) \/ EvictionEnds(t) \/ InsertEntry(t)
    \/ \E i \in EntryIds : deleteEntry(i)
    \/ NextSecond
    \/ MemoryCrash

(***************************************************************************)
(* Properties                                                              *)
(***************************************************************************)

\* The evicted entry is no younger, to the second, than any other stored one.
EvictsOldest(i) == \A j \in DOMAIN entries : entries[i].at <= entries[j].at

\* Curation keeps its promise and no more: the stored sizes never add up to
\* more than max_total_bytes, whoever records, deletes or dies in between; and
\* while a record holds the lock, an entry only disappears because the offered
\* one does not fit beside what is stored, oldest second first (memory_store.py
\* record, _make_room_for).
MemoryCurated ==
    /\ [](total_size(entries) <= MaxTotalBytes)
    /\ [][\A i \in DOMAIN entries :
            (memoryLock /= NoThread /\ i \notin DOMAIN entries')
              => /\ ~Fits(entries, recording[memoryLock].size)
                 /\ EvictsOldest(i)]_memoryVars
=============================================================================
