------------------------------- MODULE Dedup -------------------------------
(***************************************************************************)
(* LockFreeDeduplicator (include/eventstream/core/queues/dedup.hpp and     *)
(* src/core/queues/dedup.cpp): the chain of one bucket; buckets share      *)
(* nothing.  Threads call insert() and is_duplicate(), and one thread at a *)
(* time cleanup() or cleanup_all().                                        *)
(*                                                                         *)
(* A step is one access to memory that another thread may change.  Entries *)
(* come from the heap, which hands a freed one out again; what a freed one *)
(* holds until then is of no account and is NULL here.  An entry's age     *)
(* only matters through the comparison with IDEMPOTENT_WINDOW_MS, so time  *)
(* is the set of the entries that are older than the window.               *)
(*                                                                         *)
(* Spec lets cleanup() run while other calls are under way, as dedup.hpp   *)
(* documents it.  QuietSpec keeps it apart from them, which is how the     *)
(* TransactionalProcessor, whose thread makes all the calls, uses it.      *)
(*                                                                         *)
(* chain is a history of what was put in and taken out; no action's guard  *)
(* reads it.                                                               *)
(***************************************************************************)
EXTENDS Naturals, Sequences, FiniteSets

CONSTANTS Thread,            \* the threads that insert and look up
          Id,                \* the event ids that fall into the bucket
          Entry,             \* the addresses new Entry can return
          NULL,              \* nullptr
          MAX_RETRIES,       \* insert()'s constant, 3
          MAX_HEAD_RETRIES   \* cleanup_bucket_count()'s constant, 10

ASSUME NullAssumption == NULL \notin Entry /\ NULL \notin Id
ASSUME RetryAssumption == {MAX_RETRIES, MAX_HEAD_RETRIES} \subseteq Nat \ {0}

VARIABLES
    allocated,  \* the entries that are allocated
    id, next,   \* Entry::id, Entry::next
    bucket,     \* buckets_[bucket_idx]
    old,        \* the entries older than IDEMPOTENT_WINDOW_MS
    pc,         \* where each thread is
    op,         \* "insert" or "is_duplicate"
    eid,        \* the argument event_id
    new_entry,  \* insert()'s local variables
    head,
    curr,
    retry_count,
    res,        \* what the last call returned
    kpc,        \* where the thread that cleans up is
    expired,    \* the entries its now_ms makes expired
    khead,      \* its local variables
    kprev,
    kcurr,
    head_retries,
    chain       \* history: the entries from bucket on

heap == <<allocated, id, next>>
threadVars == <<pc, op, eid, new_entry, head, curr, retry_count, res>>
cleanVars == <<kpc, expired, khead, kprev, kcurr, head_retries>>
vars == <<heap, bucket, old, threadVars, cleanVars, chain>>

Init == /\ allocated = {}
        /\ id = [e \in Entry |-> NULL] /\ next = [e \in Entry |-> NULL]
        /\ bucket = NULL /\ old = {}
        /\ pc = [t \in Thread |-> "idle"] /\ op = [t \in Thread |-> "insert"]
        /\ eid = [t \in Thread |-> NULL] /\ new_entry = [t \in Thread |-> NULL]
        /\ head = [t \in Thread |-> NULL] /\ curr = [t \in Thread |-> NULL]
        /\ retry_count = [t \in Thread |-> 0] /\ res = [t \in Thread |-> FALSE]
        /\ kpc = "idle" /\ expired = {} /\ khead = NULL /\ kprev = NULL /\ kcurr = NULL
        /\ head_retries = 0
        /\ chain = << >>

\* The call of thread t returns v, and its local variables are gone.
Return(t, v) == /\ pc' = [pc EXCEPT ![t] = "idle"]
                /\ res' = [res EXCEPT ![t] = v]
                /\ eid' = [eid EXCEPT ![t] = NULL]
                /\ new_entry' = [new_entry EXCEPT ![t] = NULL]
                /\ head' = [head EXCEPT ![t] = NULL]
                /\ curr' = [curr EXCEPT ![t] = NULL]
                /\ retry_count' = [retry_count EXCEPT ![t] = 0]
                /\ UNCHANGED op

\* delete e, where the links are otherwise as given
Delete(e, links) == /\ allocated' = allocated \ {e}
                    /\ id' = [x \in Entry |-> IF x = e THEN NULL ELSE id[x]]
                    /\ next' = [x \in Entry |-> IF x = e THEN NULL ELSE links[x]]
                    /\ old' = old \ {e}

----------------------------------------------------------------------------
(* insert(event_id, now_ms) and is_duplicate(event_id, now_ms) *)

\* new_entry = new Entry(event_id, now_ms)
Insert(t) == /\ pc[t] = "idle"
             /\ \E i \in Id, e \in Entry \ allocated :
                  /\ allocated' = allocated \cup {e}
                  /\ id' = [id EXCEPT ![e] = i]
                  /\ next' = [next EXCEPT ![e] = NULL]
                  /\ eid' = [eid EXCEPT ![t] = i]
                  /\ new_entry' = [new_entry EXCEPT ![t] = e]
             /\ op' = [op EXCEPT ![t] = "insert"]
             /\ pc' = [pc EXCEPT ![t] = "load"]
             /\ UNCHANGED <<bucket, old, head, curr, retry_count, res, cleanVars, chain>>

IsDuplicate(t) == /\ pc[t] = "idle"
                  /\ \E i \in Id : eid' = [eid EXCEPT ![t] = i]
                  /\ op' = [op EXCEPT ![t] = "is_duplicate"]
                  /\ pc' = [pc EXCEPT ![t] = "load"]
                  /\ UNCHANGED <<heap, bucket, old, new_entry, head, curr, retry_count, res,
                                 cleanVars, chain>>

\* head = buckets_[bucket_idx].load(acquire); curr = head
Load(t) == /\ pc[t] = "load"
           /\ head' = [head EXCEPT ![t] = bucket]
           /\ curr' = [curr EXCEPT ![t] = bucket]
           /\ pc' = [pc EXCEPT ![t] = "scan"]
           /\ UNCHANGED <<heap, bucket, old, op, eid, new_entry, retry_count, res, cleanVars,
                          chain>>

\* The duplicate found is returned without deleting new_entry.
ScanFoundLeaks(t) == /\ pc[t] = "scan" /\ curr[t] # NULL
                     /\ id[curr[t]] = eid[t]
                     /\ Return(t, op[t] = "is_duplicate")
                     /\ UNCHANGED <<heap, bucket, old, cleanVars, chain>>

\* curr->id == event_id: insert() deletes new_entry and returns false,
\* is_duplicate() has none and returns true
ScanFound(t) == /\ pc[t] = "scan" /\ curr[t] # NULL
                /\ id[curr[t]] = eid[t]
                /\ Delete(new_entry[t], next)
                /\ Return(t, op[t] = "is_duplicate")
                /\ UNCHANGED <<bucket, cleanVars, chain>>

\* curr = curr->next
ScanNext(t) == /\ pc[t] = "scan" /\ curr[t] # NULL
               /\ id[curr[t]] # eid[t]
               /\ curr' = [curr EXCEPT ![t] = next[curr[t]]]
               /\ UNCHANGED <<heap, bucket, old, pc, op, eid, new_entry, head, retry_count, res,
                              cleanVars, chain>>

\* is_duplicate() has reached the end of the chain
NotFound(t) == /\ pc[t] = "scan" /\ curr[t] = NULL /\ op[t] = "is_duplicate"
               /\ Return(t, FALSE)
               /\ UNCHANGED <<heap, bucket, old, cleanVars, chain>>

\* The head stored without comparing it with the one that was scanned.
CasBlind(t) == /\ pc[t] = "scan" /\ curr[t] = NULL /\ op[t] = "insert"
               /\ next' = [next EXCEPT ![new_entry[t]] = head[t]]
               /\ bucket' = new_entry[t]
               /\ chain' = <<new_entry[t]>> \o chain
               /\ Return(t, TRUE)
               /\ UNCHANGED <<allocated, id, old, cleanVars>>

\* new_entry->next = head; the compare_exchange succeeds
CasDone(t) == /\ pc[t] = "scan" /\ curr[t] = NULL /\ op[t] = "insert"
              /\ bucket = head[t]
              /\ next' = [next EXCEPT ![new_entry[t]] = head[t]]
              /\ bucket' = new_entry[t]
              /\ chain' = <<new_entry[t]>> \o chain
              /\ Return(t, TRUE)
              /\ UNCHANGED <<allocated, id, old, cleanVars>>

CasFails(t) == /\ pc[t] = "scan" /\ curr[t] = NULL /\ op[t] = "insert"
               /\ bucket # head[t]

\* ... or fails, and the chain is scanned again from the new head
CasRetry(t) == /\ CasFails(t)
               /\ retry_count[t] + 1 < MAX_RETRIES
               /\ next' = [next EXCEPT ![new_entry[t]] = head[t]]
               /\ retry_count' = [retry_count EXCEPT ![t] = @ + 1]
               /\ pc' = [pc EXCEPT ![t] = "load"]
               /\ UNCHANGED <<allocated, id, bucket, old, op, eid, new_entry, head, curr, res,
                              cleanVars, chain>>

\* ... or has failed MAX_RETRIES times: delete new_entry; return false
CasGiveUp(t) == /\ CasFails(t)
                /\ retry_count[t] + 1 >= MAX_RETRIES
                /\ Delete(new_entry[t], next)
                /\ Return(t, FALSE)
                /\ UNCHANGED <<bucket, cleanVars, chain>>

Call(t) == Insert(t) \/ IsDuplicate(t)
Step(t) == \/ Load(t) \/ ScanFound(t) \/ ScanNext(t) \/ NotFound(t)
           \/ CasDone(t) \/ CasRetry(t) \/ CasGiveUp(t)

----------------------------------------------------------------------------
(* cleanup(now_ms), and cleanup_all(), for which every entry is expired *)

\* An entry gets older than the window.  now_ms is fixed during a cleanup.
Age == /\ kpc = "idle"
       /\ \E e \in allocated \ old : old' = old \cup {e}
       /\ UNCHANGED <<heap, bucket, threadVars, cleanVars, chain>>

\* head = buckets_[bucket_idx].load(acquire)
Cleanup == /\ kpc = "idle"
           /\ bucket # NULL
           /\ \E all \in BOOLEAN : expired' = IF all THEN Entry ELSE old
           /\ khead' = bucket
           /\ head_retries' = 0
           /\ kpc' = "heads"
           /\ UNCHANGED <<heap, bucket, old, threadVars, kprev, kcurr, chain>>

Without(e) == LET i == CHOOSE j \in DOMAIN chain : chain[j] = e
              IN  [j \in 1 .. Len(chain) - 1 |-> chain[IF j < i THEN j ELSE j + 1]]

CleanupEnds == /\ kpc' = "idle" /\ expired' = {}
               /\ khead' = NULL /\ kprev' = NULL /\ kcurr' = NULL /\ head_retries' = 0

\* Phase 1: the head is expired, the compare_exchange succeeds; delete head
HeadRemoved == /\ kpc = "heads" /\ khead # NULL /\ head_retries < MAX_HEAD_RETRIES
               /\ khead \in expired
               /\ bucket = khead
               /\ bucket' = next[khead]
               /\ Delete(khead, next)
               /\ chain' = Without(khead)
               /\ khead' = next[khead]
               /\ head_retries' = 0
               /\ UNCHANGED <<threadVars, kpc, expired, kprev, kcurr>>

\* ... or fails, and loads the head that is there now
HeadRetry == /\ kpc = "heads" /\ khead # NULL /\ head_retries < MAX_HEAD_RETRIES
             /\ khead \in expired
             /\ bucket # khead
             /\ khead' = bucket
             /\ head_retries' = head_retries + 1
             /\ UNCHANGED <<heap, bucket, old, threadVars, kpc, expired, kprev, kcurr, chain>>

\* Phase 1 is over: the chain is empty, ...
CleanedAll == /\ kpc = "heads" /\ khead = NULL
              /\ CleanupEnds
              /\ UNCHANGED <<heap, bucket, old, threadVars, chain>>

\* ... or prev = head; curr = head->next
HeadsDone == /\ kpc = "heads" /\ khead # NULL
             /\ ~(khead \in expired /\ head_retries < MAX_HEAD_RETRIES)
             /\ kprev' = khead
             /\ kcurr' = next[khead]
             /\ kpc' = "middle"
             /\ UNCHANGED <<heap, bucket, old, threadVars, expired, khead, head_retries, chain>>

\* Every entry but the head removed, however old it is.
MiddleRemovedAll == /\ kpc = "middle" /\ kcurr # NULL
                    /\ Delete(kcurr, [next EXCEPT ![kprev] = next[kcurr]])
                    /\ chain' = Without(kcurr)
                    /\ kcurr' = next[kcurr]
                    /\ UNCHANGED <<bucket, threadVars, kpc, expired, khead, kprev,
                                   head_retries>>

\* Phase 2: prev->next = curr->next; delete curr
MiddleRemoved == /\ kpc = "middle" /\ kcurr # NULL /\ kcurr \in expired
                 /\ Delete(kcurr, [next EXCEPT ![kprev] = next[kcurr]])
                 /\ chain' = Without(kcurr)
                 /\ kcurr' = next[kcurr]
                 /\ UNCHANGED <<bucket, threadVars, kpc, expired, khead, kprev, head_retries>>

MiddleKept == /\ kpc = "middle" /\ kcurr # NULL /\ kcurr \notin expired
              /\ kprev' = kcurr
              /\ kcurr' = next[kcurr]
              /\ UNCHANGED <<heap, bucket, old, threadVars, kpc, expired, khead, head_retries,
                             chain>>

MiddleDone == /\ kpc = "middle" /\ kcurr = NULL
              /\ CleanupEnds
              /\ UNCHANGED <<heap, bucket, old, threadVars, chain>>

CleanStep == \/ HeadRemoved \/ CleanedAll \/ HeadsDone
             \/ MiddleRemoved \/ MiddleKept \/ MiddleDone

----------------------------------------------------------------------------

Next == \/ \E t \in Thread : Call(t) \/ Step(t)
        \/ Age
        \/ Cleanup \/ CleanStep \/ HeadRetry

Spec == Init /\ [][Next]_vars

Quiet == \A t \in Thread : pc[t] = "idle"

\* No compare_exchange of a cleanup fails when nobody inserts.
QuietNext == \/ \E t \in Thread : kpc = "idle" /\ Call(t)
             \/ \E t \in Thread : Step(t)
             \/ Age
             \/ Quiet /\ Cleanup
             \/ CleanStep

QuietSpec == Init /\ [][QuietNext]_vars

----------------------------------------------------------------------------
(* Properties *)

TypeOK == /\ allocated \subseteq Entry /\ id \in [Entry -> Id \cup {NULL}]
          /\ next \in [Entry -> Entry \cup {NULL}] /\ bucket \in Entry \cup {NULL}
          /\ old \subseteq allocated
          /\ pc \in [Thread -> {"idle", "load", "scan"}]
          /\ op \in [Thread -> {"insert", "is_duplicate"}]
          /\ eid \in [Thread -> Id \cup {NULL}]
          /\ {new_entry, head, curr} \subseteq [Thread -> Entry \cup {NULL}]
          /\ retry_count \in [Thread -> 0 .. MAX_RETRIES - 1]
          /\ res \in [Thread -> BOOLEAN]
          /\ kpc \in {"idle", "heads", "middle"} /\ expired \subseteq Entry
          /\ {khead, kprev, kcurr} \subseteq Entry \cup {NULL}
          /\ head_retries \in 0 .. MAX_HEAD_RETRIES
          /\ chain \in Seq(Entry)

InChain == {chain[i] : i \in DOMAIN chain}

\* The links from the bucket spell out the entries that were put in and not
\* removed: no interleaving of inserts loses one, and a cleanup in the middle of
\* the chain leaves the rest linked.
ChainIsLinked ==
    LET link(i) == IF i < Len(chain) THEN chain[i + 1] ELSE NULL
    IN  /\ bucket = IF chain = << >> THEN NULL ELSE chain[1]
        /\ \A i \in DOMAIN chain : next[chain[i]] = link(i)

\* An id is in the bucket at most once, however many threads insert it at the same
\* time: of two insert() calls for one id at most one returns true.
IdsUnique == \A i, j \in DOMAIN chain : id[chain[i]] = id[chain[j]] => i = j

\* No thread follows a pointer to a freed entry: what "called by a separate cleanup
\* thread" (dedup.hpp) and "thread-safe with insert()" (dedup.cpp) promise of Spec.
\* cleanup() deletes an entry at once, whoever is scanning it.
NoUseAfterFree ==
    /\ \A t \in Thread : pc[t] = "scan" /\ curr[t] # NULL => curr[t] \in allocated
    /\ kpc = "heads" /\ khead # NULL => khead \in allocated
    /\ kpc = "middle" => /\ kprev \in allocated
                         /\ kcurr # NULL => kcurr \in allocated

\* Every allocated entry is in the chain or is the new_entry of a running insert():
\* no way out of an insert() that found a duplicate, lost the race for the head or
\* gave up leaks its entry, and a cleanup frees what it unlinks and nothing else.
NoLeak == allocated = InChain \cup ({new_entry[t] : t \in Thread} \ {NULL})

\* An entry leaves the bucket only when it is expired: until then its event is
\* recognised as a duplicate.
RemovedOnlyExpired == [][\A e \in InChain : e \in InChain' \/ e \in expired]_vars

\* The bucket is a set of ids, and a scan of its links finds every one.
BucketSound == ChainIsLinked /\ IdsUnique
============================================================================
