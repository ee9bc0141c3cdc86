----------------------------- MODULE StringCache -----------------------------
(* The cache of strings (libmisc.cpp): a string is kept under a key that the  *)
(* library has handed out, and its characters are read where they lie.        *)
EXTENDS Heap

CONSTANTS Scripts, Texts, MaxKeys

VARIABLES
    heap,
    nextKey,       \* readableStringCacheKey
    cache,         \* readableStringCache: the string under each key, or NULL
    mine,          \* the key of each script
    held           \* the pointer it holds and the text that it read there

NoKey == MaxKeys
Nothing == [at |-> NULL, text |-> "none"]
CacheInit ==
    /\ nextKey = 0 /\ cache = [k \in 0 .. MaxKeys - 1 |-> NULL]
    /\ mine = [s \in Scripts |-> NoKey]
    /\ held = [s \in Scripts |-> Nothing]

\* Mutant: the counter is read and written back unchanged.
get_next_stale_key(s) ==
    /\ mine[s] = NoKey /\ nextKey < MaxKeys
    /\ mine' = [mine EXCEPT ![s] = nextKey]
    /\ UNCHANGED <<heap, nextKey, cache, held>>
get_next_cache_key(s) ==
    /\ mine[s] = NoKey /\ nextKey < MaxKeys
    /\ mine' = [mine EXCEPT ![s] = nextKey]
    /\ nextKey' = nextKey + 1
    /\ UNCHANGED <<heap, cache, held>>

\* The string that was there is deleted, and a new one made.
set_string_in_cache(s, text) ==
    LET key == mine[s]
        freed == Without(heap, cache[key])
        new == NewBlock(freed)
    IN  /\ key # NoKey /\ Room(freed)
        /\ heap' = Stored(freed, new, Text(text))
        /\ cache' = [cache EXCEPT ![key] = new]
        /\ held' = [held EXCEPT ![s] = [at |-> new, text |-> text]]
        /\ UNCHANGED <<nextKey, mine>>

get_string_in_cache(s) ==
    LET at == cache[mine[s]]
    IN  /\ mine[s] # NoKey
        /\ held' = [held EXCEPT ![s] = IF at = NULL THEN Nothing ELSE [at |-> at, text |-> heap[at].what.text]]
        /\ UNCHANGED <<heap, nextKey, cache, mine>>

\* Whether there is a string or not, the script lets go of its pointer.
free_string_in_cache(s) ==
    LET key == mine[s]
    IN  /\ key # NoKey
        /\ heap' = Without(heap, cache[key])
        /\ cache' = [cache EXCEPT ![key] = NULL]
        /\ held' = [held EXCEPT ![s] = Nothing]
        /\ UNCHANGED <<nextKey, mine>>

CacheNext(Blocked(_)) == \E s \in Scripts :
    /\ ~Blocked(s)
    /\ \/ get_next_cache_key(s) \/ get_string_in_cache(s) \/ free_string_in_cache(s)
       \/ \E text \in Texts : set_string_in_cache(s, text)
============================================================================
