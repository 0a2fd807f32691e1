-------------------------------- MODULE Pool --------------------------------
(***************************************************************************)
(* The pool allocator of TChecker (pool_t, include/tchecker/utils/pool.hh) *)
(* with the reference counters of its objects (make_shared_t and           *)
(* intrusive_shared_ptr_t), used by two threads: the mutator, which runs   *)
(* the verification algorithm, and the garbage collector, which runs       *)
(* collect().  Only the head of the free list is protected by a lock; the  *)
(* counters, the list of blocks and the raw block are read by the          *)
(* collector while the mutator writes them.  One action per access to      *)
(* shared memory, or per group of accesses the other thread cannot tell    *)
(* apart.                                                                  *)
(*                                                                         *)
(* Addresses are numbers: a block at address a is a word that links it to  *)
(* the next block, then chunks a + 1 .. a + AllocNb.  The lists that go    *)
(* through the chunks are sequences.                                       *)
(***************************************************************************)
EXTENDS Naturals, Sequences, FiniteSets

CONSTANTS
  AllocNb,      \* number of chunks in a block (_alloc_nb)
  Blocks,       \* the addresses where operator new may place a block
  RefcountMax,  \* REFCOUNT_MAX
  StoreOrders   \* the orders in which a build may perform the stores of Grow

BlockSize == AllocNb + 1

Null == 0

Chunks(b) == b + 1 .. b + AllocNb

AllChunks == UNION {Chunks(b) : b \in Blocks}

\* In the order of the source, and as an optimizing compiler may order them:
\* the first store of _raw_head is dead, and the last one comes after the
\* counter of the first chunk is set.
SourceOrder == <<"raw_head", "raw_end", "nextblock", "block_head", "raw_first">>
OptimizedOrder == <<"raw_end", "block_head", "nextblock">>

\* The builds that perform the stores in one of these orders.
SourceBuild == {SourceOrder}
OptimizedBuild == {OptimizedOrder}

ASSUME AllocNbAssumption == AllocNb \in Nat \ {0}
ASSUME BlocksAssumption ==
  /\ Blocks \subseteq Nat \ {0}
  /\ \A a, b \in Blocks : a < b => a + BlockSize <= b
ASSUME RefcountMaxAssumption == RefcountMax \in Nat \ {0, 1}
ASSUME StoreOrdersAssumption ==
  StoreOrders \subseteq {SourceOrder, OptimizedOrder}

\* Mutant: the last pointer does not protect the object.
CollectableReferenced == 1

COLLECTABLE_CHUNK == 0
ALLOCATED_CHUNK   == RefcountMax + 1
FREE_CHUNK        == RefcountMax + 2

VARIABLES
  order,      \* the order of the stores in this build
  \* the pool
  blocks,     \* the blocks that operator new has given
  blockHead,  \* _block_head
  rawHead,    \* _raw_head
  rawEnd,     \* _raw_end
  free,       \* the chunks from _free_head on
  lock,       \* the owner of _free_head_lock
  \* the memory
  nextblock,  \* the first word of each block
  refcount,   \* the counter of each chunk; new memory reads as 0
  object,     \* the chunks that hold an object (constructed, not destructed)
  refs,       \* refs[c]: how many pointers of the mutator point to chunk c
  \* the mutator
  mpc,        \* where the mutator is
  chunk,      \* the chunk that is being allocated or released
  stores,     \* the stores of Grow still to be done
  oldHead,    \* the value of _block_head that Grow has read
  \* the garbage collector
  cpc,        \* where collect() is, "stopped" when the thread has been joined
  block,      \* the block and the chunk of the loops of collect()
  cchunk,
  collected   \* the chunks from collected_begin on

pool    == <<blocks, blockHead, rawHead, rawEnd>>
memory  == <<nextblock, refcount, object, refs>>
mutator == <<mpc, chunk, stores, oldHead>>
gc      == <<cpc, block, cchunk, collected>>
vars    == <<order, pool, free, lock, memory, mutator, gc>>

Init ==
  /\ order \in StoreOrders
  /\ blocks = {} /\ blockHead = Null /\ rawHead = Null /\ rawEnd = Null
  /\ free = <<>> /\ lock = "none"
  /\ nextblock = [b \in Blocks |-> Null]
  /\ refcount = [c \in AllChunks |-> 0]
  /\ object = {} /\ refs = [c \in AllChunks |-> 0]
  /\ mpc = "idle" /\ chunk = Null /\ stores = <<>> /\ oldHead = Null
  /\ cpc = "start" /\ block = Null /\ cchunk = Null /\ collected = <<>>

-----------------------------------------------------------------------------
(* The mutator: construct(), that is allocate() then T::construct().        *)

LockToAllocate ==
  /\ mpc = "idle" /\ lock = "none"
  /\ lock' = "mutator" /\ mpc' = "pop"
  /\ UNCHANGED <<order, pool, free, memory, chunk, stores, oldHead, gc>>

\* The first free chunk is protected from collection before it is unlinked.
Protect ==
  /\ mpc = "pop" /\ free # <<>>
  /\ chunk' = Head(free)
  /\ refcount' = [refcount EXCEPT ![Head(free)] = ALLOCATED_CHUNK]
  /\ mpc' = "unlink"
  /\ UNCHANGED <<order, pool, free, lock, nextblock, object, refs, stores,
                 oldHead, gc>>

Unlink ==
  /\ mpc = "unlink"
  /\ free' = Tail(free)
  /\ lock' = "none" /\ mpc' = "construct"
  /\ UNCHANGED <<order, pool, memory, chunk, stores, oldHead, gc>>

\* No free chunk: the next one of the raw block, or of a new block.
NoFreeChunk ==
  /\ mpc = "pop" /\ free = <<>>
  /\ lock' = "none"
  /\ IF rawHead = rawEnd
       THEN mpc' = "grow" /\ UNCHANGED chunk
       ELSE mpc' = "carve" /\ chunk' = rawHead
  /\ UNCHANGED <<order, pool, free, memory, stores, oldHead, gc>>

\* new char[_block_size] returns block b; its fields are still to be stored.
Grow(b) ==
  /\ mpc = "grow" /\ b \notin blocks
  /\ blocks' = blocks \cup {b}
  /\ chunk' = b + 1 /\ oldHead' = blockHead
  /\ stores' = order /\ mpc' = "store"
  /\ UNCHANGED <<order, blockHead, rawHead, rawEnd, free, lock, memory, gc>>

\* std::bad_alloc leaves construct().
BadAlloc ==
  /\ mpc = "grow" /\ blocks = Blocks
  /\ mpc' = "idle"
  /\ UNCHANGED <<order, pool, free, lock, memory, chunk, stores, oldHead, gc>>

\* The next store of the set-up of the new block, the one before chunk.
Store ==
  LET b == chunk - 1
  IN /\ mpc = "store" /\ stores # <<>>
     /\ CASE Head(stores) = "raw_head" ->
               rawHead' = b /\ UNCHANGED <<rawEnd, nextblock, blockHead>>
          [] Head(stores) = "raw_end" ->
               rawEnd' = b + BlockSize /\ UNCHANGED <<rawHead, nextblock,
                                                      blockHead>>
          [] Head(stores) = "nextblock" ->
               nextblock' = [nextblock EXCEPT ![b] = oldHead]
               /\ UNCHANGED <<rawHead, rawEnd, blockHead>>
          [] Head(stores) = "block_head" ->
               blockHead' = b /\ UNCHANGED <<rawHead, rawEnd, nextblock>>
          [] Head(stores) = "raw_first" ->
               rawHead' = chunk /\ UNCHANGED <<rawEnd, nextblock, blockHead>>
     /\ stores' = Tail(stores)
     /\ mpc' = IF Tail(stores) = <<>> THEN "carve" ELSE "store"
     /\ UNCHANGED <<order, blocks, free, lock, refcount, object, refs, chunk,
                    oldHead, gc>>

\* The raw chunk is protected from collection before it leaves the raw block.
Carve ==
  /\ mpc = "carve"
  /\ refcount' = [refcount EXCEPT ![chunk] = ALLOCATED_CHUNK]
  /\ mpc' = "bump"
  /\ UNCHANGED <<order, pool, free, lock, nextblock, object, refs, chunk,
                 stores, oldHead, gc>>

Bump ==
  /\ mpc = "bump"
  /\ rawHead' = chunk + 1
  /\ mpc' = "construct" /\ oldHead' = Null
  /\ UNCHANGED <<order, blocks, blockHead, rawEnd, free, lock, nextblock,
                 refcount, object, refs, chunk, stores, gc>>

\* The constructor of the object, then the one of make_shared_t.
Construct ==
  /\ mpc = "construct"
  /\ object' = object \cup {chunk}
  /\ refcount' = [refcount EXCEPT ![chunk] = RefcountMax]
  /\ mpc' = "reference"
  /\ UNCHANGED <<order, pool, free, lock, nextblock, refs, chunk, stores,
                 oldHead, gc>>

\* The constructor throws: the chunk is released.
ConstructThrows ==
  /\ mpc = "construct"
  /\ refcount' = [refcount EXCEPT ![chunk] = FREE_CHUNK]
  /\ mpc' = "release"
  /\ UNCHANGED <<order, pool, free, lock, nextblock, object, refs, chunk,
                 stores, oldHead, gc>>

\* take_reference stores this in the counter of chunk c, then throws if it is
\* REFCOUNT_MAX.
Taken(c) == IF refcount[c] = RefcountMax THEN 1 ELSE refcount[c] + 1

\* take_reference, by the pointer construct() returns.
FirstReference ==
  /\ mpc = "reference"
  /\ refcount' = [refcount EXCEPT ![chunk] = Taken(chunk)]
  /\ refs' = [refs EXCEPT ![chunk] = @ + 1]
  /\ mpc' = "idle" /\ chunk' = Null
  /\ UNCHANGED <<order, pool, free, lock, nextblock, object, stores,
                 oldHead, gc>>

\* A pointer to the object of chunk c is copied.
CopyReference(c) ==
  /\ mpc = "idle" /\ refs[c] > 0
  /\ Taken(c) # RefcountMax
  /\ refcount' = [refcount EXCEPT ![c] = Taken(c)]
  /\ refs' = [refs EXCEPT ![c] = @ + 1]
  /\ UNCHANGED <<order, pool, free, lock, nextblock, object, mutator, gc>>

\* The copy that overflows the counter throws when the counter has been stored
\* and before the pointer is.  No caller goes on: every exception leaves the
\* algorithm, pointers are dropped, the collector is stopped (run.hh), then the
\* graph is cleared and the pool destructed.
CopyOverflows(c) ==
  /\ mpc = "idle" /\ refs[c] > 0
  /\ Taken(c) = RefcountMax
  /\ refcount' = [refcount EXCEPT ![c] = Taken(c)]
  /\ mpc' = "thrown" /\ chunk' = c
  /\ UNCHANGED <<order, pool, free, lock, nextblock, object, refs, stores,
                 oldHead, gc>>

\* After an exception, once the collector is stopped, clear() copies the pointers
\* of the edges it removes (remove_edge), each for the time of a call: the counter
\* overflows again, or, if it has not gone down since it overflowed, it starts
\* again from 1 and is released.
Unwound == mpc = "thrown" /\ cpc = "stopped"

ClearCopies(c) ==
  /\ Unwound /\ refs[c] > 0
  /\ refcount' = [refcount EXCEPT ![c] =
                     IF Taken(c) = RefcountMax THEN RefcountMax ELSE Taken(c) - 1]
  /\ UNCHANGED <<order, pool, free, lock, nextblock, object, refs, mutator, gc>>

\* release_reference, by a pointer that is reset or destructed, by the unwinding
\* of an exception too.  It throws when the counter is 0, and changes nothing.
DropReference(c) ==
  /\ mpc \in {"idle", "thrown"} /\ refs[c] > 0 /\ refcount[c] > 0
  /\ refcount' = [refcount EXCEPT ![c] = @ - 1]
  /\ refs' = [refs EXCEPT ![c] = @ - 1]
  /\ UNCHANGED <<order, pool, free, lock, nextblock, object, mutator, gc>>

\* destruct(p) when p is the only pointer: the object is destructed, the chunk
\* is released and p is reset.
Destruct(c) ==
  /\ mpc = "idle" /\ refs[c] > 0 /\ refcount[c] = 1
  /\ object' = object \ {c}
  /\ refcount' = [refcount EXCEPT ![c] = FREE_CHUNK]
  /\ chunk' = c /\ mpc' = "release"
  /\ UNCHANGED <<order, pool, free, lock, nextblock, refs, stores, oldHead, gc>>

LockToRelease ==
  /\ mpc = "release" /\ lock = "none"
  /\ lock' = "mutator" /\ mpc' = "push"
  /\ UNCHANGED <<order, pool, free, memory, chunk, stores, oldHead, gc>>

Push ==
  /\ mpc = "push"
  /\ free' = <<chunk>> \o free
  /\ lock' = "none"
  /\ IF refs[chunk] > 0
       THEN mpc' = "reset" /\ UNCHANGED chunk
       ELSE mpc' = "idle" /\ chunk' = Null
  /\ UNCHANGED <<order, pool, memory, stores, oldHead, gc>>

\* p = nullptr, at the end of destruct(), takes a reference off the free chunk.
ResetPointer ==
  /\ mpc = "reset"
  /\ refcount' = [refcount EXCEPT ![chunk] = @ - 1]
  /\ refs' = [refs EXCEPT ![chunk] = @ - 1]
  /\ mpc' = "idle" /\ chunk' = Null
  /\ UNCHANGED <<order, pool, free, lock, nextblock, object, stores,
                 oldHead, gc>>

\* destruct_all(), when the collector has been stopped: the objects of the
\* chunks that are not in the raw block and have a counter are destructed and
\* all the blocks are freed.  The pointers that were left dangle: they are gone.
InRawBlock(c) == rawHead <= c /\ c < rawEnd

Constructed ==
  {c \in UNION {Chunks(b) : b \in blocks} :
     ~ InRawBlock(c) /\ refcount[c] \in 0 .. RefcountMax}

DestructAll ==
  /\ mpc \in {"idle", "thrown"} /\ cpc = "stopped"
  /\ object' = object \ Constructed
  /\ blocks' = {} /\ blockHead' = Null /\ rawHead' = Null /\ rawEnd' = Null
  /\ free' = <<>> /\ mpc' = "done"
  /\ refs' = [c \in AllChunks |-> 0]
  /\ UNCHANGED <<order, lock, nextblock, refcount, chunk, stores, oldHead, gc>>

-----------------------------------------------------------------------------
(* The garbage collector: collect(), called again and again. *)

StartCollect ==
  /\ cpc = "start"
  /\ block' = blockHead /\ collected' = <<>>
  /\ cpc' = "block"
  /\ UNCHANGED <<order, pool, free, lock, memory, mutator, cchunk>>

\* The thread is joined between two calls.
StopCollect ==
  /\ cpc = "start" /\ mpc \in {"idle", "thrown"}
  /\ cpc' = "stopped"
  /\ UNCHANGED <<order, pool, free, lock, memory, mutator, block, cchunk,
                 collected>>

FirstChunk ==
  /\ cpc = "block" /\ block # Null
  /\ cchunk' = block + 1 /\ cpc' = "chunk"
  /\ UNCHANGED <<order, pool, free, lock, memory, mutator, block, collected>>

\* Mutant: only the newest block is visited.
NextBlockNone ==
  /\ cpc = "next"
  /\ block' = Null /\ cpc' = "block" /\ cchunk' = Null
  /\ UNCHANGED <<order, pool, free, lock, memory, mutator, collected>>

NextBlock ==
  /\ cpc = "next"
  /\ block' = nextblock[block] /\ cpc' = "block" /\ cchunk' = Null
  /\ UNCHANGED <<order, pool, free, lock, memory, mutator, collected>>

\* Mutant: the first raw chunk is taken for a used one.
ReadRawHeadStrict ==
  /\ cpc = "chunk"
  /\ cpc' = IF cchunk = block + BlockSize THEN "next"
            ELSE IF rawHead < cchunk THEN "raw" ELSE "test"
  /\ UNCHANGED <<order, pool, free, lock, memory, mutator, block, cchunk,
                 collected>>

\* _raw_head <= chunk: _raw_end is read only if this holds.
ReadRawHead ==
  /\ cpc = "chunk"
  /\ cpc' = IF cchunk = block + BlockSize THEN "next"
            ELSE IF rawHead <= cchunk THEN "raw" ELSE "test"
  /\ UNCHANGED <<order, pool, free, lock, memory, mutator, block, cchunk,
                 collected>>

\* chunk < _raw_end: the rest of the block is not used yet.
ReadRawEnd ==
  /\ cpc = "raw"
  /\ cpc' = IF cchunk < rawEnd THEN "next" ELSE "test"
  /\ UNCHANGED <<order, pool, free, lock, memory, mutator, block, cchunk,
                 collected>>

\* The chunk is made free through its counter if nothing references it.
TestChunk ==
  /\ cpc = "test"
  /\ IF refcount[cchunk] = COLLECTABLE_CHUNK
       THEN /\ refcount' = [refcount EXCEPT ![cchunk] = FREE_CHUNK]
            /\ cpc' = "collect" /\ UNCHANGED cchunk
       ELSE cchunk' = cchunk + 1 /\ cpc' = "chunk" /\ UNCHANGED refcount
  /\ UNCHANGED <<order, pool, free, lock, nextblock, object, refs, mutator,
                 block, collected>>

\* Its object is destructed and the chunk is put in front of the collected ones.
CollectChunk ==
  /\ cpc = "collect"
  /\ object' = object \ {cchunk}
  /\ collected' = <<cchunk>> \o collected
  /\ cchunk' = cchunk + 1 /\ cpc' = "chunk"
  /\ UNCHANGED <<order, pool, free, lock, nextblock, refcount, refs, mutator,
                 block>>

\* All the blocks have been visited: the collected chunks, if any, are released.
EndCollect ==
  /\ cpc = "block" /\ block = Null
  /\ IF collected = <<>>
       THEN cpc' = "start" /\ UNCHANGED lock
       ELSE lock = "none" /\ lock' = "gc" /\ cpc' = "splice"
  /\ UNCHANGED <<order, pool, free, memory, mutator, block, cchunk, collected>>

\* Mutant: the chunks that were in the free list are lost.
SpliceLost ==
  /\ cpc = "splice"
  /\ free' = collected /\ collected' = <<>>
  /\ lock' = "none" /\ cpc' = "start"
  /\ UNCHANGED <<order, pool, memory, mutator, block, cchunk>>

Splice ==
  /\ cpc = "splice"
  /\ free' = collected \o free /\ collected' = <<>>
  /\ lock' = "none" /\ cpc' = "start"
  /\ UNCHANGED <<order, pool, memory, mutator, block, cchunk>>

-----------------------------------------------------------------------------
Mutate ==
  \/ LockToAllocate \/ Protect \/ Unlink \/ NoFreeChunk
  \/ \E b \in Blocks : Grow(b)
  \/ BadAlloc \/ Store \/ Carve \/ Bump
  \/ Construct \/ ConstructThrows \/ FirstReference
  \/ \E c \in AllChunks : CopyReference(c)
  \/ \E c \in AllChunks : CopyOverflows(c)
  \/ \E c \in AllChunks : ClearCopies(c)
  \/ \E c \in AllChunks : DropReference(c)
  \/ \E c \in AllChunks : Destruct(c)
  \/ LockToRelease \/ Push \/ ResetPointer \/ DestructAll

Collect ==
  \/ StartCollect \/ FirstChunk \/ NextBlock \/ ReadRawHead \/ ReadRawEnd
  \/ TestChunk \/ CollectChunk \/ EndCollect \/ Splice

Next == Mutate \/ Collect \/ StopCollect

Spec == Init /\ [][Next]_vars

\* The garbage collector's thread runs.  Nothing is asked of the mutator.
FairSpec == Spec /\ WF_vars(Collect)

-----------------------------------------------------------------------------
(* What the properties speak of. *)

Elements(s) == {s[i] : i \in DOMAIN s}

\* The chunks of a raw block, the one that is being allocated from it included.
Raw == CASE mpc = "store"            -> Chunks(chunk - 1)
         [] mpc \in {"carve", "bump"} ->
              {c \in AllChunks : chunk <= c /\ c < rawEnd}
         [] OTHER                    -> {c \in AllChunks : InRawBlock(c)}

\* The chunk that allocate() has returned and that holds no object, or that
\* release() has not put in the free list yet.
InHand == IF mpc \in {"construct", "release", "push"} THEN {chunk} ELSE {}

\* The pointer that destruct() is about to reset.
Resetting == IF mpc \in {"release", "push", "reset"} THEN {chunk} ELSE {}

\* The chunk whose counter has counted the copy that threw.
Overflown == IF mpc = "thrown" THEN {chunk} ELSE {}

-----------------------------------------------------------------------------
(* Properties *)

TypeOK ==
  /\ order \in StoreOrders
  /\ blocks \in SUBSET Blocks
  /\ blockHead \in Blocks \cup {Null}
  /\ rawHead \in Nat /\ rawEnd \in Nat
  /\ free \in Seq(AllChunks)
  /\ lock \in {"none", "mutator", "gc"}
  /\ nextblock \in [Blocks -> Blocks \cup {Null}]
  /\ refcount \in [AllChunks -> 0 .. FREE_CHUNK]
  /\ object \in SUBSET AllChunks
  /\ refs \in [AllChunks -> 0 .. RefcountMax - 1]
  /\ mpc \in {"idle", "pop", "unlink", "grow", "store", "carve", "bump",
              "construct", "reference", "release", "push", "reset",
              "thrown", "done"}
  /\ chunk \in AllChunks \cup {Null}
  /\ cpc \in {"start", "block", "chunk", "raw", "test", "collect", "next",
              "splice", "stopped"}
  /\ block \in Blocks \cup {Null}
  /\ cchunk \in Nat
  /\ collected \in Seq(AllChunks)

(* The types, and a chunk is never given twice: it is in the raw block, in   *)
(* the free list, among the collected ones, in the hands of the mutator or in*)
(* use, and in one of these only, once.                                      *)
OneOwner ==
  LET listed == free \o collected
      owner  == <<Raw, Elements(listed), InHand, object>>
  IN /\ TypeOK
     /\ \A i, j \in DOMAIN listed : listed[i] = listed[j] => i = j
     /\ \A c \in UNION {Chunks(b) : b \in blocks} :
          Cardinality({i \in DOMAIN owner : c \in owner[i]}) = 1

(* A pointer of the mutator points to an object that has not been destructed,*)
(* and the counter of the object counts the pointers: collect() does not     *)
(* free an object in use, and no increment is lost.  After a copy that has   *)
(* overflowed the counter of its object, that counter is one above the       *)
(* pointers, however many are dropped while the exception unwinds, and       *)
(* collect() never frees this object.  Once the collector is stopped after   *)
(* an exception, counters may be anything that stands for an object, since   *)
(* clear() copies again.  Between two operations, and after the exception,   *)
(* the counters tell the objects: destruct_all() will destruct every object  *)
(* that is left, and nothing else.                                           *)
NoDanglingPointer ==
  /\ \A c \in AllChunks \ Resetting : refs[c] > 0 => c \in object
  /\ ~ Unwound =>
       /\ \A c \in AllChunks \ (Resetting \cup Overflown) :
            refs[c] > 0 => refcount[c] = refs[c]
       /\ \A c \in Overflown : c \in object /\ refcount[c] = refs[c] + 1
  /\ mpc \in {"idle", "thrown"} /\ cpc # "collect" => Constructed = object

(* collect() "may interleave with no problem" with allocate() (comment in    *)
(* allocate): the chunk it is about to collect holds an object, which nothing*)
(* references.                                                               *)
CollectsOnlyGarbage == cpc = "collect" => cchunk \in object /\ refs[cchunk] = 0

(* If the mutator stops allocating, every object that nothing references is  *)
(* destructed: no chunk is passed over for ever.                             *)
GarbageCollected ==
  <>[](mpc = "idle" /\ cpc # "stopped") => []<>(\A c \in object : refs[c] > 0)

\* REFCOUNT_MAX "is used to identify allocated objects that are not referenced
\* by any pointer" (shared_objects.hh).  It is not so (README,
\* "Disagreements"): a copy that overflows leaves this value too.
MaxMeansUnreferenced == \A c \in object : refcount[c] = RefcountMax => refs[c] = 0
=============================================================================
