----------------------------- MODULE PoolProofs -----------------------------
(***************************************************************************)
(* Proofs about Pool, for every number and size of blocks, every placement *)
(* of the blocks in memory and every REFCOUNT_MAX, in the build that        *)
(* performs the stores of allocate_from_new_block in the order of the      *)
(* source: however the accesses of the mutator and of the collector        *)
(* interleave, no chunk is given twice, no pointer dangles, and only       *)
(* garbage is collected.                                                   *)
(***************************************************************************)
EXTENDS Pool, FiniteSetTheorems, TLAPS

-----------------------------------------------------------------------------
(* Lemmas about addresses. *)

\* The chunks of a block follow its first word; blocks do not overlap.
LEMMA ChunksFacts ==
  /\ \A b \in Blocks : /\ b \in Nat \ {0}
                       /\ Chunks(b) \subseteq AllChunks
                       /\ Chunks(b) \subseteq Nat \ {0}
                       /\ b + 1 \in Chunks(b)
                       /\ \A c \in Chunks(b) :
                            c + 1 \in Chunks(b) \/ c + 1 = b + BlockSize
  /\ \A c \in AllChunks : c \in Nat \ {0}
<1>1. AllocNb \in Nat /\ AllocNb > 0 /\ Blocks \subseteq Nat \ {0}
  BY AllocNbAssumption, BlocksAssumption
<1>2. ASSUME NEW b \in Blocks
      PROVE  /\ b \in Nat \ {0}
             /\ Chunks(b) \subseteq Nat \ {0}
             /\ b + 1 \in Chunks(b)
             /\ \A c \in Chunks(b) : c + 1 \in Chunks(b) \/ c + 1 = b + BlockSize
  BY <1>1 DEF Chunks, BlockSize
<1>3. ASSUME NEW b \in Blocks PROVE Chunks(b) \subseteq AllChunks
  BY DEF AllChunks
<1>4. ASSUME NEW c \in AllChunks PROVE c \in Nat \ {0}
  BY <1>2 DEF AllChunks
<1> QED
  BY <1>2, <1>3, <1>4

\* Two blocks share no chunk.
LEMMA ChunksDisjoint ==
  \A a, b \in Blocks : a # b => Chunks(a) \cap Chunks(b) = {}
<1>1. AllocNb \in Nat /\ AllocNb > 0 /\ Blocks \subseteq Nat \ {0}
  BY AllocNbAssumption, BlocksAssumption
<1>2. ASSUME NEW a \in Blocks, NEW b \in Blocks, a < b
      PROVE  Chunks(a) \cap Chunks(b) = {}
  <2>1. a + BlockSize <= b
    BY <1>2, BlocksAssumption
  <2> QED
    BY <1>1, <2>1 DEF Chunks, BlockSize
<1> QED
  BY <1>1, <1>2

\* The chunks from r to the end of a block.
Above(r, e) == {c \in AllChunks : r <= c /\ c < e}

\* Carving a chunk off the raw block leaves the chunks above it.
LEMMA AboveFacts ==
  /\ \A b \in Blocks : Above(b + 1, b + BlockSize) = Chunks(b)
  /\ \A b \in Blocks : \A r \in Chunks(b) :
       /\ r \in Above(r, b + BlockSize)
       /\ Above(r, b + BlockSize) \subseteq Chunks(b)
       /\ Above(r + 1, b + BlockSize) = Above(r, b + BlockSize) \ {r}
  /\ \A r \in Nat : Above(r, r) = {}
<1>1. AllocNb \in Nat /\ AllocNb > 0 /\ Blocks \subseteq Nat \ {0}
  BY AllocNbAssumption, BlocksAssumption
<1>2. AllChunks \subseteq Nat
  BY ChunksFacts
<1>3. ASSUME NEW b \in Blocks, NEW c \in AllChunks, b + 1 <= c, c < b + BlockSize
      PROVE  c \in Chunks(b)
  BY <1>1, <1>2, <1>3 DEF Chunks, BlockSize
<1>4. ASSUME NEW b \in Blocks, NEW c \in Chunks(b)
      PROVE  c \in AllChunks /\ b + 1 <= c /\ c < b + BlockSize
  <2>1. c \in AllChunks
    BY ChunksFacts
  <2> QED
    BY <1>1, <2>1 DEF Chunks, BlockSize
<1>5. ASSUME NEW b \in Blocks PROVE Above(b + 1, b + BlockSize) = Chunks(b)
  BY <1>3, <1>4 DEF Above
<1>6. ASSUME NEW b \in Blocks, NEW r \in Chunks(b)
      PROVE  /\ r \in Above(r, b + BlockSize)
             /\ Above(r, b + BlockSize) \subseteq Chunks(b)
             /\ Above(r + 1, b + BlockSize) = Above(r, b + BlockSize) \ {r}
  <2>1. r \in AllChunks /\ b + 1 <= r /\ r < b + BlockSize /\ r \in Nat /\ b \in Nat
    BY <1>1, <1>2, <1>4
  <2>2. ASSUME NEW c \in AllChunks, r <= c PROVE b + 1 <= c
    BY <1>2, <2>1, <2>2
  <2>3. \A c \in AllChunks : r + 1 <= c <=> r <= c /\ c # r
    BY <1>2, <2>1
  <2>4. ASSUME NEW c \in Above(r, b + BlockSize) PROVE c \in Chunks(b)
    BY <1>3, <2>2 DEF Above
  <2>5. r \in Above(r, b + BlockSize)
    BY <2>1 DEF Above
  <2>6. Above(r + 1, b + BlockSize) = Above(r, b + BlockSize) \ {r}
    BY <2>3 DEF Above
  <2> QED
    BY <2>4, <2>5, <2>6
<1>7. ASSUME NEW r \in Nat PROVE Above(r, r) = {}
  <2>1. \A c \in AllChunks : ~ (r <= c /\ c < r)
    BY <1>2
  <2> QED
    BY <2>1 DEF Above
<1> QED
  BY <1>5, <1>6, <1>7

-----------------------------------------------------------------------------
(* Lemmas about the lists of chunks. *)

NoRepeat(s) == \A i, j \in DOMAIN s : s[i] = s[j] => i = j

\* Taking the first chunk of a list.
LEMMA TailFacts ==
  ASSUME NEW S, NEW s \in Seq(S), s # <<>>
  PROVE  /\ Head(s) \in Elements(s) /\ Head(s) \in S
         /\ Tail(s) \in Seq(S)
         /\ NoRepeat(s) => /\ NoRepeat(Tail(s))
                           /\ Elements(Tail(s)) = Elements(s) \ {Head(s)}
<1> DEFINE t == Tail(s)
<1>1. /\ Len(s) \in Nat \ {0} /\ DOMAIN s = 1 .. Len(s)
      /\ Head(s) = s[1] /\ 1 \in DOMAIN s
      /\ t \in Seq(S) /\ Len(t) = Len(s) - 1 /\ DOMAIN t = 1 .. Len(t)
      /\ \A i \in 1 .. Len(t) : t[i] = s[i + 1]
  OBVIOUS
<1>2. Head(s) \in Elements(s) /\ Head(s) \in S
  BY <1>1 DEF Elements
<1> HIDE DEF t
<1>3. ASSUME NoRepeat(s) PROVE NoRepeat(t)
  <2>1. ASSUME NEW i \in DOMAIN t, NEW j \in DOMAIN t, t[i] = t[j] PROVE i = j
    <3>1. i + 1 \in DOMAIN s /\ j + 1 \in DOMAIN s /\ s[i + 1] = s[j + 1]
      BY <1>1, <2>1
    <3>2. i + 1 = j + 1
      BY <1>3, <3>1 DEF NoRepeat
    <3> QED
      BY <1>1, <3>2
  <2> QED
    BY <2>1 DEF NoRepeat
<1>4. ASSUME NoRepeat(s) PROVE Elements(t) = Elements(s) \ {Head(s)}
  <2>1. ASSUME NEW i \in DOMAIN t PROVE t[i] \in Elements(s) \ {Head(s)}
    <3>1. i + 1 \in DOMAIN s /\ t[i] = s[i + 1] /\ i + 1 # 1
      BY <1>1
    <3> QED
      BY <1>1, <1>4, <3>1 DEF NoRepeat, Elements
  <2>2. ASSUME NEW i \in DOMAIN s, s[i] # Head(s) PROVE s[i] \in Elements(t)
    <3>1. i - 1 \in DOMAIN t /\ t[i - 1] = s[i]
      BY <1>1, <2>2
    <3> QED
      BY <3>1 DEF Elements
  <2> QED
    BY <2>1, <2>2 DEF Elements
<1> QED
  BY <1>1, <1>2, <1>3, <1>4 DEF t

\* Putting a list before another one that has none of its chunks.
LEMMA ConcatFacts ==
  ASSUME NEW S, NEW s \in Seq(S), NEW t \in Seq(S)
  PROVE  /\ s \o t \in Seq(S)
         /\ Elements(s \o t) = Elements(s) \cup Elements(t)
         /\ /\ NoRepeat(s) /\ NoRepeat(t)
            /\ Elements(s) \cap Elements(t) = {}
            => NoRepeat(s \o t)
<1> DEFINE r == s \o t
<1>1. /\ r \in Seq(S) /\ DOMAIN s = 1 .. Len(s) /\ DOMAIN t = 1 .. Len(t)
      /\ Len(s) \in Nat /\ Len(t) \in Nat /\ DOMAIN r = 1 .. Len(s) + Len(t)
      /\ \A i \in DOMAIN s : r[i] = s[i]
      /\ \A i \in DOMAIN t : r[Len(s) + i] = t[i]
  OBVIOUS
<1> HIDE DEF r
<1>2. ASSUME NEW i \in DOMAIN r, i \notin DOMAIN s
      PROVE  i - Len(s) \in DOMAIN t /\ r[i] = t[i - Len(s)]
  <2>1. i - Len(s) \in DOMAIN t /\ i = Len(s) + (i - Len(s))
    BY <1>1, <1>2
  <2> QED
    BY <1>1, <2>1
<1>3. Elements(r) = Elements(s) \cup Elements(t)
  <2>1. ASSUME NEW i \in DOMAIN r PROVE r[i] \in Elements(s) \cup Elements(t)
    BY <1>1, <1>2 DEF Elements
  <2>2. ASSUME NEW i \in DOMAIN s PROVE s[i] \in Elements(r)
    BY <1>1 DEF Elements
  <2>3. ASSUME NEW i \in DOMAIN t PROVE t[i] \in Elements(r)
    BY <1>1 DEF Elements
  <2> QED
    BY <2>1, <2>2, <2>3 DEF Elements
<1>4. ASSUME NoRepeat(s), NoRepeat(t), Elements(s) \cap Elements(t) = {},
             NEW i \in DOMAIN r, NEW j \in DOMAIN r, r[i] = r[j]
      PROVE  i = j
  <2>1. CASE i \in DOMAIN s /\ j \in DOMAIN s
    BY <1>1, <1>4, <2>1 DEF NoRepeat
  <2>2. CASE i \notin DOMAIN s /\ j \notin DOMAIN s
    <3>1. i - Len(s) = j - Len(s)
      BY <1>2, <1>4, <2>2 DEF NoRepeat
    <3> QED
      BY <1>1, <3>1
  <2>3. CASE i \in DOMAIN s /\ j \notin DOMAIN s
    BY <1>1, <1>2, <1>4, <2>3 DEF Elements
  <2>4. CASE i \notin DOMAIN s /\ j \in DOMAIN s
    BY <1>1, <1>2, <1>4, <2>4 DEF Elements
  <2> QED
    BY <2>1, <2>2, <2>3, <2>4
<1> QED
  BY <1>1, <1>3, <1>4 DEF r, NoRepeat

\* Pushing a chunk on a list that does not have it.
LEMMA PushFacts ==
  ASSUME NEW S, NEW s \in Seq(S), NEW c \in S
  PROVE  /\ <<c>> \o s \in Seq(S)
         /\ Elements(<<c>> \o s) = Elements(s) \cup {c}
         /\ NoRepeat(s) /\ c \notin Elements(s) => NoRepeat(<<c>> \o s)
<1> DEFINE o == <<c>>
<1>1. o \in Seq(S) /\ DOMAIN o = {1} /\ o[1] = c
  OBVIOUS
<1> HIDE DEF o
<1>2. Elements(o) = {c} /\ NoRepeat(o)
  BY <1>1 DEF Elements, NoRepeat
<1>3. /\ o \o s \in Seq(S) /\ Elements(o \o s) = Elements(o) \cup Elements(s)
      /\ NoRepeat(o) /\ NoRepeat(s) /\ Elements(o) \cap Elements(s) = {} => NoRepeat(o \o s)
  BY <1>1, ConcatFacts
<1>4. /\ o \o s \in Seq(S) /\ Elements(o \o s) = Elements(s) \cup {c}
      /\ NoRepeat(s) /\ c \notin Elements(s) => NoRepeat(o \o s)
  BY <1>2, <1>3
<1> QED
  BY <1>4 DEF o

\* The empty list has no chunk.
LEMMA EmptyFacts == Elements(<<>>) = {} /\ NoRepeat(<<>>)
BY DEF Elements, NoRepeat

-----------------------------------------------------------------------------
(* The inductive invariant, of the build that performs the stores in the    *)
(* order of the source.                                                     *)

\* The chunks of the blocks that operator new has given.
Allotted == UNION {Chunks(b) : b \in blocks}

\* The stores of Grow that remain, one after another.
StoresLeft ==
  <<SourceOrder,
    <<"raw_end", "nextblock", "block_head", "raw_first">>,
    <<"nextblock", "block_head", "raw_first">>,
    <<"block_head", "raw_first">>,
    <<"raw_first">>>>

\* The blocks that the collector may see: a new block is not visible before it
\* is the head of the list.
Hidden == IF mpc = "store" /\ stores # StoresLeft[5] THEN {chunk - 1} ELSE {}

Visible == (blocks \ Hidden) \cup {Null}

\* The lock is held by the thread that is in a critical section.
Locked ==
  /\ lock = "mutator" <=> mpc \in {"pop", "unlink", "push"}
  /\ lock = "gc" <=> cpc = "splice"

\* The list of blocks leads from visible blocks to visible blocks.
VisibleList ==
  /\ blockHead \in Visible
  /\ \A b \in blocks \ Hidden : nextblock[b] \in Visible

\* The set-up of a new block: its limits are stored, then its link, before it
\* becomes visible; its first chunk is the last store.
SetUp ==
  mpc = "store" =>
    /\ chunk - 1 \in blocks
    /\ oldHead \in Visible
    /\ \E k \in 1 .. 5 :
         /\ stores = StoresLeft[k]
         /\ k > 1 => rawHead = chunk - 1
         /\ k > 2 => rawEnd = chunk - 1 + BlockSize
         /\ k > 3 => nextblock[chunk - 1] = oldHead

\* The raw block is the end of a block, or nothing.
RawBlock ==
  /\ mpc # "store" =>
       \/ rawHead = rawEnd
       \/ \E b \in blocks : rawHead \in Chunks(b) /\ rawEnd = b + BlockSize
  /\ mpc = "grow" => rawHead = rawEnd
  /\ mpc \in {"carve", "bump"} => rawHead = chunk /\ rawHead # rawEnd

\* The chunk the mutator works on.
Working ==
  /\ mpc \notin {"idle", "pop", "grow", "done"} => chunk \in Allotted
  /\ mpc = "unlink" => free # <<>> /\ chunk = Head(free)
  /\ mpc \in {"unlink", "bump", "construct"} =>
       refcount[chunk] = ALLOCATED_CHUNK /\ refs[chunk] = 0
  /\ mpc = "reference" =>
       chunk \in object /\ refcount[chunk] = RefcountMax /\ refs[chunk] = 0
  /\ mpc \in {"release", "push"} => refcount[chunk] = FREE_CHUNK /\ refs[chunk] <= 1
  /\ mpc = "reset" =>
       /\ chunk \in Elements(free)
       /\ refcount[chunk] = FREE_CHUNK /\ refs[chunk] = 1
  /\ mpc = "thrown" =>
       chunk \in object /\ (~ Unwound => refcount[chunk] = refs[chunk] + 1)
  /\ mpc = "done" => cpc = "stopped"

\* Where the collector is: it never tests a raw chunk, and what it has decided
\* to collect stays garbage.
Visiting ==
  /\ cpc \in {"block", "chunk", "raw", "test", "collect", "next"} => block \in Visible
  /\ cpc \in {"chunk", "raw", "test", "collect", "next"} => block # Null
  /\ cpc = "chunk" => cchunk \in Chunks(block) \cup {block + BlockSize}
  /\ cpc \in {"raw", "test", "collect"} => cchunk \in Chunks(block)
  /\ cpc = "test" => cchunk \notin Raw
  /\ cpc = "collect" =>
       cchunk \in object /\ refs[cchunk] = 0 /\ refcount[cchunk] = FREE_CHUNK
  /\ cpc \in {"start", "stopped"} => collected = <<>>

\* Every chunk has one owner.

Owned ==
  /\ NoRepeat(free) /\ NoRepeat(collected)
  /\ Elements(free) \cap Elements(collected) = {}
  /\ \A c \in Elements(free) \cup Elements(collected) : c \notin Raw \cup InHand \cup object
  /\ \A c \in InHand : c \notin Raw \cup object
  /\ \A c \in object : c \notin Raw
  /\ Allotted = Raw \cup Elements(free) \cup Elements(collected) \cup InHand \cup object

\* The counter of a chunk tells its owner, and how many pointers there are.
Counters ==
  /\ \A c \in Elements(free) \cup Elements(collected) :
       refcount[c] \in {ALLOCATED_CHUNK, FREE_CHUNK}
  /\ \A c \in object :
       \/ refcount[c] = refs[c]
       \/ mpc \in {"reference", "thrown"} /\ c = chunk
       \/ cpc = "collect" /\ c = cchunk
       \/ Unwound
  /\ Unwound => \A c \in object : refcount[c] \in 0 .. RefcountMax
  /\ \A c \in AllChunks : refs[c] > 0 => c \in object \cup Resetting

IInv ==
  /\ TypeOK
  /\ order = SourceOrder
  /\ Locked
  /\ VisibleList
  /\ SetUp
  /\ RawBlock
  /\ Working
  /\ Visiting
  /\ Owned
  /\ Counters

-----------------------------------------------------------------------------
(* Lemmas about the invariant. *)

\* The values of a counter.
LEMMA CountFacts ==
  /\ RefcountMax \in Nat /\ RefcountMax >= 2
  /\ ALLOCATED_CHUNK = RefcountMax + 1 /\ FREE_CHUNK = RefcountMax + 2
  /\ COLLECTABLE_CHUNK = 0
  /\ {0, 1, RefcountMax, ALLOCATED_CHUNK, FREE_CHUNK} \subseteq 0 .. FREE_CHUNK
BY RefcountMaxAssumption DEF ALLOCATED_CHUNK, FREE_CHUNK, COLLECTABLE_CHUNK

\* What the pointers point to when no operation is under way.
LEMMA IdleReferenced ==
  ASSUME IInv, mpc \in {"idle", "thrown"}, NEW c \in AllChunks, refs[c] > 0
  PROVE  /\ c \in object /\ c \in Allotted
         /\ refcount[c] \in 0 .. RefcountMax
         /\ ~ Unwound /\ c \notin Overflown => refcount[c] = refs[c]
<1>1. c \in object /\ c \in Allotted
  BY DEF IInv, Counters, Owned, Resetting
<1>2. ~ (cpc = "collect" /\ c = cchunk)
  BY DEF IInv, Visiting
<1>3. refs[c] \in 0 .. RefcountMax - 1 /\ RefcountMax \in Nat
  BY CountFacts DEF IInv, TypeOK
<1>4. ~ Unwound /\ c \notin Overflown => refcount[c] = refs[c]
  BY <1>1, <1>2 DEF IInv, Counters, Overflown
<1>5. ~ Unwound /\ c \in Overflown => refcount[c] = refs[c] + 1
  BY DEF IInv, Working, Overflown
<1>6. Unwound => refcount[c] \in 0 .. RefcountMax
  BY <1>1 DEF IInv, Counters
<1> QED
  BY <1>1, <1>3, <1>4, <1>5, <1>6

\* What a copy makes of the counter.
LEMMA CopyCounts ==
  ASSUME IInv, mpc = "idle", NEW c \in AllChunks, refs[c] > 0
  PROVE  /\ c \in object /\ c \in Allotted /\ refcount[c] = refs[c]
         /\ Taken(c) = refs[c] + 1
<1>1. c \in object /\ c \in Allotted /\ refcount[c] = refs[c]
  BY IdleReferenced DEF Unwound, Overflown
<1>2. refs[c] \in 0 .. RefcountMax - 1
  BY DEF IInv, TypeOK
<1> QED
  BY <1>1, <1>2, CountFacts DEF Taken

\* What the copies of clear() make of it after an exception.
LEMMA ClearCounts ==
  ASSUME IInv, NEW c \in AllChunks, ClearCopies(c)
  PROVE  /\ c \in object /\ mpc = "thrown" /\ cpc = "stopped"
         /\ (IF Taken(c) = RefcountMax THEN RefcountMax ELSE Taken(c) - 1)
              \in 0 .. RefcountMax
         /\ RefcountMax \in 0 .. FREE_CHUNK
         /\ 0 .. RefcountMax \subseteq 0 .. FREE_CHUNK
<1>1. refs[c] > 0 /\ mpc = "thrown" /\ cpc = "stopped"
  BY DEF ClearCopies, Unwound
<1>2. c \in object /\ refcount[c] \in 0 .. RefcountMax
  BY <1>1, IdleReferenced
<1> QED
  BY <1>1, <1>2, CountFacts DEF Taken

\* The blocks and the chunks are where Blocks says.
LEMMA AllottedType ==
  ASSUME TypeOK
  PROVE  /\ Allotted \subseteq AllChunks
         /\ Visible \subseteq Blocks \cup {Null}
         /\ Visible \subseteq blocks \cup {Null}
         /\ \A b \in blocks : Chunks(b) \subseteq Allotted
         /\ \A s \in {free, collected} : Elements(s) \subseteq AllChunks
<1>1. \A b \in blocks : b \in Blocks /\ Chunks(b) \subseteq AllChunks
  BY ChunksFacts DEF TypeOK
<1>2. Allotted \subseteq AllChunks /\ \A b \in blocks : Chunks(b) \subseteq Allotted
  BY <1>1 DEF Allotted
<1>3. Visible \subseteq Blocks \cup {Null} /\ Visible \subseteq blocks \cup {Null}
  BY <1>1 DEF Visible
<1>4. Elements(free) \subseteq AllChunks /\ Elements(collected) \subseteq AllChunks
  BY DEF TypeOK, Elements
<1> QED
  BY <1>2, <1>3, <1>4

\* The remaining stores, one after another.
LEMMA StoresLeftFacts ==
  /\ StoresLeft[1] = SourceOrder
  /\ \A k \in 1 .. 5 : StoresLeft[k] # <<>> /\ (StoresLeft[k] = StoresLeft[5] => k = 5)
  /\ \A k \in 1 .. 4 : Tail(StoresLeft[k]) = StoresLeft[k + 1]
  /\ Tail(StoresLeft[5]) = <<>>
  /\ Head(StoresLeft[1]) = "raw_head"
  /\ Head(StoresLeft[2]) = "raw_end"
  /\ Head(StoresLeft[3]) = "nextblock"
  /\ Head(StoresLeft[4]) = "block_head"
  /\ Head(StoresLeft[5]) = "raw_first"
<1>1. /\ StoresLeft[1] = SourceOrder
      /\ StoresLeft[1] = <<"raw_head", "raw_end", "nextblock", "block_head", "raw_first">>
      /\ StoresLeft[2] = <<"raw_end", "nextblock", "block_head", "raw_first">>
      /\ StoresLeft[3] = <<"nextblock", "block_head", "raw_first">>
      /\ StoresLeft[4] = <<"block_head", "raw_first">>
      /\ StoresLeft[5] = <<"raw_first">>
  BY DEF StoresLeft, SourceOrder
<1>2. /\ Len(StoresLeft[1]) = 5 /\ Len(StoresLeft[2]) = 4 /\ Len(StoresLeft[3]) = 3
      /\ Len(StoresLeft[4]) = 2 /\ Len(StoresLeft[5]) = 1
  BY <1>1
<1>3. \A k \in 1 .. 5 : StoresLeft[k] # <<>> /\ (StoresLeft[k] = StoresLeft[5] => k = 5)
  <2>1. Len(<<>>) = 0
    OBVIOUS
  <2>2. \A k \in 1 .. 5 : k = 1 \/ k = 2 \/ k = 3 \/ k = 4 \/ k = 5
    OBVIOUS
  <2>3. /\ StoresLeft[1] # <<>> /\ StoresLeft[2] # <<>> /\ StoresLeft[3] # <<>>
        /\ StoresLeft[4] # <<>> /\ StoresLeft[5] # <<>>
    BY <1>2, <2>1
  <2>4. /\ StoresLeft[1] # StoresLeft[5] /\ StoresLeft[2] # StoresLeft[5]
        /\ StoresLeft[3] # StoresLeft[5] /\ StoresLeft[4] # StoresLeft[5]
    BY <1>2
  <2> QED
    BY <2>2, <2>3, <2>4
<1>4. /\ Tail(StoresLeft[1]) = StoresLeft[2] /\ Tail(StoresLeft[2]) = StoresLeft[3]
      /\ Tail(StoresLeft[3]) = StoresLeft[4] /\ Tail(StoresLeft[4]) = StoresLeft[5]
      /\ Tail(StoresLeft[5]) = <<>>
  BY <1>1
<1>5. \A k \in 1 .. 4 : Tail(StoresLeft[k]) = StoresLeft[k + 1]
  <2>1. \A k \in 1 .. 4 : k = 1 \/ k = 2 \/ k = 3 \/ k = 4
    OBVIOUS
  <2> QED
    BY <1>4, <2>1
<1>6. /\ Head(StoresLeft[1]) = "raw_head"
      /\ Head(StoresLeft[2]) = "raw_end"
      /\ Head(StoresLeft[3]) = "nextblock"
      /\ Head(StoresLeft[4]) = "block_head"
      /\ Head(StoresLeft[5]) = "raw_first"
  BY <1>1
<1> QED
  BY <1>1, <1>3, <1>4, <1>5, <1>6

\* Which step of the set-up of a new block is the next one.
LEMMA StoreCases ==
  ASSUME IInv, Store
  PROVE  \E k \in 1 .. 5 :
           /\ stores = StoresLeft[k]
           /\ k > 1 => rawHead = chunk - 1
           /\ k > 2 => rawEnd = chunk - 1 + BlockSize
           /\ k > 3 => nextblock[chunk - 1] = oldHead
           /\ k = 1 => /\ rawHead' = chunk - 1
                       /\ UNCHANGED <<rawEnd, nextblock, blockHead>>
           /\ k = 2 => /\ rawEnd' = chunk - 1 + BlockSize
                       /\ UNCHANGED <<rawHead, nextblock, blockHead>>
           /\ k = 3 => /\ nextblock' = [nextblock EXCEPT ![chunk - 1] = oldHead]
                       /\ UNCHANGED <<rawHead, rawEnd, blockHead>>
           /\ k = 4 => /\ blockHead' = chunk - 1
                       /\ UNCHANGED <<rawHead, rawEnd, nextblock>>
           /\ k = 5 => /\ rawHead' = chunk
                       /\ UNCHANGED <<rawEnd, nextblock, blockHead>>
           /\ k < 5 => stores' = StoresLeft[k + 1] /\ mpc' = "store"
           /\ k = 5 => mpc' = "carve"
<1>1. PICK k \in 1 .. 5 :
           /\ stores = StoresLeft[k]
           /\ k > 1 => rawHead = chunk - 1
           /\ k > 2 => rawEnd = chunk - 1 + BlockSize
           /\ k > 3 => nextblock[chunk - 1] = oldHead
  BY DEF Store, IInv, SetUp
<1>2. /\ k = 1 => Head(stores) = "raw_head"
      /\ k = 2 => Head(stores) = "raw_end"
      /\ k = 3 => Head(stores) = "nextblock"
      /\ k = 4 => Head(stores) = "block_head"
      /\ k = 5 => Head(stores) = "raw_first"
  BY <1>1, StoresLeftFacts
<1>3. /\ k = 1 \/ k = 2 \/ k = 3 \/ k = 4 \/ k = 5
      /\ k < 5 => k \in 1 .. 4 /\ k + 1 \in 1 .. 5
  OBVIOUS
<1>4. /\ k < 5 => Tail(stores) = StoresLeft[k + 1] /\ Tail(stores) # <<>>
      /\ k = 5 => Tail(stores) = <<>>
  BY <1>1, <1>3, StoresLeftFacts
<1>5. /\ k < 5 => stores' = StoresLeft[k + 1] /\ mpc' = "store"
      /\ k = 5 => mpc' = "carve"
  BY <1>4 DEF Store
<1>6. /\ k = 1 => /\ rawHead' = chunk - 1
                  /\ UNCHANGED <<rawEnd, nextblock, blockHead>>
      /\ k = 2 => /\ rawEnd' = chunk - 1 + BlockSize
                  /\ UNCHANGED <<rawHead, nextblock, blockHead>>
      /\ k = 3 => /\ nextblock' = [nextblock EXCEPT ![chunk - 1] = oldHead]
                  /\ UNCHANGED <<rawHead, rawEnd, blockHead>>
      /\ k = 4 => /\ blockHead' = chunk - 1
                  /\ UNCHANGED <<rawHead, rawEnd, nextblock>>
      /\ k = 5 => /\ rawHead' = chunk
                  /\ UNCHANGED <<rawEnd, nextblock, blockHead>>
  BY <1>2, <1>3 DEF Store
<1> QED
  BY <1>1, <1>5, <1>6

-----------------------------------------------------------------------------
(* Types *)

\* A step of either thread keeps the types.
LEMMA TypeStep ==
  ASSUME IInv, [Next]_vars
  PROVE  TypeOK'
<1> DEFINE Count == 0 .. FREE_CHUNK
           Ref   == 0 .. RefcountMax - 1
<1>t. TypeOK /\ order = SourceOrder
  BY DEF IInv
<1>c. /\ refcount \in [AllChunks -> Count] /\ refs \in [AllChunks -> Ref]
      /\ {0, 1, RefcountMax, ALLOCATED_CHUNK, FREE_CHUNK} \subseteq Count
      /\ 0 \in Ref /\ 1 \in Ref
      /\ Allotted \subseteq AllChunks
  BY <1>t, CountFacts, AllottedType DEF TypeOK
<1> HIDE DEF Count, Ref
<1>s. \A c, v : v \in Count => [refcount EXCEPT ![c] = v] \in [AllChunks -> Count]
  BY <1>c
<1>r. \A c, v : v \in Ref => [refs EXCEPT ![c] = v] \in [AllChunks -> Ref]
  BY <1>c
<1> USE DEF TypeOK
<1>1. CASE LockToAllocate \/ BadAlloc \/ LockToRelease
  BY <1>1, <1>t DEF LockToAllocate, BadAlloc, LockToRelease, pool, memory, gc
<1>2. CASE Protect
  <2>1. Head(free) \in AllChunks
    BY <1>2, <1>t, TailFacts DEF Protect
  <2>2. refcount' \in [AllChunks -> Count]
    BY <1>2, <1>c, <1>s DEF Protect
  <2> QED
    BY <1>2, <1>t, <2>1, <2>2 DEF Protect, Count, pool, gc
<1>3. CASE Unlink
  <2>1. free' \in Seq(AllChunks)
    BY <1>3, <1>t, TailFacts DEF Unlink, IInv, Working
  <2> QED
    BY <1>3, <1>t, <2>1 DEF Unlink, pool, memory, gc
<1>4. CASE NoFreeChunk
  <2>1. rawHead # rawEnd => rawHead \in AllChunks
    BY <1>4, <1>t, ChunksFacts DEF NoFreeChunk, IInv, RawBlock
  <2> QED
    BY <1>4, <1>t, <2>1 DEF NoFreeChunk, pool, memory, gc
<1>5. ASSUME NEW b \in Blocks, Grow(b) PROVE TypeOK'
  <2>1. b + 1 \in AllChunks
    BY ChunksFacts
  <2> QED
    BY <1>5, <1>t, <2>1 DEF Grow, memory, gc
<1>6. CASE Store
  <2>1. chunk - 1 \in Blocks /\ chunk - 1 \in Nat /\ oldHead \in Blocks \cup {Null}
    BY <1>6, <1>t, AllottedType, ChunksFacts DEF Store, IInv, SetUp
  <2>2. chunk \in Nat /\ BlockSize \in Nat
    BY <1>t, ChunksFacts, AllocNbAssumption DEF BlockSize, Null
  <2>3. /\ rawHead' \in Nat /\ rawEnd' \in Nat /\ blockHead' \in Blocks \cup {Null}
        /\ nextblock' \in [Blocks -> Blocks \cup {Null}]
    <3>1. PICK k \in 1 .. 5 :
            /\ k = 1 => /\ rawHead' = chunk - 1
                        /\ UNCHANGED <<rawEnd, nextblock, blockHead>>
            /\ k = 2 => /\ rawEnd' = chunk - 1 + BlockSize
                        /\ UNCHANGED <<rawHead, nextblock, blockHead>>
            /\ k = 3 => /\ nextblock' = [nextblock EXCEPT ![chunk - 1] = oldHead]
                        /\ UNCHANGED <<rawHead, rawEnd, blockHead>>
            /\ k = 4 => /\ blockHead' = chunk - 1
                        /\ UNCHANGED <<rawHead, rawEnd, nextblock>>
            /\ k = 5 => /\ rawHead' = chunk
                        /\ UNCHANGED <<rawEnd, nextblock, blockHead>>
      BY <1>6, StoreCases
    <3>2. k = 1 \/ k = 2 \/ k = 3 \/ k = 4 \/ k = 5
      OBVIOUS
    <3>3. nextblock \in [Blocks -> Blocks \cup {Null}] /\ rawHead \in Nat /\ rawEnd \in Nat
          /\ blockHead \in Blocks \cup {Null}
      BY <1>t
    <3> QED
      BY <2>1, <2>2, <3>1, <3>2, <3>3
  <2>4. mpc' \in {"store", "carve"}
    BY <1>6 DEF Store
  <2> QED
    BY <1>6, <1>t, <2>3, <2>4 DEF Store, gc
<1>7. CASE Carve
  <2>1. refcount' \in [AllChunks -> Count]
    BY <1>7, <1>c, <1>s DEF Carve
  <2> QED
    BY <1>7, <1>t, <2>1 DEF Carve, Count, pool, gc
<1>8. CASE Bump
  <2>1. rawHead' \in Nat
    BY <1>8, <1>t DEF Bump, IInv, RawBlock
  <2> QED
    BY <1>8, <1>t, <2>1 DEF Bump, gc
<1>9. CASE Construct \/ ConstructThrows
  <2>1. refcount' \in [AllChunks -> Count]
    BY <1>9, <1>c, <1>s DEF Construct, ConstructThrows
  <2>2. object' \in SUBSET AllChunks
    BY <1>9, <1>t, <1>c DEF Construct, ConstructThrows, IInv, Working
  <2> QED
    BY <1>9, <1>t, <2>1, <2>2 DEF Construct, ConstructThrows, Count, pool, gc
<1>10. CASE FirstReference
  <2>1. chunk \in AllChunks /\ refcount[chunk] = RefcountMax /\ refs[chunk] = 0
    BY <1>10, <1>c DEF FirstReference, IInv, Working
  <2>2. /\ refcount' = [refcount EXCEPT ![chunk] = 1]
        /\ refs' = [refs EXCEPT ![chunk] = 1]
    BY <1>10, <2>1 DEF FirstReference, Taken
  <2>3. refcount' \in [AllChunks -> Count] /\ refs' \in [AllChunks -> Ref]
    BY <1>c, <1>s, <1>r, <2>2
  <2> QED
    BY <1>10, <1>t, <2>3 DEF FirstReference, Count, Ref, pool, gc
<1>11. ASSUME NEW c \in AllChunks, CopyReference(c) \/ CopyOverflows(c) PROVE TypeOK'
  <2>1. refcount[c] = refs[c] /\ refs[c] \in Ref /\ Taken(c) = refs[c] + 1
    BY <1>11, <1>c, CopyCounts DEF CopyReference, CopyOverflows
  <2>2. Taken(c) \in Count /\ (Taken(c) # RefcountMax => refs[c] + 1 \in Ref)
    BY <2>1, CountFacts DEF Count, Ref
  <2>3. refcount' \in [AllChunks -> Count] /\ refs' \in [AllChunks -> Ref]
    BY <1>11, <1>c, <1>s, <1>r, <2>2 DEF CopyReference, CopyOverflows
  <2> QED
    BY <1>11, <1>t, <2>3 DEF CopyReference, CopyOverflows, Count, Ref, pool, mutator, gc
<1>12. ASSUME NEW c \in AllChunks, DropReference(c) PROVE TypeOK'
  <2>1. /\ refcount[c] \in 0 .. RefcountMax /\ refcount[c] > 0
        /\ refs[c] > 0 /\ refs[c] \in Ref
    BY <1>12, <1>c, IdleReferenced DEF DropReference
  <2>2. refs[c] - 1 \in Ref /\ refcount[c] - 1 \in Count
    BY <2>1, CountFacts DEF Count, Ref
  <2>3. refcount' \in [AllChunks -> Count] /\ refs' \in [AllChunks -> Ref]
    BY <1>12, <1>s, <1>r, <2>2 DEF DropReference
  <2> QED
    BY <1>12, <1>t, <2>3 DEF DropReference, Count, Ref, pool, mutator, gc
<1>13. ASSUME NEW c \in AllChunks, Destruct(c) PROVE TypeOK'
  <2>1. refcount' \in [AllChunks -> Count]
    BY <1>13, <1>c, <1>s DEF Destruct
  <2> QED
    BY <1>13, <1>t, <2>1 DEF Destruct, Count, pool, gc
<1>14. CASE Push
  <2>1. free' \in Seq(AllChunks)
    BY <1>14, <1>t, <1>c, PushFacts DEF Push, IInv, Working
  <2> QED
    BY <1>14, <1>t, <2>1 DEF Push, pool, memory, gc
<1>15. CASE ResetPointer
  <2>1. refcount[chunk] = FREE_CHUNK /\ refs[chunk] = 1
    BY <1>15 DEF ResetPointer, IInv, Working
  <2>2. refs[chunk] - 1 \in Ref /\ refcount[chunk] - 1 \in Count
    BY <2>1, CountFacts DEF Count, Ref
  <2>3. refcount' \in [AllChunks -> Count] /\ refs' \in [AllChunks -> Ref]
    BY <1>15, <1>s, <1>r, <2>2 DEF ResetPointer
  <2> QED
    BY <1>15, <1>t, <2>3 DEF ResetPointer, Count, Ref, pool, gc
<1>16. CASE DestructAll
  <2>1. refs' \in [AllChunks -> Ref]
    BY <1>16, <1>c DEF DestructAll
  <2> QED
    BY <1>16, <1>t, <2>1 DEF DestructAll, Null, Ref, gc
<1>17. CASE StartCollect \/ StopCollect \/ ReadRawHead \/ ReadRawEnd \/ EndCollect
  <2>1. CASE StartCollect
    BY <1>t, <2>1 DEF StartCollect, pool, memory, mutator
  <2>4. CASE StopCollect
    BY <1>t, <2>4 DEF StopCollect, pool, memory, mutator
  <2>2. CASE ReadRawHead \/ ReadRawEnd
    BY <1>t, <2>2 DEF ReadRawHead, ReadRawEnd, pool, memory, mutator
  <2>3. CASE EndCollect
    BY <1>t, <2>3 DEF EndCollect, pool, memory, mutator
  <2> QED
    BY <1>17, <2>1, <2>2, <2>3, <2>4
<1>18. CASE FirstChunk
  <2>1. cchunk' \in Nat
    BY <1>18, <1>t, ChunksFacts DEF FirstChunk
  <2> QED
    BY <1>18, <1>t, <2>1 DEF FirstChunk, pool, memory, mutator
<1>19. CASE NextBlock
  <2>1. block \in Blocks
    BY <1>19, <1>t DEF NextBlock, IInv, Visiting
  <2> QED
    BY <1>19, <1>t, <2>1 DEF NextBlock, Null, pool, memory, mutator
<1>20. CASE TestChunk
  <2>1. refcount' \in [AllChunks -> Count]
    BY <1>20, <1>c, <1>s DEF TestChunk
  <2> QED
    BY <1>20, <1>t, <2>1 DEF TestChunk, Count, pool, mutator
<1>21. CASE CollectChunk
  <2>1. cchunk \in AllChunks
    BY <1>21, <1>t, ChunksFacts DEF CollectChunk, IInv, Visiting
  <2>2. collected' \in Seq(AllChunks)
    BY <1>21, <1>t, <2>1, PushFacts DEF CollectChunk
  <2> QED
    BY <1>21, <1>t, <2>2 DEF CollectChunk, pool, mutator
<1>22. CASE Splice
  <2>1. free' \in Seq(AllChunks)
    BY <1>22, <1>t, ConcatFacts DEF Splice
  <2> QED
    BY <1>22, <1>t, <2>1 DEF Splice, pool, memory, mutator
<1>23. CASE UNCHANGED vars
  BY <1>23, <1>t DEF vars, pool, memory, mutator, gc
<1>24. ASSUME NEW c \in AllChunks, ClearCopies(c) PROVE TypeOK'
  <2>1. (IF Taken(c) = RefcountMax THEN RefcountMax ELSE Taken(c) - 1) \in Count
    BY <1>24, ClearCounts DEF Count
  <2>2. refcount' \in [AllChunks -> Count]
    BY <1>24, <1>s, <2>1 DEF ClearCopies
  <2> QED
    BY <1>24, <1>t, <2>2 DEF ClearCopies, Count, pool, mutator, gc
<1> QED
  BY <1>1, <1>2, <1>3, <1>4, <1>5, <1>6, <1>7, <1>8, <1>9, <1>10, <1>11, <1>12, <1>13,
     <1>14, <1>15, <1>16, <1>17, <1>18, <1>19, <1>20, <1>21, <1>22, <1>23, <1>24
     DEF Next, Mutate, Collect

-----------------------------------------------------------------------------
(* The lock and the blocks *)

\* A critical section is entered when the lock is free, and left with it.
LEMMA LockedStep ==
  ASSUME IInv, [Next]_vars
  PROVE  Locked'
<1> USE DEF Locked
<1>l. Locked
  BY DEF IInv
<1>1. CASE \/ LockToAllocate \/ Protect \/ Unlink \/ NoFreeChunk
           \/ \E b \in Blocks : Grow(b)
           \/ BadAlloc \/ Store \/ Carve \/ Bump
  BY <1>1, <1>l DEF LockToAllocate, Protect, Unlink, NoFreeChunk, Grow, BadAlloc, Store,
     Carve, Bump, gc
<1>2. CASE \/ Construct \/ ConstructThrows \/ FirstReference
           \/ \E c \in AllChunks : CopyReference(c) \/ CopyOverflows(c)
           \/ \E c \in AllChunks : ClearCopies(c) \/ DropReference(c)
           \/ \E c \in AllChunks : Destruct(c)
           \/ LockToRelease \/ Push \/ ResetPointer \/ DestructAll
  BY <1>2, <1>l DEF Construct, ConstructThrows, FirstReference, CopyReference,
     CopyOverflows, ClearCopies, DropReference, Destruct, LockToRelease, Push,
     ResetPointer, DestructAll, mutator, gc
<1>3. CASE Collect \/ StopCollect
  BY <1>3, <1>l DEF Collect, StartCollect, FirstChunk, NextBlock, ReadRawHead, ReadRawEnd,
     TestChunk, CollectChunk, EndCollect, Splice, StopCollect, mutator
<1>4. CASE UNCHANGED vars
  BY <1>4, <1>l DEF vars, mutator, gc
<1> QED
  BY <1>1, <1>2, <1>3, <1>4 DEF Next, Mutate

\* A step that is not one of the set-up of a block leaves the list of blocks.
LEMMA BlocksKept ==
  ASSUME IInv, UNCHANGED <<blocks, blockHead, nextblock, rawHead, rawEnd>>,
         UNCHANGED <<mpc, chunk, stores, oldHead>> \/ (mpc # "store" /\ mpc' # "store"),
         mpc' = "grow" => rawHead = rawEnd,
         mpc' \in {"carve", "bump"} => rawHead = chunk' /\ rawHead # rawEnd
  PROVE  Visible' = Visible /\ VisibleList' /\ SetUp' /\ RawBlock'
<1>1. Hidden' = Hidden /\ Visible' = Visible
  BY DEF Hidden, Visible
<1> QED
  BY <1>1 DEF IInv, VisibleList, SetUp, RawBlock

\* A block is visible for good, until all the blocks are freed.
LEMMA BlocksStep ==
  ASSUME IInv, [Next]_vars
  PROVE  /\ VisibleList' /\ SetUp' /\ RawBlock'
         /\ ~ DestructAll => Visible \subseteq Visible'
<1>t. TypeOK /\ order = SourceOrder /\ VisibleList /\ SetUp /\ RawBlock
  BY DEF IInv
<1>1. CASE LockToAllocate \/ Protect \/ Unlink \/ BadAlloc
  BY <1>1, BlocksKept DEF LockToAllocate, Protect, Unlink, BadAlloc, pool, memory
<1>2. CASE NoFreeChunk
  BY <1>2, BlocksKept DEF NoFreeChunk, pool, memory
<1>3. ASSUME NEW b \in Blocks, Grow(b)
      PROVE  VisibleList' /\ SetUp' /\ RawBlock' /\ Visible \subseteq Visible'
  <2>1. /\ b \notin blocks /\ blocks' = blocks \cup {b} /\ b \in Nat
        /\ chunk' = b + 1 /\ oldHead' = blockHead /\ stores' = StoresLeft[1]
        /\ mpc = "grow" /\ mpc' = "store"
        /\ UNCHANGED <<blockHead, nextblock, rawHead, rawEnd>>
    BY <1>3, <1>t, StoresLeftFacts, ChunksFacts DEF Grow, memory
  <2>2. StoresLeft[1] # StoresLeft[5] /\ chunk' - 1 = b
    BY <2>1, StoresLeftFacts
  <2>3. Hidden = {} /\ Hidden' = {b}
    BY <2>1, <2>2 DEF Hidden
  <2>4. Visible' = Visible /\ blocks' \ Hidden' = blocks \ Hidden
    BY <2>1, <2>3 DEF Visible
  <2>5. VisibleList'
    BY <1>t, <2>1, <2>4 DEF VisibleList
  <2>6. SetUp'
    <3>1. 1 \in 1 .. 5 /\ ~ (1 > 1) /\ ~ (1 > 2) /\ ~ (1 > 3)
      OBVIOUS
    <3> QED
      BY <1>t, <2>1, <2>2, <2>4, <3>1 DEF SetUp, VisibleList
  <2> QED
    BY <2>1, <2>4, <2>5, <2>6 DEF RawBlock
<1>4. CASE Store
  <2>1. PICK k \in 1 .. 5 :
           /\ stores = StoresLeft[k]
           /\ k > 1 => rawHead = chunk - 1
           /\ k > 2 => rawEnd = chunk - 1 + BlockSize
           /\ k > 3 => nextblock[chunk - 1] = oldHead
           /\ k = 1 => /\ rawHead' = chunk - 1
                       /\ UNCHANGED <<rawEnd, nextblock, blockHead>>
           /\ k = 2 => /\ rawEnd' = chunk - 1 + BlockSize
                       /\ UNCHANGED <<rawHead, nextblock, blockHead>>
           /\ k = 3 => /\ nextblock' = [nextblock EXCEPT ![chunk - 1] = oldHead]
                       /\ UNCHANGED <<rawHead, rawEnd, blockHead>>
           /\ k = 4 => /\ blockHead' = chunk - 1
                       /\ UNCHANGED <<rawHead, rawEnd, nextblock>>
           /\ k = 5 => /\ rawHead' = chunk
                       /\ UNCHANGED <<rawEnd, nextblock, blockHead>>
           /\ k < 5 => stores' = StoresLeft[k + 1] /\ mpc' = "store"
           /\ k = 5 => mpc' = "carve"
    BY <1>4, StoreCases
  <2> DEFINE b == chunk - 1
  <2>2. /\ mpc = "store" /\ UNCHANGED <<blocks, chunk, oldHead>>
        /\ b \in blocks /\ b \in Blocks /\ oldHead \in Visible
    BY <1>4, <1>t DEF Store, SetUp, TypeOK
  <2>3. /\ chunk \in Nat /\ b + 1 = chunk /\ b \in Nat \ {0}
        /\ BlockSize \in Nat /\ BlockSize >= 2 /\ chunk \in Chunks(b)
    BY <1>t, <2>2, ChunksFacts, AllocNbAssumption DEF TypeOK, BlockSize, Null
  <2>4. stores # StoresLeft[5] => Hidden = {b} /\ b \notin Visible
    BY <2>2, <2>3 DEF Hidden, Visible, Null
  <2>5. k < 5 => k + 1 \in 1 .. 5
    OBVIOUS
  <2> HIDE DEF b
  <2>7. CASE k \in 1 .. 3
    <3>1. /\ stores # StoresLeft[5] /\ stores' # StoresLeft[5] /\ mpc' = "store"
          /\ stores' = StoresLeft[k + 1] /\ k + 1 \in 1 .. 5
      BY <2>1, <2>5, <2>7, StoresLeftFacts
    <3>2. Hidden' = Hidden /\ Visible' = Visible /\ b \notin Visible
      BY <2>2, <2>4, <3>1 DEF Hidden, Visible, b
    <3>3. b \notin blocks \ Hidden
      BY <2>4, <3>1
    <3>4. /\ blockHead' = blockHead
          /\ \A d \in Blocks : d # b => nextblock'[d] = nextblock[d]
      BY <1>t, <2>1, <2>7 DEF TypeOK, b
    <3>5. VisibleList'
      BY <1>t, <2>2, <3>2, <3>3, <3>4 DEF VisibleList, TypeOK
    <3>6. /\ k + 1 > 1 => rawHead' = b
          /\ k + 1 > 2 => rawEnd' = b + BlockSize
          /\ k + 1 > 3 => nextblock'[b] = oldHead
      <4>1. k = 1 \/ k = 2 \/ k = 3
        BY <2>7
      <4>2. nextblock \in [Blocks -> Blocks \cup {Null}]
        BY <1>t DEF TypeOK
      <4> QED
        BY <2>1, <2>2, <4>1, <4>2 DEF b
    <3>7. SetUp'
      BY <2>2, <3>1, <3>2, <3>6 DEF SetUp, b
    <3>8. RawBlock'
      BY <3>1 DEF RawBlock
    <3> QED
      BY <3>2, <3>5, <3>7, <3>8
  <2>8. CASE k = 4
    <3>1. stores # StoresLeft[5] /\ stores' = StoresLeft[5] /\ mpc' = "store"
      BY <2>1, <2>8, StoresLeftFacts
    <3>2. Hidden = {b} /\ Hidden' = {} /\ Visible' = Visible \cup {b}
      BY <2>2, <2>4, <3>1 DEF Hidden, Visible
    <3>3. blockHead' = b /\ nextblock' = nextblock /\ nextblock[b] = oldHead
          /\ rawHead' = b /\ rawEnd' = b + BlockSize
      BY <2>1, <2>8 DEF b
    <3>4. VisibleList'
      BY <1>t, <2>2, <3>2, <3>3 DEF VisibleList
    <3>5. SetUp'
      BY <2>2, <3>1, <3>2, <3>3 DEF SetUp, b
    <3>6. RawBlock'
      BY <3>1 DEF RawBlock
    <3> QED
      BY <3>2, <3>4, <3>5, <3>6
  <2>9. CASE k = 5
    <3>1. stores = StoresLeft[5] /\ mpc' = "carve"
      BY <2>1, <2>9
    <3>2. Hidden = {} /\ Hidden' = {} /\ Visible' = Visible
      BY <2>2, <3>1 DEF Hidden, Visible
    <3>3. blockHead' = blockHead /\ nextblock' = nextblock
          /\ rawHead' = chunk /\ rawEnd' = b + BlockSize
      BY <2>1, <2>9 DEF b
    <3>4. VisibleList'
      BY <1>t, <2>2, <3>2, <3>3 DEF VisibleList
    <3>5. SetUp'
      BY <3>1 DEF SetUp
    <3>6. RawBlock'
      BY <2>2, <2>3, <3>1, <3>3 DEF RawBlock
    <3> QED
      BY <3>2, <3>4, <3>5, <3>6
  <2> QED
    BY <2>7, <2>8, <2>9
<1>5. CASE Carve
  BY <1>5, <1>t, BlocksKept DEF Carve, pool, RawBlock
<1>6. CASE Bump
  <2>1. /\ mpc = "bump" /\ mpc' = "construct" /\ rawHead' = rawHead + 1
        /\ UNCHANGED <<blocks, blockHead, nextblock, rawEnd>>
    BY <1>6, <1>t DEF Bump, RawBlock
  <2>2. Hidden' = Hidden /\ Visible' = Visible
    BY <2>1 DEF Hidden, Visible
  <2>3. RawBlock'
    <3>1. PICK b \in blocks : rawHead \in Chunks(b) /\ rawEnd = b + BlockSize
      BY <1>t, <2>1 DEF RawBlock
    <3>2. rawHead + 1 \in Chunks(b) \/ rawHead + 1 = rawEnd
      BY <1>t, <3>1, ChunksFacts DEF TypeOK
    <3> QED
      BY <2>1, <3>1, <3>2 DEF RawBlock
  <2> QED
    BY <1>t, <2>1, <2>2, <2>3 DEF VisibleList, SetUp
<1>7. CASE Construct \/ ConstructThrows \/ FirstReference \/ LockToRelease \/ Push \/ ResetPointer
  <2>1. CASE Construct \/ ConstructThrows \/ FirstReference
    BY <2>1, BlocksKept DEF Construct, ConstructThrows, FirstReference, pool
  <2>2. CASE LockToRelease \/ Push \/ ResetPointer
    BY <2>2, BlocksKept DEF LockToRelease, Push, ResetPointer, pool, memory
  <2> QED
    BY <1>7, <2>1, <2>2
<1>8. CASE \E c \in AllChunks : \/ CopyReference(c) \/ CopyOverflows(c)
                                 \/ ClearCopies(c) \/ DropReference(c) \/ Destruct(c)
  <2>1. CASE \E c \in AllChunks : CopyReference(c) \/ ClearCopies(c) \/ DropReference(c)
    BY <2>1, BlocksKept DEF CopyReference, ClearCopies, DropReference, Unwound, pool, mutator
  <2>2. CASE \E c \in AllChunks : CopyOverflows(c) \/ Destruct(c)
    BY <2>2, BlocksKept DEF CopyOverflows, Destruct, pool
  <2> QED
    BY <1>8, <2>1, <2>2
<1>9. CASE DestructAll
  BY <1>9 DEF DestructAll, VisibleList, SetUp, RawBlock, Visible
<1>10. CASE Collect \/ StopCollect
  <2>1. /\ UNCHANGED <<blocks, blockHead, nextblock, rawHead, rawEnd>>
        /\ UNCHANGED <<mpc, chunk, stores, oldHead>>
    BY <1>10 DEF Collect, StartCollect, FirstChunk, NextBlock, ReadRawHead, ReadRawEnd,
       TestChunk, CollectChunk, EndCollect, Splice, StopCollect, pool, memory, mutator
  <2> QED
    BY <1>t, <2>1, BlocksKept DEF RawBlock
<1>11. CASE UNCHANGED vars
  BY <1>11, <1>t, BlocksKept DEF vars, pool, memory, mutator, RawBlock
<1> QED
  BY <1>1, <1>2, <1>3, <1>4, <1>5, <1>6, <1>7, <1>8, <1>9, <1>10, <1>11 DEF Next, Mutate

-----------------------------------------------------------------------------
(* The owners of the chunks *)

\* The raw chunks, whatever step of the allocation is being done.
LEMMA RawMeaning ==
  RawBlock => Raw = IF mpc = "store" THEN Chunks(chunk - 1) ELSE Above(rawHead, rawEnd)
<1> SUFFICES ASSUME RawBlock
             PROVE  Raw = IF mpc = "store" THEN Chunks(chunk - 1) ELSE Above(rawHead, rawEnd)
  OBVIOUS
<1>1. CASE mpc = "store"
  BY <1>1 DEF Raw
<1>2. CASE mpc \in {"carve", "bump"}
  BY <1>2 DEF Raw, RawBlock, Above
<1>3. CASE mpc \notin {"store", "carve", "bump"}
  BY <1>3 DEF Raw, Above, InRawBlock
<1> QED
  BY <1>1, <1>2, <1>3

\* A chunk becomes raw when its block is given and stops being so when it is
\* allocated; the stores of the set-up do not change what is raw.
LEMMA RawStep ==
  ASSUME IInv, [Next]_vars
  PROVE  /\ \A b \in Blocks : Grow(b) => Raw = {} /\ Raw' = Chunks(b)
         /\ Bump => chunk \in Raw /\ Raw' = Raw \ {chunk}
         /\ DestructAll => Raw' = {}
         /\ \/ Raw' = Raw \/ Bump \/ DestructAll
            \/ \E b \in Blocks : Grow(b)
<1>t. TypeOK /\ RawBlock /\ SetUp
  BY DEF IInv
<1>r. Raw = IF mpc = "store" THEN Chunks(chunk - 1) ELSE Above(rawHead, rawEnd)
  BY <1>t, RawMeaning
<1>n. Raw' = IF mpc' = "store" THEN Chunks(chunk' - 1) ELSE Above(rawHead', rawEnd')
  <2>1. (RawBlock => Raw = IF mpc = "store" THEN Chunks(chunk - 1)
                           ELSE Above(rawHead, rawEnd))'
    BY RawMeaning, PTL
  <2>2. RawBlock'
    BY BlocksStep
  <2> QED
    BY <2>1, <2>2 DEF Above
<1>1. ASSUME NEW b \in Blocks, Grow(b) PROVE Raw = {} /\ Raw' = Chunks(b)
  <2>1. mpc = "grow" /\ mpc' = "store" /\ chunk' = b + 1 /\ rawHead = rawEnd
    BY <1>1, <1>t DEF Grow, RawBlock
  <2>2. chunk' - 1 = b
    BY <2>1, ChunksFacts
  <2> QED
    <3>1. Raw' = Chunks(b)
      BY <1>n, <2>1, <2>2
    <3>2. Above(rawHead, rawHead) = {}
      BY <1>t, AboveFacts DEF TypeOK
    <3> QED
      BY <1>r, <2>1, <3>1, <3>2
<1>2. ASSUME Bump PROVE chunk \in Raw /\ Raw' = Raw \ {chunk}
  <2>1. /\ mpc = "bump" /\ mpc' = "construct" /\ rawHead' = chunk + 1 /\ rawEnd' = rawEnd
        /\ rawHead = chunk /\ rawHead # rawEnd
    BY <1>2, <1>t DEF Bump, RawBlock
  <2>2. PICK b \in blocks : chunk \in Chunks(b) /\ rawEnd = b + BlockSize
    BY <1>t, <2>1 DEF RawBlock
  <2>3. b \in Blocks
    BY <1>t DEF TypeOK
  <2> QED
    BY <1>r, <1>n, <2>1, <2>2, <2>3, AboveFacts
<1>3. ASSUME DestructAll PROVE Raw' = {}
  <2>1. mpc' = "done" /\ rawHead' = 0 /\ rawEnd' = 0
    BY <1>3 DEF DestructAll, Null
  <2> QED
    BY <1>n, <2>1, AboveFacts
<1>4. ASSUME Store PROVE Raw' = Raw
  <2>1. PICK k \in 1 .. 5 :
           /\ k > 2 => rawEnd = chunk - 1 + BlockSize
           /\ k = 5 => rawHead' = chunk /\ rawEnd' = rawEnd
           /\ k < 5 => mpc' = "store"
           /\ k = 5 => mpc' = "carve"
    BY <1>4, StoreCases
  <2>2. mpc = "store" /\ chunk' = chunk /\ chunk - 1 \in Blocks
    BY <1>4, <1>t DEF Store, SetUp, TypeOK
  <2>3. CASE k < 5
    BY <1>r, <1>n, <2>1, <2>2, <2>3
  <2>4. CASE k = 5
    <3> DEFINE b == chunk - 1
    <3>1. b \in Blocks /\ chunk = b + 1
      BY <1>t, <2>2, ChunksFacts DEF TypeOK, Null
    <3> HIDE DEF b
    <3>2. rawHead' = b + 1 /\ rawEnd' = b + BlockSize
      BY <2>1, <2>4, <3>1 DEF b
    <3>3. Raw = Chunks(b) /\ Raw' = Above(b + 1, b + BlockSize)
      BY <1>r, <1>n, <2>1, <2>2, <2>4, <3>2 DEF b
    <3> QED
      BY <3>1, <3>3, AboveFacts
  <2> QED
    BY <2>3, <2>4
<1>5. ASSUME \/ LockToAllocate \/ Protect \/ Unlink \/ NoFreeChunk \/ BadAlloc \/ Carve
             \/ Construct \/ ConstructThrows \/ FirstReference
      PROVE  Raw' = Raw
  <2>1. /\ UNCHANGED <<rawHead, rawEnd>> /\ mpc # "store" /\ mpc' # "store"
    BY <1>5 DEF LockToAllocate, Protect, Unlink, NoFreeChunk, BadAlloc, Carve, Construct,
       ConstructThrows, FirstReference, pool
  <2> QED
    BY <1>r, <1>n, <2>1
<1>6. ASSUME \/ \E c \in AllChunks : \/ CopyReference(c) \/ CopyOverflows(c)
                                        \/ ClearCopies(c) \/ DropReference(c)
                                        \/ Destruct(c)
             \/ LockToRelease \/ Push \/ ResetPointer
      PROVE  Raw' = Raw
  <2>1. UNCHANGED <<rawHead, rawEnd>> /\ mpc # "store" /\ mpc' # "store"
    BY <1>6 DEF CopyReference, CopyOverflows, ClearCopies, Unwound, DropReference, Destruct,
       LockToRelease, Push, ResetPointer, pool, mutator
  <2> QED
    BY <1>r, <1>n, <2>1
<1>7. ASSUME Collect \/ StopCollect \/ UNCHANGED vars PROVE Raw' = Raw
  <2>1. UNCHANGED <<rawHead, rawEnd, mpc, chunk>>
    BY <1>7 DEF Collect, StartCollect, FirstChunk, NextBlock, ReadRawHead, ReadRawEnd,
       TestChunk, CollectChunk, EndCollect, Splice, StopCollect, pool, mutator, vars
  <2> QED
    BY <1>r, <1>n, <2>1
<1> QED
  BY <1>1, <1>2, <1>3, <1>4, <1>5, <1>6, <1>7 DEF Next, Mutate

\* The owners do not change.
LEMMA OwnedKept ==
  ASSUME Owned, UNCHANGED <<blocks, free, collected, object, Raw, InHand>>
  PROVE  Owned'
BY DEF Owned, Allotted

\* When no operation is under way and nothing is being collected, the counters
\* tell the objects.
LEMMA ConstructedIsObject ==
  ASSUME IInv, mpc \in {"idle", "thrown"}, cpc # "collect"
  PROVE  Constructed = object
<1>1. Raw = {c \in AllChunks : InRawBlock(c)} /\ InHand = {}
  BY DEF Raw, InHand
<1>2. Constructed = {c \in Allotted : ~ InRawBlock(c) /\ refcount[c] \in 0 .. RefcountMax}
  BY DEF Constructed, Allotted
<1>3. ASSUME NEW c \in object PROVE c \in Constructed
  <2>1. c \in Allotted /\ c \in AllChunks /\ ~ InRawBlock(c)
    BY <1>1 DEF IInv, Owned, TypeOK
  <2>2. /\ refs[c] \in 0 .. RefcountMax - 1
        /\ refcount[c] \in {refs[c], refs[c] + 1} \/ refcount[c] \in 0 .. RefcountMax
    BY DEF IInv, Counters, Working, TypeOK
  <2>3. refcount[c] \in 0 .. RefcountMax
    BY <2>2, CountFacts
  <2> QED
    BY <1>2, <2>1, <2>3
<1>4. ASSUME NEW c \in Constructed PROVE c \in object
  <2>1. c \in Allotted /\ c \in AllChunks /\ ~ InRawBlock(c) /\ refcount[c] \in 0 .. RefcountMax
    BY <1>2, AllottedType DEF IInv
  <2>2. c \notin Raw
    BY <1>1, <2>1
  <2>3. c \notin Elements(free) \cup Elements(collected)
    BY <2>1, CountFacts DEF IInv, Counters
  <2> QED
    BY <1>1, <2>1, <2>2, <2>3 DEF IInv, Owned
<1> QED
  BY <1>3, <1>4

\* A chunk goes from one owner to the next one.
LEMMA OwnedStep ==
  ASSUME IInv, [Next]_vars
  PROVE  Owned'
<1>t. TypeOK /\ Owned /\ Working /\ Visiting
  BY DEF IInv
<1>f. free \in Seq(AllChunks) /\ collected \in Seq(AllChunks)
  BY <1>t DEF TypeOK
<1>a. blocks' = blocks => Allotted' = Allotted
  BY DEF Allotted
<1>1. CASE LockToAllocate \/ Protect \/ NoFreeChunk \/ BadAlloc \/ Store \/ Carve
  <2>1. UNCHANGED <<blocks, free, collected, object>> /\ InHand = {} /\ InHand' = {}
    BY <1>1 DEF LockToAllocate, Protect, NoFreeChunk, BadAlloc, Store, Carve, InHand, pool,
       memory, gc
  <2>2. Raw' = Raw
    <3>1. ~ Bump /\ ~ DestructAll /\ ~ \E b \in Blocks : Grow(b)
      BY <1>1 DEF LockToAllocate, Protect, NoFreeChunk, BadAlloc, Store, Carve, Bump,
         DestructAll, Grow
    <3> QED
      BY <3>1, RawStep
  <2> QED
    BY <1>t, <2>1, <2>2, OwnedKept
<1>2. CASE Unlink
  <2>1. /\ free # <<>> /\ chunk = Head(free) /\ free' = Tail(free)
        /\ UNCHANGED <<blocks, collected, object>> /\ InHand = {} /\ InHand' = {chunk}
    BY <1>2, <1>t DEF Unlink, Working, InHand, pool, memory, gc
  <2>2. NoRepeat(free') /\ Elements(free') = Elements(free) \ {chunk} /\ chunk \in Elements(free)
    BY <1>t, <1>f, <2>1, TailFacts DEF Owned
  <2>3. Raw' = Raw
    BY <1>2, RawStep DEF Unlink, Bump, DestructAll, Grow
  <2> QED
    BY <1>t, <1>a, <2>1, <2>2, <2>3 DEF Owned
<1>3. ASSUME NEW b \in Blocks, Grow(b) PROVE Owned'
  <2>1. /\ blocks' = blocks \cup {b} /\ b \notin blocks
        /\ UNCHANGED <<free, collected, object>> /\ InHand = {} /\ InHand' = {}
    BY <1>3 DEF Grow, InHand, memory, gc
  <2>2. Raw = {} /\ Raw' = Chunks(b)
    BY <1>3, RawStep
  <2>3. Allotted' = Allotted \cup Chunks(b)
    BY <2>1 DEF Allotted
  <2>4. Allotted \cap Chunks(b) = {}
    <3>1. \A a \in blocks : a \in Blocks /\ a # b
      BY <1>t, <2>1 DEF TypeOK
    <3> QED
      BY <3>1, ChunksDisjoint DEF Allotted
  <2> QED
    BY <1>t, <2>1, <2>2, <2>3, <2>4 DEF Owned
<1>4. CASE Bump
  <2>1. UNCHANGED <<blocks, free, collected, object>> /\ InHand = {} /\ InHand' = {chunk}
    BY <1>4 DEF Bump, InHand, gc
  <2>2. chunk \in Raw /\ Raw' = Raw \ {chunk}
    BY <1>4, RawStep
  <2> QED
    BY <1>t, <1>a, <2>1, <2>2 DEF Owned
<1>5. CASE Construct
  <2>1. /\ UNCHANGED <<blocks, free, collected>> /\ object' = object \cup {chunk}
        /\ InHand = {chunk} /\ InHand' = {}
    BY <1>5 DEF Construct, InHand, pool, gc
  <2>2. Raw' = Raw
    BY <1>5, RawStep DEF Construct, Bump, DestructAll, Grow
  <2> QED
    BY <1>t, <1>a, <2>1, <2>2 DEF Owned
<1>6. CASE ConstructThrows \/ FirstReference \/ LockToRelease \/ ResetPointer
  <2>1. UNCHANGED <<blocks, free, collected, object>> /\ InHand' = InHand
    BY <1>6 DEF ConstructThrows, FirstReference, LockToRelease, ResetPointer, InHand, pool,
       memory, gc
  <2>2. Raw' = Raw
    BY <1>6, RawStep DEF ConstructThrows, FirstReference, LockToRelease, ResetPointer, Bump,
       DestructAll, Grow
  <2> QED
    BY <1>t, <2>1, <2>2, OwnedKept
<1>7. ASSUME NEW c \in AllChunks,
             CopyReference(c) \/ CopyOverflows(c) \/ ClearCopies(c) \/ DropReference(c)
      PROVE  Owned'
  <2>1. UNCHANGED <<blocks, free, collected, object>> /\ InHand' = InHand
    BY <1>7 DEF CopyReference, CopyOverflows, ClearCopies, DropReference, InHand, pool,
       mutator, gc
  <2>2. Raw' = Raw
    <3>1. mpc \in {"idle", "thrown"} /\ mpc' \in {"idle", "thrown"}
      BY <1>7 DEF CopyReference, CopyOverflows, ClearCopies, Unwound, DropReference, mutator
    <3> QED
      BY <3>1, RawStep DEF Bump, DestructAll, Grow
  <2> QED
    BY <1>t, <2>1, <2>2, OwnedKept
<1>8. ASSUME NEW c \in AllChunks, Destruct(c) PROVE Owned'
  <2>1. /\ UNCHANGED <<blocks, free, collected>> /\ object' = object \ {c}
        /\ InHand = {} /\ InHand' = {c}
    BY <1>8 DEF Destruct, InHand, pool, gc
  <2>2. c \in object
    BY <1>8, IdleReferenced DEF Destruct
  <2>3. Raw' = Raw
    BY <1>8, RawStep DEF Destruct, Bump, DestructAll, Grow
  <2> QED
    BY <1>t, <1>a, <2>1, <2>2, <2>3 DEF Owned
<1>9. CASE Push
  <2>1. /\ UNCHANGED <<blocks, collected, object>> /\ free' = <<chunk>> \o free
        /\ InHand = {chunk} /\ InHand' = {}
    BY <1>9 DEF Push, InHand, pool, memory, gc
  <2>2. chunk \in AllChunks /\ chunk \notin Elements(free)
    BY <1>9, <1>t, <2>1, AllottedType DEF Push, Working, Owned
  <2>3. NoRepeat(free') /\ Elements(free') = Elements(free) \cup {chunk}
    BY <1>t, <1>f, <2>1, <2>2, PushFacts DEF Owned
  <2>4. Raw' = Raw
    BY <1>9, RawStep DEF Push, Bump, DestructAll, Grow
  <2> QED
    BY <1>t, <1>a, <2>1, <2>2, <2>3, <2>4 DEF Owned
<1>10. CASE DestructAll
  <2>1. /\ blocks' = {} /\ free' = <<>> /\ object' = object \ Constructed
        /\ collected' = collected /\ collected = <<>>
        /\ InHand' = {} /\ mpc \in {"idle", "thrown"} /\ cpc = "stopped"
    BY <1>10, <1>t DEF DestructAll, Visiting, InHand, gc
  <2>2. object' = {}
    BY <2>1, ConstructedIsObject
  <2>3. Raw' = {}
    BY <1>10, RawStep
  <2>4. Allotted' = {}
    BY <2>1 DEF Allotted
  <2> QED
    BY <2>1, <2>2, <2>3, <2>4, EmptyFacts DEF Owned
<1>11. CASE CollectChunk
  <2>1. /\ UNCHANGED <<blocks, free>> /\ object' = object \ {cchunk}
        /\ collected' = <<cchunk>> \o collected /\ InHand' = InHand
        /\ cchunk \in object /\ cchunk \in AllChunks
    BY <1>11, <1>t DEF CollectChunk, Visiting, InHand, pool, mutator, TypeOK
  <2>2. cchunk \notin Elements(collected) /\ cchunk \notin Elements(free)
    BY <1>t, <2>1 DEF Owned
  <2>3. NoRepeat(collected') /\ Elements(collected') = Elements(collected) \cup {cchunk}
    BY <1>t, <1>f, <2>1, <2>2, PushFacts DEF Owned
  <2>4. Raw' = Raw
    BY <1>11, RawStep DEF CollectChunk, Bump, DestructAll, Grow, gc, pool, mutator
  <2> QED
    BY <1>t, <1>a, <2>1, <2>2, <2>3, <2>4 DEF Owned
<1>12. CASE Splice
  <2>1. /\ UNCHANGED <<blocks, object>> /\ free' = collected \o free
        /\ collected' = <<>> /\ InHand' = InHand
    BY <1>12 DEF Splice, InHand, pool, memory, mutator
  <2>2. NoRepeat(free') /\ Elements(free') = Elements(collected) \cup Elements(free)
    BY <1>t, <1>f, <2>1, ConcatFacts DEF Owned
  <2>3. Raw' = Raw
    BY <1>12, RawStep DEF Splice, Bump, DestructAll, Grow, gc, pool, mutator
  <2> QED
    BY <1>t, <1>a, <2>1, <2>2, <2>3, EmptyFacts DEF Owned
<1>13. CASE \/ StartCollect \/ StopCollect \/ FirstChunk \/ NextBlock
            \/ ReadRawHead \/ ReadRawEnd \/ TestChunk \/ EndCollect \/ UNCHANGED vars
  <2>1. UNCHANGED <<blocks, free, object, mpc, chunk>>
    BY <1>13 DEF StartCollect, StopCollect, FirstChunk, NextBlock, ReadRawHead, ReadRawEnd,
       TestChunk, EndCollect, vars, pool, memory, mutator
  <2>2. collected' = collected
    BY <1>13, <1>t DEF StartCollect, StopCollect, FirstChunk, NextBlock, ReadRawHead,
       ReadRawEnd, TestChunk, EndCollect, vars, gc, Visiting
  <2>3. Raw' = Raw /\ InHand' = InHand
    <3>1. mpc' = mpc /\ blocks' = blocks
      BY <2>1
    <3>2. ~ Bump /\ ~ DestructAll /\ ~ \E b \in Blocks : Grow(b)
      BY <3>1 DEF Bump, DestructAll, Grow
    <3> QED
      BY <2>1, <3>2, RawStep DEF InHand
  <2> QED
    BY <1>t, <2>1, <2>2, <2>3, OwnedKept
<1> QED
  BY <1>1, <1>2, <1>3, <1>4, <1>5, <1>6, <1>7, <1>8, <1>9, <1>10, <1>11, <1>12, <1>13
     DEF Next, Mutate, Collect

-----------------------------------------------------------------------------
(* The counters *)

\* The chunk that is being carved is raw, the one that is popped is free.
LEMMA AllocatedFrom ==
  ASSUME IInv
  PROVE  /\ mpc \in {"carve", "bump"} => chunk \in Raw
         /\ mpc = "pop" /\ free # <<>> => Head(free) \in Elements(free)
         /\ mpc = "unlink" => chunk \in Elements(free)
<1>1. ASSUME mpc \in {"carve", "bump"} PROVE chunk \in Raw
  <2>1. mpc # "store" /\ rawHead = chunk /\ rawHead # rawEnd /\ RawBlock
    BY <1>1 DEF IInv, RawBlock
  <2>2. PICK b \in blocks : chunk \in Chunks(b) /\ rawEnd = b + BlockSize
    BY <2>1 DEF RawBlock
  <2>3. b \in Blocks /\ Raw = Above(chunk, b + BlockSize)
    BY <2>1, <2>2, RawMeaning DEF IInv, TypeOK
  <2> QED
    BY <2>2, <2>3, AboveFacts
<1>2. free # <<>> => Head(free) \in Elements(free)
  BY TailFacts DEF IInv, TypeOK
<1> QED
  BY <1>1, <1>2 DEF IInv, Working

\* A chunk that the mutator works on has a counter the collector leaves alone.
LEMMA Protected ==
  ASSUME IInv
  PROVE  /\ \/ mpc \in {"unlink", "bump", "construct", "reference", "release", "push", "reset"}
            \/ mpc = "thrown" /\ ~ Unwound
            => refcount[chunk] # COLLECTABLE_CHUNK
         /\ mpc \in {"reference", "thrown"} => ~ (cpc = "collect" /\ cchunk = chunk)
<1>1. mpc = "thrown" /\ ~ Unwound =>
        refcount[chunk] = refs[chunk] + 1 /\ refs[chunk] \in 0 .. RefcountMax - 1
  BY DEF IInv, Working, TypeOK
<1>2. cpc = "collect" => ~ Unwound
  BY DEF Unwound
<1> QED
  BY <1>1, <1>2, CountFacts DEF IInv, Working, Visiting

\* A chunk that the collector is about to test holds an object if nothing
\* references it.
LEMMA GarbageIsObject ==
  ASSUME IInv, cpc = "test", refcount[cchunk] = COLLECTABLE_CHUNK
  PROVE  /\ cchunk \in object /\ cchunk \in AllChunks /\ refs[cchunk] = 0
         /\ cchunk \notin Elements(free) \cup Elements(collected) \cup InHand
<1>1. cchunk \in Chunks(block) /\ cchunk \notin Raw /\ block \in blocks
  BY AllottedType DEF IInv, Visiting
<1>2. cchunk \in Allotted /\ cchunk \in AllChunks
  BY <1>1, AllottedType DEF IInv
<1>3. cchunk \notin Elements(free) \cup Elements(collected)
  BY CountFacts DEF IInv, Counters
<1>4. cchunk \notin InHand
  BY Protected DEF InHand
<1>5. cchunk \in object
  BY <1>1, <1>2, <1>3, <1>4 DEF IInv, Owned
<1>6. ~ (mpc \in {"reference", "thrown"} /\ cchunk = chunk)
  BY Protected DEF Unwound
<1>7. refcount[cchunk] = refs[cchunk]
  BY <1>5, <1>6 DEF IInv, Counters, Unwound
<1> QED
  BY <1>2, <1>3, <1>4, <1>5, <1>7, CountFacts

\* The counters count the pointers at every step of both threads.
LEMMA CountersStep ==
  ASSUME IInv, [Next]_vars
  PROVE  Counters'
<1>t. TypeOK /\ Owned /\ Working /\ Visiting /\ Counters
  BY DEF IInv
<1>f. /\ free \in Seq(AllChunks) /\ collected \in Seq(AllChunks) /\ object \subseteq AllChunks
      /\ Elements(free) \subseteq AllChunks /\ Elements(collected) \subseteq AllChunks
      /\ refcount \in [AllChunks -> 0 .. FREE_CHUNK]
      /\ refs \in [AllChunks -> 0 .. RefcountMax - 1]
  BY <1>t, AllottedType DEF TypeOK
<1>c. mpc \notin {"idle", "pop", "grow", "done"} => chunk \in AllChunks
  BY <1>t, AllottedType DEF Working
<1>u. mpc # "thrown" /\ mpc' # "thrown" => ~ Unwound /\ ~ Unwound'
  BY DEF Unwound
<1>v. cpc # "stopped" /\ cpc' # "stopped" => ~ Unwound /\ ~ Unwound'
  BY DEF Unwound
<1>1. CASE \/ LockToAllocate \/ NoFreeChunk \/ BadAlloc \/ Store \/ Bump \/ LockToRelease
           \/ \E b \in Blocks : Grow(b)
  <2>1. /\ UNCHANGED <<free, collected, object, refcount, refs, cpc, cchunk>>
        /\ mpc \notin {"reference", "thrown"} /\ mpc' # "thrown" /\ Resetting' = Resetting
    BY <1>1 DEF LockToAllocate, NoFreeChunk, BadAlloc, Store, Bump, LockToRelease, Grow,
       Resetting, memory, gc
  <2> QED
    BY <1>t, <1>u, <2>1 DEF Counters
<1>2. CASE Protect
  <2>1. /\ UNCHANGED <<free, collected, object, refs, cpc, cchunk>>
        /\ refcount' = [refcount EXCEPT ![Head(free)] = ALLOCATED_CHUNK]
        /\ mpc \notin {"reference", "thrown"} /\ mpc' # "thrown" /\ Resetting' = Resetting
    BY <1>2 DEF Protect, Resetting, gc
  <2>2. Head(free) \in Elements(free) /\ Head(free) \notin object
    BY <1>2, <1>t, AllocatedFrom DEF Protect, Owned
  <2>3. \A c \in AllChunks : IF c = Head(free) THEN refcount'[c] = ALLOCATED_CHUNK
                             ELSE refcount'[c] = refcount[c]
    BY <1>f, <2>1
  <2> QED
    BY <1>t, <1>f, <1>u, <2>1, <2>2, <2>3 DEF Counters
<1>3. CASE Unlink
  <2>1. /\ UNCHANGED <<collected, object, refcount, refs, cpc, cchunk>>
        /\ free' = Tail(free) /\ free # <<>>
        /\ mpc \notin {"reference", "thrown"} /\ mpc' # "thrown" /\ Resetting' = Resetting
    BY <1>3, <1>t DEF Unlink, Working, Resetting, memory, gc
  <2>2. Elements(free') \subseteq Elements(free)
    BY <1>t, <1>f, <2>1, TailFacts DEF Owned
  <2> QED
    BY <1>t, <1>u, <2>1, <2>2 DEF Counters
<1>4. CASE Carve
  <2>1. /\ UNCHANGED <<free, collected, object, refs, cpc, cchunk>>
        /\ refcount' = [refcount EXCEPT ![chunk] = ALLOCATED_CHUNK]
        /\ mpc \notin {"reference", "thrown"} /\ mpc' # "thrown" /\ Resetting' = Resetting
    BY <1>4 DEF Carve, Resetting, gc
  <2>2. chunk \notin object \cup Elements(free) \cup Elements(collected)
    BY <1>4, <1>t, AllocatedFrom DEF Carve, Owned
  <2>3. \A c \in AllChunks : c # chunk => refcount'[c] = refcount[c]
    BY <1>f, <2>1
  <2> QED
    BY <1>t, <1>f, <1>u, <2>1, <2>2, <2>3 DEF Counters
<1>5. CASE Construct \/ ConstructThrows
  <2>1. /\ UNCHANGED <<free, collected, refs, cpc, cchunk, chunk>>
        /\ \E v : refcount' = [refcount EXCEPT ![chunk] = v]
        /\ mpc = "construct" /\ mpc' \in {"reference", "release"} /\ Resetting = {}
        /\ \/ object' = object
           \/ object' = object \cup {chunk} /\ mpc' = "reference"
    BY <1>5 DEF Construct, ConstructThrows, Resetting, gc
  <2>2. chunk \notin object \cup Elements(free) \cup Elements(collected)
    BY <1>t, <2>1 DEF InHand, Owned
  <2>3. \A c \in AllChunks : c # chunk => refcount'[c] = refcount[c]
    BY <1>f, <2>1
  <2>4. /\ \A c \in object : c # chunk /\ refcount'[c] = refcount[c]
        /\ \A c \in Elements(free) \cup Elements(collected) : refcount'[c] = refcount[c]
    BY <1>f, <2>2, <2>3
  <2> QED
    BY <1>t, <1>u, <2>1, <2>4 DEF Counters
<1>6. CASE FirstReference
  <2>1. /\ UNCHANGED <<free, collected, object, cpc, cchunk>>
        /\ refcount[chunk] = RefcountMax /\ refs[chunk] = 0 /\ chunk \in object
        /\ mpc = "reference" /\ mpc' = "idle" /\ Resetting = {} /\ Resetting' = {}
    BY <1>6, <1>t DEF FirstReference, Working, Resetting, gc
  <2>2. /\ refcount' = [refcount EXCEPT ![chunk] = 1]
        /\ refs' = [refs EXCEPT ![chunk] = 1]
    BY <1>6, <2>1 DEF FirstReference, Taken
  <2>3. /\ \A c \in AllChunks : c # chunk => refcount'[c] = refcount[c] /\ refs'[c] = refs[c]
        /\ refcount'[chunk] = refs'[chunk]
    BY <1>f, <2>1, <2>2
  <2>4. chunk \notin Elements(free) \cup Elements(collected)
    BY <1>t, <2>1 DEF Owned
  <2> QED
    BY <1>t, <1>f, <1>u, <2>1, <2>3, <2>4 DEF Counters
<1>7. ASSUME NEW k \in AllChunks,
             CopyReference(k) \/ CopyOverflows(k) \/ ClearCopies(k) \/ DropReference(k)
      PROVE  Counters'
  <2>1. /\ UNCHANGED <<free, collected, object, cpc, cchunk>> /\ refs[k] > 0
        /\ mpc \in {"idle", "thrown"} /\ Resetting = {} /\ Resetting' = {}
    BY <1>7 DEF CopyReference, CopyOverflows, ClearCopies, Unwound, DropReference, Resetting,
       mutator, gc
  <2>2. k \in object /\ k \notin Elements(free) \cup Elements(collected)
        /\ refcount[k] \in 0 .. RefcountMax
    BY <1>t, <2>1, IdleReferenced DEF Owned
  <2>3. \A c \in AllChunks : c # k => refcount'[c] = refcount[c] /\ refs'[c] = refs[c]
    BY <1>7, <1>f DEF CopyReference, CopyOverflows, ClearCopies, DropReference
  <2>4. \A c \in object : \/ refcount'[c] = refs'[c]
                          \/ mpc' = "thrown" /\ c = chunk'
                          \/ cpc = "collect" /\ c = cchunk
                          \/ Unwound'
    <3>1. CASE CopyReference(k)
      <4>1. refcount'[k] = refs'[k] /\ mpc = "idle" /\ mpc' = "idle"
        BY <1>f, <2>1, <3>1, CopyCounts DEF CopyReference, mutator
      <4> QED
        BY <1>t, <1>f, <1>u, <2>3, <4>1 DEF Counters
    <3>2. CASE CopyOverflows(k)
      <4>1. mpc = "idle" /\ mpc' = "thrown" /\ chunk' = k /\ ~ Unwound
        BY <3>2 DEF CopyOverflows, Unwound
      <4> QED
        BY <1>t, <1>f, <2>3, <4>1 DEF Counters
    <3>3. CASE ClearCopies(k)
      BY <2>1, <3>3 DEF ClearCopies, Unwound, mutator
    <3>4. CASE DropReference(k)
      <4>1. mpc' = mpc /\ chunk' = chunk /\ Unwound' = Unwound
        BY <2>1, <3>4 DEF DropReference, Unwound, mutator
      <4>2. ~ Unwound /\ k \notin Overflown => refcount[k] = refs[k]
        BY <1>f, <2>1, IdleReferenced
      <4>3. ~ Unwound /\ k \notin Overflown => refcount'[k] = refs'[k]
        BY <1>f, <3>4, <4>2 DEF DropReference
      <4> QED
        BY <1>t, <1>f, <2>1, <2>3, <4>1, <4>3 DEF Counters, Overflown
    <3> QED
      BY <1>7, <3>1, <3>2, <3>3, <3>4
  <2>5. ASSUME Unwound', NEW c \in object PROVE refcount'[c] \in 0 .. RefcountMax
    <3>1. CASE CopyReference(k)
      BY <2>5, <3>1 DEF CopyReference, Unwound, mutator
    <3>2. CASE CopyOverflows(k)
      <4>1. ~ Unwound /\ cpc = "stopped" /\ mpc = "idle"
        BY <2>1, <2>5, <3>2 DEF CopyOverflows, Unwound
      <4>2. refcount[c] = refs[c] /\ refs[c] \in 0 .. RefcountMax - 1
        BY <1>t, <1>f, <4>1 DEF Counters
      <4>3. refcount'[k] = RefcountMax
        BY <1>f, <3>2 DEF CopyOverflows
      <4> QED
        BY <1>f, <2>3, <4>2, <4>3, CountFacts
    <3>3. CASE ClearCopies(k)
      <4>1. refcount'[k] \in 0 .. RefcountMax /\ Unwound
        BY <1>f, <3>3, ClearCounts DEF ClearCopies
      <4> QED
        BY <1>t, <1>f, <2>3, <4>1 DEF Counters
    <3>4. CASE DropReference(k)
      <4>1. refcount'[k] = refcount[k] - 1 /\ refcount[k] > 0 /\ Unwound
        BY <1>f, <2>1, <2>5, <3>4 DEF DropReference, Unwound, mutator
      <4>2. refcount'[k] \in 0 .. RefcountMax
        BY <2>2, <4>1, CountFacts
      <4> QED
        BY <1>t, <1>f, <2>3, <4>1, <4>2 DEF Counters
    <3> QED
      BY <1>7, <3>1, <3>2, <3>3, <3>4
  <2> QED
    BY <1>t, <1>f, <2>1, <2>2, <2>3, <2>4, <2>5 DEF Counters
<1>8. ASSUME NEW k \in AllChunks, Destruct(k) PROVE Counters'
  <2>1. /\ UNCHANGED <<free, collected, refs, cpc, cchunk>> /\ object' = object \ {k}
        /\ refcount' = [refcount EXCEPT ![k] = FREE_CHUNK]
        /\ mpc = "idle" /\ mpc' = "release" /\ refs[k] > 0
        /\ Resetting = {} /\ Resetting' = {k}
    BY <1>8 DEF Destruct, Resetting, gc
  <2>2. k \in object
    BY <2>1, IdleReferenced
  <2>3. \A c \in AllChunks : c # k => refcount'[c] = refcount[c]
    BY <1>f, <2>1
  <2>4. k \notin Elements(free) \cup Elements(collected)
    BY <1>t, <2>2 DEF Owned
  <2> QED
    BY <1>t, <1>f, <1>u, <2>1, <2>3, <2>4 DEF Counters
<1>9. CASE Push
  <2>1. /\ UNCHANGED <<collected, object, refcount, refs, cpc, cchunk>>
        /\ free' = <<chunk>> \o free /\ mpc = "push" /\ mpc' \in {"reset", "idle"}
        /\ Resetting = {chunk} /\ (refs[chunk] > 0 => Resetting' = {chunk})
        /\ chunk \in AllChunks
    BY <1>9, <1>c DEF Push, Resetting, memory, gc
  <2>2. Elements(free') = Elements(free) \cup {chunk} /\ refcount[chunk] = FREE_CHUNK
    BY <1>t, <1>f, <2>1, PushFacts DEF Working
  <2>3. \A c \in AllChunks : refs[c] > 0 => c \in object \cup Resetting'
    BY <1>t, <2>1 DEF Counters
  <2> QED
    BY <1>t, <1>u, <2>1, <2>2, <2>3 DEF Counters
<1>10. CASE ResetPointer
  <2>1. /\ UNCHANGED <<free, collected, object, cpc, cchunk>>
        /\ mpc = "reset" /\ mpc' = "idle" /\ Resetting = {chunk} /\ Resetting' = {}
        /\ chunk \in Elements(free) /\ chunk \notin object
        /\ refcount[chunk] = FREE_CHUNK /\ refs[chunk] = 1
        /\ refcount' = [refcount EXCEPT ![chunk] = @ - 1]
        /\ refs' = [refs EXCEPT ![chunk] = @ - 1]
    BY <1>10, <1>t DEF ResetPointer, Resetting, Working, Owned, gc
  <2>2. /\ \A c \in AllChunks : c # chunk => refcount'[c] = refcount[c] /\ refs'[c] = refs[c]
        /\ refcount'[chunk] = ALLOCATED_CHUNK /\ refs'[chunk] = 0
    BY <1>f, <2>1, CountFacts
  <2> QED
    BY <1>t, <1>f, <1>u, <2>1, <2>2 DEF Counters
<1>11. CASE DestructAll
  <2>1. /\ free' = <<>> /\ collected' = <<>> /\ object' = object \ Constructed
        /\ refs' = [c \in AllChunks |-> 0] /\ mpc' = "done" /\ mpc \in {"idle", "thrown"} /\ cpc = "stopped"
    BY <1>11, <1>t DEF DestructAll, Visiting, gc
  <2>2. object' = {}
    BY <2>1, ConstructedIsObject
  <2> QED
    BY <2>1, <2>2, EmptyFacts DEF Counters, Unwound
<1>12. CASE TestChunk
  <2>1. /\ UNCHANGED <<free, collected, object, refs, mpc, chunk>>
        /\ cpc = "test" /\ Resetting' = Resetting
    BY <1>12 DEF TestChunk, Resetting, mutator
  <2>2. CASE refcount[cchunk] = COLLECTABLE_CHUNK
    <3>1. /\ refcount' = [refcount EXCEPT ![cchunk] = FREE_CHUNK]
          /\ cpc' = "collect" /\ cchunk' = cchunk
      BY <1>12, <2>2 DEF TestChunk
    <3>2. cchunk \notin Elements(free) \cup Elements(collected)
      BY <2>1, <2>2, GarbageIsObject
    <3>3. \A c \in AllChunks : c # cchunk => refcount'[c] = refcount[c]
      BY <1>f, <3>1
    <3> QED
      BY <1>t, <1>f, <1>v, <2>1, <3>1, <3>2, <3>3 DEF Counters
  <2>3. CASE refcount[cchunk] # COLLECTABLE_CHUNK
    BY <1>12, <1>t, <1>v, <2>1, <2>3 DEF TestChunk, Counters
  <2> QED
    BY <2>2, <2>3
<1>13. CASE CollectChunk
  <2>1. /\ UNCHANGED <<free, refcount, refs, mpc, chunk>> /\ object' = object \ {cchunk}
        /\ collected' = <<cchunk>> \o collected /\ cchunk \in object
        /\ refcount[cchunk] = FREE_CHUNK /\ refs[cchunk] = 0 /\ Resetting' = Resetting
        /\ ~ Unwound /\ ~ Unwound'
    BY <1>v, <1>13, <1>t DEF CollectChunk, Visiting, Resetting, mutator
  <2>2. Elements(collected') = Elements(collected) \cup {cchunk}
    BY <1>f, <2>1, PushFacts
  <2>3. ASSUME NEW c \in object'
        PROVE  refcount[c] = refs[c] \/ (mpc \in {"reference", "thrown"} /\ c = chunk)
    BY <1>t, <2>1 DEF Counters
  <2>4. \A c \in AllChunks : refs[c] > 0 => c \in object' \cup Resetting
    BY <1>t, <2>1 DEF Counters
  <2>5. \A c \in Elements(collected') \cup Elements(free) :
          refcount[c] \in {ALLOCATED_CHUNK, FREE_CHUNK}
    BY <1>t, <2>1, <2>2 DEF Counters
  <2> QED
    BY <2>1, <2>3, <2>4, <2>5 DEF Counters
<1>14. CASE Splice
  <2>1. /\ UNCHANGED <<object, refcount, refs, mpc, chunk>> /\ Resetting' = Resetting
        /\ free' = collected \o free /\ collected' = <<>>
        /\ cpc = "splice" /\ cpc' = "start"
    BY <1>14 DEF Splice, Resetting, memory, mutator
  <2>2. /\ Elements(free') = Elements(collected) \cup Elements(free)
        /\ Elements(collected') = {}
    BY <1>f, <2>1, ConcatFacts, EmptyFacts
  <2> QED
    BY <1>t, <1>v, <2>1, <2>2 DEF Counters
<1>15. CASE \/ StartCollect \/ FirstChunk \/ NextBlock
            \/ ReadRawHead \/ ReadRawEnd \/ EndCollect
  <2>1. /\ UNCHANGED <<free, object, refcount, refs, mpc, chunk>> /\ Resetting' = Resetting
        /\ cpc \notin {"collect", "stopped"} /\ cpc' # "stopped"
    BY <1>15 DEF StartCollect, FirstChunk, NextBlock, ReadRawHead, ReadRawEnd,
       EndCollect, Resetting, memory, mutator
  <2>2. collected' = collected
    BY <1>15, <1>t DEF StartCollect, FirstChunk, NextBlock, ReadRawHead,
       ReadRawEnd, EndCollect, Visiting
  <2> QED
    BY <1>t, <1>v, <2>1, <2>2 DEF Counters
<1>16. CASE StopCollect
  <2>1. /\ UNCHANGED <<free, object, refcount, refs, mpc, chunk, collected>>
        /\ Resetting' = Resetting /\ cpc = "start" /\ ~ Unwound
    BY <1>16 DEF StopCollect, Resetting, Unwound, memory, mutator
  <2>2. ASSUME NEW c \in object PROVE refcount[c] = refs[c] \/ (mpc \in {"reference", "thrown"} /\ c = chunk)
    BY <1>t, <2>1 DEF Counters
  <2>3. ASSUME mpc = "thrown", NEW c \in object PROVE refcount[c] \in 0 .. RefcountMax
    <3>1. refs[c] \in 0 .. RefcountMax - 1
      BY <1>f
    <3>2. refcount[c] = refs[c] \/ refcount[c] = refs[c] + 1
      BY <1>t, <2>1, <2>2, <2>3 DEF Working
    <3> QED
      BY <3>1, <3>2, CountFacts
  <2>4. Unwound' => mpc = "thrown"
    BY <2>1 DEF Unwound
  <2> QED
    BY <1>t, <2>1, <2>2, <2>3, <2>4 DEF Counters
<1>17. CASE UNCHANGED vars
  BY <1>17, <1>t DEF vars, memory, mutator, gc, Counters, Resetting, Unwound
<1> QED
  BY <1>1, <1>2, <1>3, <1>4, <1>5, <1>6, <1>7, <1>8, <1>9, <1>10, <1>11, <1>12, <1>13,
     <1>14, <1>15, <1>16, <1>17 DEF Next, Mutate, Collect

-----------------------------------------------------------------------------
(* The chunk the mutator works on *)

\* Where the mutator goes from one step to the next.
LEMMA WorkingStep ==
  ASSUME IInv, [Next]_vars
  PROVE  Working'
<1>t. TypeOK /\ Owned /\ Working /\ Visiting /\ Counters /\ Locked
  BY DEF IInv
<1>f. /\ free \in Seq(AllChunks) /\ collected \in Seq(AllChunks) /\ object \subseteq AllChunks
      /\ refcount \in [AllChunks -> 0 .. FREE_CHUNK]
      /\ refs \in [AllChunks -> 0 .. RefcountMax - 1]
  BY <1>t DEF TypeOK
<1>c. mpc \notin {"idle", "pop", "grow", "done"} => chunk \in AllChunks
  BY <1>t, AllottedType DEF Working
<1>a. blocks' = blocks => Allotted' = Allotted
  BY DEF Allotted
<1>r. \A c \in AllChunks \ (object \cup Resetting) : refs[c] = 0
  BY <1>t, <1>f, CountFacts DEF Counters
<1>1. CASE LockToAllocate \/ BadAlloc
  BY <1>1 DEF LockToAllocate, BadAlloc, Working
<1>2. CASE Protect
  <2>1. Head(free) \in Elements(free) /\ Head(free) \in AllChunks /\ Head(free) \in Allotted
        /\ Head(free) \notin object /\ Resetting = {}
    BY <1>2, <1>t, AllocatedFrom, AllottedType DEF Protect, Owned, Resetting
  <2>2. refs[Head(free)] = 0
    BY <1>r, <2>1
  <2> QED
    BY <1>2, <1>f, <1>a, <2>1, <2>2 DEF Protect, Working, pool, gc
<1>3. CASE Unlink
  BY <1>3, <1>t, <1>a DEF Unlink, Working, pool, memory, gc
<1>4. CASE NoFreeChunk
  <2>1. rawHead # rawEnd => rawHead \in Allotted
    BY <1>4 DEF NoFreeChunk, IInv, RawBlock, Allotted
  <2> QED
    BY <1>4, <1>a, <2>1 DEF NoFreeChunk, Working, pool
<1>5. ASSUME NEW b \in Blocks, Grow(b) PROVE Working'
  <2>1. b + 1 \in Allotted'
    BY <1>5, ChunksFacts DEF Grow, Allotted
  <2> QED
    BY <1>5, <2>1 DEF Grow, Working
<1>6. CASE Store
  <2>1. blocks' = blocks /\ mpc = "store" /\ mpc' \in {"store", "carve"} /\ chunk' = chunk
    BY <1>6 DEF Store
  <2> QED
    BY <1>t, <1>a, <2>1 DEF Working
<1>7. CASE Carve
  <2>1. chunk \notin object /\ chunk \in AllChunks /\ Resetting = {}
    BY <1>7, <1>t, <1>c, AllocatedFrom DEF Carve, Owned, Resetting
  <2>2. refs[chunk] = 0
    BY <1>r, <2>1
  <2> QED
    BY <1>7, <1>t, <1>f, <1>a, <2>1, <2>2 DEF Carve, Working, pool
<1>8. CASE Bump
  BY <1>8, <1>t, <1>a DEF Bump, Working
<1>9. CASE Construct \/ ConstructThrows
  <2>1. /\ blocks' = blocks /\ chunk' = chunk /\ refs' = refs /\ chunk \in AllChunks
        /\ mpc = "construct" /\ mpc' \in {"reference", "release"}
        /\ mpc' = "reference" =>
             /\ object' = object \cup {chunk}
             /\ refcount' = [refcount EXCEPT ![chunk] = RefcountMax]
        /\ mpc' = "release" => refcount' = [refcount EXCEPT ![chunk] = FREE_CHUNK]
    BY <1>9, <1>c DEF Construct, ConstructThrows, pool
  <2> QED
    BY <1>t, <1>f, <1>a, <2>1 DEF Working
<1>10. CASE FirstReference
  BY <1>10 DEF FirstReference, Working
<1>11. ASSUME NEW k \in AllChunks,
              CopyReference(k) \/ CopyOverflows(k) \/ ClearCopies(k) \/ DropReference(k)
       PROVE  Working'
  <2>1. CASE CopyReference(k)
    BY <2>1 DEF CopyReference, Working, mutator
  <2>2. CASE CopyOverflows(k)
    <3>1. k \in object /\ k \in Allotted /\ Taken(k) = refs[k] + 1
      BY <2>2, CopyCounts DEF CopyOverflows
    <3>2. /\ UNCHANGED <<blocks, object, refs>> /\ mpc' = "thrown" /\ chunk' = k
          /\ refcount' = [refcount EXCEPT ![k] = Taken(k)]
      BY <2>2 DEF CopyOverflows, pool
    <3> QED
      BY <1>f, <1>a, <3>1, <3>2 DEF Working
  <2>3. CASE ClearCopies(k)
    <3>1. /\ UNCHANGED <<blocks, object, mpc, chunk>> /\ mpc = "thrown" /\ Unwound'
      BY <2>3 DEF ClearCopies, Unwound, pool, mutator, gc
    <3> QED
      BY <1>t, <1>a, <3>1 DEF Working
  <2>4. CASE DropReference(k)
    <3>1. /\ UNCHANGED <<blocks, object, mpc, chunk>> /\ mpc \in {"idle", "thrown"}
          /\ Unwound' = Unwound
          /\ refcount' = [refcount EXCEPT ![k] = @ - 1]
          /\ refs' = [refs EXCEPT ![k] = @ - 1]
      BY <2>4 DEF DropReference, Unwound, pool, mutator, gc
    <3>2. mpc = "thrown" /\ ~ Unwound => refcount'[chunk] = refs'[chunk] + 1
      BY <1>t, <1>f, <1>c, <3>1 DEF Working
    <3> QED
      BY <1>t, <1>a, <3>1, <3>2 DEF Working
  <2> QED
    BY <1>11, <2>1, <2>2, <2>3, <2>4
<1>12. ASSUME NEW k \in AllChunks, Destruct(k) PROVE Working'
  <2>1. k \in Allotted /\ refs[k] = 1
    BY <1>12, CopyCounts DEF Destruct
  <2> QED
    BY <1>12, <1>f, <1>a, <2>1 DEF Destruct, Working, pool
<1>13. CASE LockToRelease
  BY <1>13, <1>t, <1>a DEF LockToRelease, Working, pool, memory
<1>14. CASE Push
  <2>1. /\ mpc = "push" /\ blocks' = blocks /\ UNCHANGED <<refcount, refs>>
        /\ chunk \in AllChunks /\ refcount[chunk] = FREE_CHUNK
        /\ free' = <<chunk>> \o free
        /\ refs[chunk] \in 0 .. RefcountMax - 1 /\ refs[chunk] <= 1
        /\ \/ refs[chunk] > 0 /\ mpc' = "reset" /\ chunk' = chunk
           \/ mpc' = "idle"
    BY <1>14, <1>t, <1>f, <1>c DEF Push, Working, pool, memory
  <2>2. chunk \in Elements(free')
    BY <1>f, <2>1, PushFacts
  <2>3. refs[chunk] > 0 => refs[chunk] = 1
    BY <2>1, CountFacts
  <2> QED
    BY <1>t, <1>a, <2>1, <2>2, <2>3 DEF Working
<1>15. CASE ResetPointer \/ DestructAll
  BY <1>15 DEF ResetPointer, DestructAll, Working, gc
<1>16. CASE TestChunk
  <2>1. /\ UNCHANGED <<blocks, mpc, chunk, free, object, refs>>
        /\ cpc = "test" /\ cpc' # "stopped" /\ ~ Unwound
        /\ \/ refcount' = refcount
           \/ /\ refcount[cchunk] = COLLECTABLE_CHUNK
              /\ refcount' = [refcount EXCEPT ![cchunk] = FREE_CHUNK]
    BY <1>16 DEF TestChunk, Unwound, pool, mutator
  <2>2. mpc \in {"unlink", "bump", "construct", "reference", "release", "push", "reset",
                "thrown"} =>
          refcount'[chunk] = refcount[chunk]
    BY <1>f, <1>c, <2>1, Protected DEF Unwound
  <2> QED
    BY <1>t, <1>a, <2>1, <2>2 DEF Working
<1>17. CASE CollectChunk
  <2>1. /\ UNCHANGED <<blocks, mpc, chunk, free, refcount, refs>>
        /\ cpc = "collect" /\ object' = object \ {cchunk} /\ ~ Unwound
    BY <1>17 DEF CollectChunk, Unwound, pool, mutator
  <2>2. mpc \in {"reference", "thrown"} => chunk # cchunk
    BY <2>1, Protected
  <2> QED
    BY <1>t, <1>a, <2>1, <2>2 DEF Working
<1>18. CASE Splice
  <2>1. /\ UNCHANGED <<blocks, mpc, chunk, object, refcount, refs>>
        /\ cpc = "splice" /\ free' = collected \o free /\ mpc # "unlink" /\ ~ Unwound
    BY <1>18, <1>t DEF Splice, Locked, Unwound, pool, memory, mutator
  <2>2. Elements(free) \subseteq Elements(free')
    BY <1>f, <2>1, ConcatFacts
  <2> QED
    BY <1>t, <1>a, <2>1, <2>2 DEF Working
<1>19. CASE \/ StartCollect \/ StopCollect \/ FirstChunk \/ NextBlock
            \/ ReadRawHead \/ ReadRawEnd \/ EndCollect \/ UNCHANGED vars
  <2>1. /\ UNCHANGED <<blocks, mpc, chunk, free, object, refcount, refs>>
        /\ cpc = "stopped" => cpc' = "stopped"
        /\ Unwound => Unwound'
    BY <1>19 DEF StartCollect, StopCollect, FirstChunk, NextBlock, ReadRawHead, ReadRawEnd,
       EndCollect, vars, Unwound, pool, memory, mutator, gc
  <2> QED
    BY <1>t, <1>a, <2>1 DEF Working
<1> QED
  BY <1>1, <1>2, <1>3, <1>4, <1>5, <1>6, <1>7, <1>8, <1>9, <1>10, <1>11, <1>12, <1>13,
     <1>14, <1>15, <1>16, <1>17, <1>18, <1>19 DEF Next, Mutate, Collect

-----------------------------------------------------------------------------
(* Where the collector is *)

\* What the two reads of the limits of the raw block tell, although the mutator
\* moves them in between: a chunk that is not in them is not raw, even if it is
\* in a block that is being set up.
LEMMA NotRaw ==
  ASSUME IInv, block \in Visible \ {Null}, cchunk \in Chunks(block),
         ~ (rawHead <= cchunk) \/ ~ (cchunk < rawEnd)
  PROVE  cchunk \notin Raw
<1>t. TypeOK /\ RawBlock /\ SetUp
  BY DEF IInv
<1>r. Raw = IF mpc = "store" THEN Chunks(chunk - 1) ELSE Above(rawHead, rawEnd)
  BY <1>t, RawMeaning
<1>1. CASE mpc # "store"
  BY <1>r, <1>1 DEF Above
<1>2. CASE mpc = "store"
  <2>1. block \in Blocks /\ chunk - 1 \in Blocks
    BY <1>t, <1>2, AllottedType DEF SetUp, TypeOK
  <2>2. CASE block # chunk - 1
    BY <1>r, <1>2, <2>1, <2>2, ChunksDisjoint
  <2>3. CASE block = chunk - 1
    <3>1. stores = StoresLeft[5]
      BY <1>2, <2>3 DEF Visible, Hidden
    <3>2. rawHead = block /\ rawEnd = block + BlockSize
      <4>1. PICK k \in 1 .. 5 :
              /\ stores = StoresLeft[k]
              /\ k > 1 => rawHead = chunk - 1
              /\ k > 2 => rawEnd = chunk - 1 + BlockSize
        BY <1>t, <1>2 DEF SetUp
      <4>2. k = 5
        BY <3>1, <4>1, StoresLeftFacts
      <4> QED
        BY <2>3, <4>1, <4>2
    <3>3. rawHead <= cchunk /\ cchunk < rawEnd
      BY <2>1, <3>2, AllocNbAssumption, BlocksAssumption DEF Chunks, BlockSize
    <3> QED
      BY <3>3
  <2> QED
    BY <2>2, <2>3
<1> QED
  BY <1>1, <1>2

\* The mutator does not touch what is garbage for the collector.
LEMMA GarbageKept ==
  ASSUME IInv, Mutate, ~ DestructAll,
         NEW c \in object, refs[c] = 0, refcount[c] = FREE_CHUNK
  PROVE  c \in object' /\ refs'[c] = 0 /\ refcount'[c] = FREE_CHUNK
<1>t. TypeOK /\ Owned /\ Working /\ c \in AllChunks
  BY DEF IInv, TypeOK
<1>f. /\ refcount \in [AllChunks -> 0 .. FREE_CHUNK]
      /\ refs \in [AllChunks -> 0 .. RefcountMax - 1]
  BY <1>t DEF TypeOK
<1>1. CASE \/ LockToAllocate \/ Unlink \/ NoFreeChunk \/ BadAlloc \/ Store \/ Bump
           \/ LockToRelease \/ Push
           \/ \E b \in Blocks : Grow(b)
  BY <1>1 DEF LockToAllocate, Unlink, NoFreeChunk, BadAlloc, Store, Bump, LockToRelease,
     Push, Grow, memory
<1>2. CASE Protect \/ Carve
  <2>1. /\ object' = object /\ refs' = refs
        /\ \/ /\ Head(free) \in Elements(free)
              /\ refcount' = [refcount EXCEPT ![Head(free)] = ALLOCATED_CHUNK]
           \/ /\ chunk \in Raw
              /\ refcount' = [refcount EXCEPT ![chunk] = ALLOCATED_CHUNK]
    BY <1>2, AllocatedFrom DEF Protect, Carve
  <2> QED
    BY <1>t, <1>f, <2>1 DEF Owned
<1>3. CASE Construct \/ ConstructThrows
  <2>1. /\ object \subseteq object' /\ refs' = refs /\ InHand = {chunk}
        /\ \E v : refcount' = [refcount EXCEPT ![chunk] = v]
    BY <1>3 DEF Construct, ConstructThrows, InHand
  <2>2. c # chunk
    BY <1>t, <2>1 DEF Owned
  <2> QED
    BY <1>f, <2>1, <2>2
<1>4. CASE FirstReference
  <2>1. refcount[chunk] = RefcountMax
    BY <1>4, <1>t DEF FirstReference, Working
  <2>2. c # chunk
    BY <2>1, CountFacts
  <2> QED
    BY <1>4, <1>f, <2>2 DEF FirstReference
<1>5. ASSUME NEW k \in AllChunks,
             \/ CopyReference(k) \/ CopyOverflows(k) \/ ClearCopies(k)
             \/ DropReference(k) \/ Destruct(k)
      PROVE  c \in object' /\ refs'[c] = 0 /\ refcount'[c] = FREE_CHUNK
  <2>1. c # k
    BY <1>5, <1>f DEF CopyReference, CopyOverflows, ClearCopies, DropReference, Destruct
  <2>2. CASE CopyReference(k)
    <3>1. /\ object' = object /\ refs' = [refs EXCEPT ![k] = @ + 1]
          /\ \E v : refcount' = [refcount EXCEPT ![k] = v]
      BY <2>2 DEF CopyReference
    <3> QED
      BY <1>t, <1>f, <2>1, <3>1
  <2>3. CASE CopyOverflows(k) \/ ClearCopies(k)
    <3>1. /\ object' = object /\ refs' = refs
          /\ \E v : refcount' = [refcount EXCEPT ![k] = v]
      BY <2>3 DEF CopyOverflows, ClearCopies
    <3> QED
      BY <1>t, <1>f, <2>1, <3>1
  <2>4. CASE DropReference(k)
    BY <2>1, <2>4, <1>f DEF DropReference
  <2>5. CASE Destruct(k)
    BY <2>1, <2>5, <1>f DEF Destruct
  <2> QED
    BY <1>5, <2>2, <2>3, <2>4, <2>5
<1>6. CASE ResetPointer
  <2>1. refs[chunk] = 1
    BY <1>6, <1>t DEF ResetPointer, Working
  <2> QED
    BY <1>6, <1>f, <2>1 DEF ResetPointer
<1> QED
  BY <1>1, <1>2, <1>3, <1>4, <1>5, <1>6 DEF Mutate

\* The collector only tests chunks that have been allocated, and what it has
\* found to be garbage stays so until it is destructed.
LEMMA VisitingStep ==
  ASSUME IInv, [Next]_vars
  PROVE  Visiting'
<1>t. TypeOK /\ Owned /\ Working /\ Visiting /\ VisibleList
  BY DEF IInv
<1>b. block \in Visible /\ block # Null => block \in blocks \ Hidden /\ block \in Blocks
  BY <1>t DEF Visible, TypeOK
<1>1. ASSUME Mutate, ~ DestructAll PROVE Visiting'
  <2>1. UNCHANGED <<cpc, block, cchunk, collected>>
    BY <1>1 DEF Mutate, LockToAllocate, Protect, Unlink, NoFreeChunk, Grow, BadAlloc, Store,
       Carve, Bump, Construct, ConstructThrows, FirstReference, CopyReference, CopyOverflows,
       ClearCopies, DropReference, Destruct, LockToRelease, Push, ResetPointer, gc
  <2>2. Visible \subseteq Visible'
    BY <1>1, BlocksStep
  <2>3. cpc = "test" => cchunk \notin Raw'
    <3>1. ASSUME cpc = "test", NEW b \in Blocks, Grow(b) PROVE cchunk \notin Chunks(b)
      <4>1. block \in blocks /\ block \in Blocks /\ b \notin blocks
        BY <1>t, <1>b, <3>1 DEF Visiting, Grow
      <4> QED
        BY <1>t, <3>1, <4>1, ChunksDisjoint DEF Visiting
    <3> QED
      BY <1>1, <1>t, <3>1, RawStep DEF Visiting
  <2>4. cpc = "collect" => /\ cchunk \in object' /\ refs'[cchunk] = 0
                           /\ refcount'[cchunk] = FREE_CHUNK
    BY <1>1, <1>t, GarbageKept DEF Visiting
  <2> QED
    BY <1>t, <2>1, <2>2, <2>3, <2>4 DEF Visiting
<1>2. CASE DestructAll
  <2>1. cpc = "stopped" /\ UNCHANGED <<cpc, collected>>
    BY <1>2 DEF DestructAll, gc
  <2> QED
    BY <1>t, <2>1 DEF Visiting
<1>3. ASSUME StopCollect \/ Collect
      PROVE  Visible' = Visible /\ UNCHANGED <<nextblock, refs>>
  BY <1>3 DEF StopCollect, Collect, StartCollect, FirstChunk, NextBlock, ReadRawHead,
     ReadRawEnd, TestChunk, CollectChunk, EndCollect, Splice, Visible, Hidden, pool, memory,
     mutator
<1>4. CASE StartCollect \/ StopCollect
  BY <1>3, <1>4, <1>t DEF StartCollect, StopCollect, Collect, Visiting, VisibleList, gc
<1>5. CASE FirstChunk
  <2>1. block + 1 \in Chunks(block)
    BY <1>5, <1>t, <1>b, ChunksFacts DEF FirstChunk, Visiting
  <2> QED
    BY <1>3, <1>5, <1>t, <2>1 DEF FirstChunk, Collect, Visiting
<1>6. CASE NextBlock
  <2>1. nextblock[block] \in Visible
    BY <1>6, <1>t, <1>b DEF NextBlock, Visiting, VisibleList
  <2> QED
    BY <1>3, <1>6, <1>t, <2>1 DEF NextBlock, Collect, Visiting
<1>7. CASE ReadRawHead \/ ReadRawEnd
  <2>1. /\ UNCHANGED <<block, cchunk, collected>> /\ Raw' = Raw
        /\ cpc \in {"chunk", "raw"} /\ cpc' \in {"next", "raw", "test"}
        /\ cpc' \in {"raw", "test"} => cchunk \in Chunks(block)
        /\ cpc' = "test" => ~ (rawHead <= cchunk) \/ ~ (cchunk < rawEnd)
    BY <1>7, <1>t DEF ReadRawHead, ReadRawEnd, Visiting, Raw, InRawBlock, pool, mutator
  <2>2. cpc' = "test" => cchunk \notin Raw
    BY <1>t, <2>1, NotRaw DEF Visiting
  <2> QED
    BY <1>3, <1>7, <1>t, <2>1, <2>2 DEF Collect, Visiting
<1>8. CASE TestChunk
  <2>1. cpc = "test" /\ UNCHANGED <<block, object, refs, collected>>
    BY <1>8 DEF TestChunk
  <2>2. CASE refcount[cchunk] = COLLECTABLE_CHUNK
    <3>1. cchunk \in object /\ refs[cchunk] = 0 /\ cchunk \in AllChunks
      BY <2>1, <2>2, GarbageIsObject
    <3>2. /\ refcount' = [refcount EXCEPT ![cchunk] = FREE_CHUNK]
          /\ cpc' = "collect" /\ cchunk' = cchunk
      BY <1>8, <2>2 DEF TestChunk
    <3> QED
      BY <1>3, <1>8, <1>t, <2>1, <3>1, <3>2 DEF Collect, Visiting, TypeOK
  <2>3. CASE refcount[cchunk] # COLLECTABLE_CHUNK
    <3>1. cchunk + 1 \in Chunks(block) \cup {block + BlockSize}
      BY <1>t, <1>b, <2>1, ChunksFacts DEF Visiting
    <3> QED
      BY <1>3, <1>8, <1>t, <2>1, <2>3, <3>1 DEF TestChunk, Collect, Visiting
  <2> QED
    BY <2>2, <2>3
<1>9. CASE CollectChunk
  <2>1. cchunk + 1 \in Chunks(block) \cup {block + BlockSize}
    BY <1>9, <1>t, <1>b, ChunksFacts DEF CollectChunk, Visiting
  <2> QED
    BY <1>3, <1>9, <1>t, <2>1 DEF CollectChunk, Collect, Visiting
<1>10. CASE EndCollect \/ Splice
  BY <1>10, <1>t DEF EndCollect, Splice, Visiting
<1>11. CASE UNCHANGED vars
  <2>1. Visible' = Visible /\ Raw' = Raw
    BY <1>11 DEF vars, pool, memory, mutator, Visible, Hidden, Raw, InRawBlock
  <2> QED
    BY <1>11, <1>t, <2>1 DEF vars, gc, memory, Visiting
<1> QED
  BY <1>1, <1>2, <1>4, <1>5, <1>6, <1>7, <1>8, <1>9, <1>10, <1>11 DEF Next, Collect

-----------------------------------------------------------------------------
(* The theorems *)

\* The initial states satisfy the invariant.
LEMMA IInvInit == Init /\ order = SourceOrder => IInv
<1> SUFFICES ASSUME Init, order = SourceOrder PROVE IInv
  OBVIOUS
<1>1. TypeOK
  BY CountFacts DEF Init, TypeOK, Null
<1>2. Allotted = {} /\ Visible = {Null} /\ Raw = {} /\ InHand = {}
  <2>1. Raw = {}
    BY DEF Init, Raw, InRawBlock, Null
  <2> QED
    BY <2>1 DEF Init, Allotted, Visible, Hidden, InHand
<1>3. Locked /\ VisibleList /\ SetUp /\ RawBlock /\ Working /\ Visiting
  BY <1>2 DEF Init, Locked, VisibleList, SetUp, RawBlock, Working, Visiting
<1>4. Owned /\ Counters
  BY <1>2, EmptyFacts DEF Init, Owned, Counters
<1> QED
  BY <1>1, <1>3, <1>4 DEF IInv

\* A step of either thread keeps the invariant.
LEMMA IInvStep == IInv /\ [Next]_vars => IInv'
<1> SUFFICES ASSUME IInv, [Next]_vars PROVE IInv'
  OBVIOUS
<1>1. order' = order
  BY DEF Next, Mutate, Collect, vars, LockToAllocate, Protect, Unlink, NoFreeChunk, Grow,
     BadAlloc, Store, Carve, Bump, Construct, ConstructThrows, FirstReference, CopyReference,
     CopyOverflows, ClearCopies, DropReference, Destruct, LockToRelease, Push, ResetPointer,
     DestructAll, StartCollect,
     StopCollect, FirstChunk, NextBlock, ReadRawHead, ReadRawEnd, TestChunk, CollectChunk,
     EndCollect, Splice
<1> QED
  BY <1>1, TypeStep, LockedStep, BlocksStep, WorkingStep, VisitingStep, OwnedStep,
     CountersStep DEF IInv

\* The invariant holds in every state of the build in the order of the source.
LEMMA Invariant == Spec /\ order = SourceOrder => []IInv
BY IInvInit, IInvStep, PTL DEF Spec

-----------------------------------------------------------------------------
(* What the invariant says. *)

\* A chunk of an allotted block has exactly one of the four owners.
LEMMA OwnerCounted ==
  ASSUME Owned, NEW c \in Allotted, NEW listed,
         Elements(listed) = Elements(free) \cup Elements(collected),
         NEW owner, owner = <<Raw, Elements(listed), InHand, object>>
  PROVE  Cardinality({i \in DOMAIN owner : c \in owner[i]}) = 1
<1> DEFINE at == {i \in DOMAIN owner : c \in owner[i]}
<1>1. /\ DOMAIN owner = 1 .. 4
      /\ owner[1] = Raw /\ owner[2] = Elements(free) \cup Elements(collected)
      /\ owner[3] = InHand /\ owner[4] = object
  OBVIOUS
<1>2. at = {i \in 1 .. 4 : c \in owner[i]}
  BY <1>1
<1> HIDE DEF at
<1>3. \E i \in 1 .. 4 : at = {i}
  <2>1. CASE c \in Raw
    <3>1. c \notin owner[2] /\ c \notin InHand /\ c \notin object
      BY <1>1, <2>1 DEF Owned
    <3> QED
      BY <1>1, <1>2, <2>1, <3>1
  <2>2. CASE c \in Elements(free) \cup Elements(collected)
    <3>1. c \notin Raw /\ c \notin InHand /\ c \notin object
      BY <2>2 DEF Owned
    <3> QED
      BY <1>1, <1>2, <2>2, <3>1
  <2>3. CASE c \in InHand
    <3>1. c \notin Raw /\ c \notin owner[2] /\ c \notin object
      BY <1>1, <2>3 DEF Owned
    <3> QED
      BY <1>1, <1>2, <2>3, <3>1
  <2>4. CASE c \in object
    <3>1. c \notin Raw /\ c \notin owner[2] /\ c \notin InHand
      BY <1>1, <2>4 DEF Owned
    <3> QED
      BY <1>1, <1>2, <2>4, <3>1
  <2>5. c \in Raw \cup Elements(free) \cup Elements(collected) \cup InHand \cup object
    BY DEF Owned
  <2> QED
    BY <2>1, <2>2, <2>3, <2>4, <2>5
<1> QED
  BY <1>3, FS_Singleton DEF at

\* The invariant gives every chunk one owner, and one place in the lists.
LEMMA OneOwnerOf ==
  ASSUME IInv
  PROVE  OneOwner
<1> DEFINE listed == free \o collected
           owner  == <<Raw, Elements(listed), InHand, object>>
<1>1. TypeOK /\ Owned
  BY DEF IInv
<1>2. /\ Elements(listed) = Elements(free) \cup Elements(collected)
      /\ NoRepeat(listed)
  BY <1>1, ConcatFacts DEF TypeOK, Owned
<1>3. ASSUME NEW c \in Allotted
      PROVE  Cardinality({i \in DOMAIN owner : c \in owner[i]}) = 1
  <2> HIDE DEF owner, listed
  <2> QED
    BY <1>1, <1>2, OwnerCounted DEF owner
<1> QED
  BY <1>1, <1>2, <1>3 DEF OneOwner, NoRepeat, Allotted

(* However the two threads interleave, a chunk is never given twice and none *)
(* is lost: allocate(), release() and collect() of pool_t.                  *)
THEOREM OneOwnerCorrect == Spec /\ order = SourceOrder => []OneOwner
BY Invariant, OneOwnerOf, PTL

(* A pointer points to an object, and the counter of the object counts the   *)
(* pointers, and one more for the copy that overflowed it: neither collect() *)
(* nor the counters of make_shared_t let an object go while an               *)
(* intrusive_shared_ptr_t holds it.  When clear() makes the counters wrong   *)
(* after that exception, only destruct_all() is to come, which still         *)
(* destructs every object and nothing else.                                  *)
THEOREM PointersCorrect == Spec /\ order = SourceOrder => []NoDanglingPointer
<1>1. ASSUME IInv PROVE NoDanglingPointer
  <2>1. ASSUME NEW c \in AllChunks \ Resetting, refs[c] > 0
        PROVE  /\ c \in object
               /\ ~ Unwound /\ c \notin Overflown => refcount[c] = refs[c]
    <3>1. c \in object
      BY <1>1, <2>1 DEF IInv, Counters
    <3>2. ~ (mpc = "reference" /\ c = chunk)
      BY <1>1, <2>1 DEF IInv, Working
    <3>3. ~ (cpc = "collect" /\ c = cchunk)
      BY <1>1, <2>1 DEF IInv, Visiting
    <3> QED
      BY <1>1, <3>1, <3>2, <3>3 DEF IInv, Counters, Overflown
  <2>2. \A c \in Overflown : c \in object /\ (~ Unwound => refcount[c] = refs[c] + 1)
    BY <1>1 DEF IInv, Working, Overflown
  <2>3. mpc \in {"idle", "thrown"} /\ cpc # "collect" => Constructed = object
    BY <1>1, ConstructedIsObject
  <2> QED
    BY <2>1, <2>2, <2>3 DEF NoDanglingPointer
<1> QED
  BY <1>1, Invariant, PTL

(* The chunk that collect() has decided to free holds an object, which no    *)
(* pointer references, until collect() has destructed it.                    *)
THEOREM GarbageOnly == Spec /\ order = SourceOrder => []CollectsOnlyGarbage
<1>1. ASSUME IInv PROVE CollectsOnlyGarbage
  BY <1>1 DEF IInv, Visiting, CollectsOnlyGarbage
<1> QED
  BY <1>1, Invariant, PTL
=============================================================================
