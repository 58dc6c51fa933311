------------------------------ MODULE PoolBucket ------------------------------
(***************************************************************************)
(* Allocator::PoolBucket (SmMalloc/smmalloc.h): the lock-free stack of the *)
(* free blocks of one bucket.  A free block's first eight bytes hold a     *)
(* TaggedIndex, the link to the next free block; head is the link to the   *)
(* first.  Threads pop with Alloc() and push a chain of blocks, linked     *)
(* beforehand, with FreeInterval(); both retry a compare-and-swap on head. *)
(* One action is one access to memory that other threads can see.          *)
(*                                                                         *)
(* Callers are Allocator::Free, which pushes the chain <<p>>, and          *)
(* TlsPoolBucket::ReturnL1CacheToMaster, which pushes a longer one whose   *)
(* inner links it writes itself.  MaxInterval = 1 is smmalloc without      *)
(* thread caches.  ChainsRace is the code: a longer chain is pushed at any *)
(* time.  Without it the callers push one only while nobody else is inside *)
(* Alloc(), which is what the tags are enough for.                         *)
(***************************************************************************)
EXTENDS Integers, Sequences

CONSTANTS
  Threads,
  N,             \* blocks Create() finds room for
  TagMod,        \* 2^32 in the code: globalTag is a uint32_t
  LocalTagBase,  \* 0xFFFFFF in the code: the tag of a chain's first inner link
  MaxInterval,   \* bound: the longest chain given to FreeInterval()
  ChainsRace,    \* longer chains are pushed while other threads are inside Alloc()
  MaxFrees       \* bound: calls of FreeInterval() in one behaviour

ASSUME PoolConstants ==
  /\ N \in Nat \ {0}
  /\ TagMod \in Nat \ {0}
  /\ LocalTagBase \in 0..(TagMod - 1)
  /\ MaxInterval \in Nat \ {0}
  /\ MaxFrees \in Nat

ASSUME ChainsRaceOrNot == ChainsRace \in BOOLEAN

VARIABLES
  head,       \* std::atomic<uint64_t> head
  globalTag,  \* std::atomic<uint32_t> globalTag
  mem,        \* the first eight bytes of every block
  allocated,  \* the blocks outside the pool: the program's or a thread cache's
  pc,         \* where each thread is inside Alloc() or FreeInterval()
  headValue,  \* the local headValue of both functions
  nextValue,  \* the local nextValue of Alloc()
  tag,        \* the local tag of FreeInterval()
  interval,   \* the chain from pHead to pTail that FreeInterval() was given
  frees,      \* history: calls of FreeInterval() so far
  list        \* history: the links of the free list, from the last block to head

shared == <<head, globalTag, mem, allocated>>
locals == <<pc, headValue, nextValue, tag, interval>>
vars == <<head, globalTag, mem, allocated, pc, headValue, nextValue, tag, interval, frees, list>>

(* A block is named by its offset in units of elementSize. *)
Blocks == 0..(N - 1)
Tags == 0..(TagMod - 1)
LinkTo(b, tg) == [tag |-> tg, offset |-> b]
Links == [tag : Tags, offset : Blocks]

(* UINT64_MAX: the end of the list.  Its offset is no block's. *)
Invalid == [tag |-> TagMod - 1, offset |-> -1]

(* Whatever the program writes into a block it holds; never a link. *)
UserData == [tag |-> 0, offset |-> -2]

TaggedIndex == Links \union {Invalid}
Word == TaggedIndex \union {UserData}

BlocksOf(c) == {c[i] : i \in DOMAIN c}

(* The chains FreeInterval() can be given: distinct blocks, pHead first. *)
Intervals ==
  {c \in UNION {[1..k -> Blocks] : k \in 1..MaxInterval} :
     \A i, j \in DOMAIN c : c[i] = c[j] => i = j}

(* The link by which the i-th block of a chain is reached: the head's tag   *)
(* comes from globalTag, the inner ones count up from LocalTagBase.         *)
LinkOf(c, tg, i) ==
  LinkTo(c[i], IF i = 1 THEN tg ELSE (LocalTagBase + i - 2) % TagMod)

(* The links of a chain from pTail to pHead: the order of list. *)
ChainLinks(c, tg) == [j \in 1..Len(c) |-> LinkOf(c, tg, Len(c) + 1 - j)]

(* Mutant: the chain's last inner link is left unwritten. *)
WriteInnerLinksShort(m, c) ==
  [b \in Blocks |->
     IF \E i \in 1..(Len(c) - 2) : c[i] = b
     THEN LinkOf(c, 0, (CHOOSE i \in 1..(Len(c) - 2) : c[i] = b) + 1)
     ELSE m[b]]

(* The inner links, which ReturnL1CacheToMaster writes into the blocks. *)
WriteInnerLinks(m, c) ==
  [b \in Blocks |->
     IF \E i \in 1..(Len(c) - 1) : c[i] = b
     THEN LinkOf(c, 0, (CHOOSE i \in 1..(Len(c) - 1) : c[i] = b) + 1)
     ELSE m[b]]

FreeStates == {"free_load", "free_link", "free_cas"}
AllocStates == {"alloc_read", "alloc_cas"}
-----------------------------------------------------------------------------
(* The bucket as Create() leaves it: the blocks in address order, block b   *)
(* linking to b + 1 with tag b, the head with tag 0 like the link after it, *)
(* and globalTag one below the number of blocks.                            *)
CreatedTag(b) == IF b = 0 THEN 0 ELSE (b - 1) % TagMod

Init ==
  /\ head = LinkTo(0, CreatedTag(0))
  /\ globalTag = (N - 1) % TagMod
  /\ mem = [b \in Blocks |-> IF b = N - 1 THEN Invalid ELSE LinkTo(b + 1, CreatedTag(b + 1))]
  /\ allocated = {}
  /\ pc = [t \in Threads |-> "idle"]
  /\ headValue = [t \in Threads |-> Invalid]
  /\ nextValue = [t \in Threads |-> Invalid]
  /\ tag = [t \in Threads |-> 0]
  /\ interval = [t \in Threads |-> <<>>]
  /\ frees = 0
  /\ list = [i \in 1..N |-> LinkTo(N - i, CreatedTag(N - i))]

(* A call returns: its locals are gone. *)
Return(t) ==
  /\ pc' = [pc EXCEPT ![t] = "idle"]
  /\ headValue' = [headValue EXCEPT ![t] = Invalid]
  /\ nextValue' = [nextValue EXCEPT ![t] = Invalid]
  /\ tag' = [tag EXCEPT ![t] = 0]
  /\ interval' = [interval EXCEPT ![t] = <<>>]

(* headValue has just been loaded from head: an empty list ends Alloc()     *)
(* with nullptr, otherwise the loop body starts.                            *)
AllocLoop(t) ==
  \/ /\ head = Invalid
     /\ Return(t)
  \/ /\ head # Invalid
     /\ pc' = [pc EXCEPT ![t] = "alloc_read"]
     /\ headValue' = [headValue EXCEPT ![t] = head]
     /\ nextValue' = [nextValue EXCEPT ![t] = Invalid]
     /\ UNCHANGED <<tag, interval>>
-----------------------------------------------------------------------------
(* Alloc(): headValue.u = head.load(). *)
AllocLoad(t) ==
  /\ pc[t] = "idle"
  /\ AllocLoop(t)
  /\ UNCHANGED <<head, globalTag, mem, allocated, frees, list>>

(* Alloc(): nextValue = *p, a plain read of a block that another thread may *)
(* have taken, written to or be pushing again by now.                       *)
AllocRead(t) ==
  /\ pc[t] = "alloc_read"
  /\ nextValue' = [nextValue EXCEPT ![t] = mem[headValue[t].offset]]
  /\ pc' = [pc EXCEPT ![t] = "alloc_cas"]
  /\ UNCHANGED <<shared, headValue, tag, interval, frees, list>>

(* Mutant: the compare-and-swap ignores the tag. *)
HeadMatchesOffsetOnly(t) == head.offset = headValue[t].offset

(* The comparison of compare_exchange_strong: all 64 bits of head. *)
HeadMatches(t) == head = headValue[t]

(* Alloc(): the compare-and-swap succeeds and the block is the caller's. *)
AllocCas(t) ==
  /\ pc[t] = "alloc_cas"
  /\ HeadMatches(t)
  /\ head' = nextValue[t]
  /\ allocated' = allocated \union {headValue[t].offset}
  /\ list' = SubSeq(list, 1, Len(list) - 1)
  /\ Return(t)
  /\ UNCHANGED <<globalTag, mem, frees>>

(* Mutant: the failed compare-and-swap does not refresh headValue. *)
AllocRetryStale(t) ==
  /\ pc[t] = "alloc_cas"
  /\ ~HeadMatches(t)
  /\ pc' = [pc EXCEPT ![t] = "alloc_read"]
  /\ UNCHANGED <<shared, headValue, nextValue, tag, interval, frees, list>>

(* Alloc(): it fails, has loaded the new head, and the loop goes round. *)
AllocRetry(t) ==
  /\ pc[t] = "alloc_cas"
  /\ ~HeadMatches(t)
  /\ AllocLoop(t)
  /\ UNCHANGED <<shared, frees, list>>

(* Mutant: a tag that is read but never advanced. *)
NextTagConstant == globalTag

(* globalTag.fetch_add(1): the counter after it. *)
NextTag == (globalTag + 1) % TagMod

(* Assumed of the callers: when a chain may be pushed. *)
MayPush(t, c) ==
  ChainsRace \/ Len(c) = 1 \/ \A u \in Threads \ {t} : pc[u] \notin AllocStates

(* FreeInterval(): the caller gives up blocks it holds, with the inner      *)
(* links of the chain written, and the chain's tag is taken.                *)
FreeBegin(t, c) ==
  /\ pc[t] = "idle"
  /\ frees < MaxFrees
  /\ MayPush(t, c)
  /\ BlocksOf(c) \subseteq allocated
  /\ allocated' = allocated \ BlocksOf(c)
  /\ mem' = WriteInnerLinks(mem, c)
  /\ tag' = [tag EXCEPT ![t] = globalTag]
  /\ globalTag' = NextTag
  /\ interval' = [interval EXCEPT ![t] = c]
  /\ pc' = [pc EXCEPT ![t] = "free_load"]
  /\ frees' = frees + 1
  /\ UNCHANGED <<head, headValue, nextValue, list>>

(* FreeInterval(): headValue.u = head.load(). *)
FreeLoad(t) ==
  /\ pc[t] = "free_load"
  /\ headValue' = [headValue EXCEPT ![t] = head]
  /\ pc' = [pc EXCEPT ![t] = "free_link"]
  /\ UNCHANGED <<shared, nextValue, tag, interval, frees, list>>

TailBlock(t) == interval[t][Len(interval[t])]

(* FreeInterval(): the head seen last becomes pTail's next. *)
FreeLink(t) ==
  /\ pc[t] = "free_link"
  /\ mem' = [mem EXCEPT ![TailBlock(t)] = headValue[t]]
  /\ pc' = [pc EXCEPT ![t] = "free_cas"]
  /\ UNCHANGED <<head, globalTag, allocated, headValue, nextValue, tag, interval, frees, list>>

(* FreeInterval(): the compare-and-swap succeeds and the chain is free. *)
FreeCas(t) ==
  /\ pc[t] = "free_cas"
  /\ HeadMatches(t)
  /\ head' = LinkTo(interval[t][1], tag[t])
  /\ list' = list \o ChainLinks(interval[t], tag[t])
  /\ Return(t)
  /\ UNCHANGED <<globalTag, mem, allocated, frees>>

(* Mutant: the retry compares with the new head and leaves pTail's link. *)
FreeRetryNoRelink(t) ==
  /\ pc[t] = "free_cas"
  /\ ~HeadMatches(t)
  /\ headValue' = [headValue EXCEPT ![t] = head]
  /\ UNCHANGED <<shared, pc, nextValue, tag, interval, frees, list>>

(* FreeInterval(): it fails, has loaded the new head, and links again. *)
FreeRetry(t) ==
  /\ pc[t] = "free_cas"
  /\ ~HeadMatches(t)
  /\ headValue' = [headValue EXCEPT ![t] = head]
  /\ pc' = [pc EXCEPT ![t] = "free_link"]
  /\ UNCHANGED <<shared, nextValue, tag, interval, frees, list>>

(* The program writes to memory it holds. *)
UserWrite(b) ==
  /\ b \in allocated
  /\ mem' = [mem EXCEPT ![b] = UserData]
  /\ UNCHANGED <<head, globalTag, allocated, locals, frees, list>>

(* The steps of a call that has begun. *)
Step(t) ==
  \/ AllocRead(t)
  \/ AllocCas(t)
  \/ AllocRetry(t)
  \/ FreeLoad(t)
  \/ FreeLink(t)
  \/ FreeCas(t)
  \/ FreeRetry(t)

Next ==
  \/ \E t \in Threads : AllocLoad(t) \/ Step(t)
  \/ \E t \in Threads : \E c \in Intervals : FreeBegin(t, c)
  \/ \E b \in Blocks : UserWrite(b)

Spec == Init /\ [][Next]_vars

(* A thread inside a call keeps being scheduled; nobody has to call. *)
FairSpec == Spec /\ \A t \in Threads : WF_vars(Step(t))
-----------------------------------------------------------------------------
TypeOK ==
  /\ head \in TaggedIndex
  /\ globalTag \in Tags
  /\ mem \in [Blocks -> Word]
  /\ allocated \in SUBSET Blocks
  /\ pc \in [Threads -> {"idle"} \union AllocStates \union FreeStates]
  /\ headValue \in [Threads -> Word]
  /\ nextValue \in [Threads -> Word]
  /\ tag \in [Threads -> Tags]
  /\ interval \in [Threads -> Intervals \union {<<>>}]
  /\ frees \in 0..MaxFrees
  /\ list \in Seq(Links)
  /\ \A t \in Threads : pc[t] \in FreeStates <=> interval[t] # <<>>

Freeing(t) == BlocksOf(interval[t])
Listed == {list[i].offset : i \in 1..Len(list)}

(* No allocation hands out a block twice and none is lost (step 6 of the    *)
(* ABA comment in Alloc()): every block is in exactly one of the free list, *)
(* the callers' hands, and one FreeInterval() in progress.                  *)
BlocksConserved ==
  /\ \A i, j \in 1..Len(list) : list[i].offset = list[j].offset => i = j
  /\ Listed \intersect allocated = {}
  /\ \A t \in Threads : Freeing(t) \intersect (Listed \union allocated) = {}
  /\ \A t, u \in Threads : t # u => Freeing(t) \intersect Freeing(u) = {}
  /\ \A b \in Blocks : b \in Listed \/ b \in allocated \/ \E t \in Threads : b \in Freeing(t)

(* The list in memory is the list the completed calls mean: from head, the  *)
(* links in the blocks lead through exactly the free blocks to Invalid, so  *)
(* nullptr is returned only when no block is free.                          *)
ListIntact ==
  /\ head = IF list = <<>> THEN Invalid ELSE list[Len(list)]
  /\ \A i \in 1..Len(list) :
       mem[list[i].offset] = IF i = 1 THEN Invalid ELSE list[i - 1]

(* The comment in Alloc() on the tag: it will "prevent invalid CAS           *)
(* operation".  When the compare-and-swap of Alloc() succeeds, the next link *)
(* it read is still the one in the block.                                    *)
NoInvalidCas ==
  \A t \in Threads :
    pc[t] = "alloc_cas" /\ head = headValue[t] => nextValue[t] = mem[head.offset]

(* The tags that inner links of chains carry, over and over. *)
LocalTags == {(LocalTagBase + i) % TagMod : i \in 0..(MaxInterval - 2)}
KnownTags == 0..(globalTag - 1) \union LocalTags

(* Why tags are enough for heads: a tag is taken once.  No link in the list  *)
(* or remembered by an Alloc() in progress carries the tag that a            *)
(* FreeInterval() in progress is about to publish.                           *)
TagsUnique ==
  /\ globalTag = N - 1 + frees
  /\ \A i \in 1..Len(list) : list[i].tag \in KnownTags
  /\ \A t \in Threads :
       pc[t] \in AllocStates => headValue[t] \in Links /\ headValue[t].tag \in KnownTags
  /\ \A t \in Threads : pc[t] \in FreeStates =>
       /\ tag[t] < globalTag
       /\ \A i \in 1..Len(list) : list[i].tag # tag[t]
       /\ \A u \in Threads : pc[u] \in AllocStates => headValue[u].tag # tag[t]
       /\ \A u \in Threads : u # t /\ pc[u] \in FreeStates => tag[u] # tag[t]

(* What a call in progress knows: the next link an Alloc() has read is       *)
(* right for as long as the block it read it from stays in the list under    *)
(* the same link, and pTail holds the head a FreeInterval() will compare.    *)
LocalsCurrent ==
  /\ \A t \in Threads : \A i \in 1..Len(list) :
       pc[t] = "alloc_cas" /\ headValue[t] = list[i]
         => nextValue[t] = mem[list[i].offset]
  /\ \A t \in Threads : pc[t] = "free_cas" => mem[TailBlock(t)] = headValue[t]

(* Without thread caches (chains of one block), in a bucket of two blocks   *)
(* or more, until globalTag wraps: what PoolBucketProofs assumes.           *)
NoThreadCaches ==
  /\ MaxInterval = 1
  /\ N > 1
  /\ N + MaxFrees <= TagMod

(* Every call returns: a failed compare-and-swap retries with the head it   *)
(* has just loaded, so it fails again only if another call got through.     *)
CallsReturn == \A t \in Threads : pc[t] # "idle" ~> pc[t] = "idle"

(* The lock-free list implements the atomic pool. *)
Pool == INSTANCE BlockPool WITH
  free <- Listed,
  releasing <- [t \in Threads |-> Freeing(t)]

ImplementsPool == Pool!Spec
=============================================================================
