--------------------------- MODULE PoolBucketProofs ---------------------------
(***************************************************************************)
(* The lock-free list of PoolBucket without thread caches is safe for any  *)
(* number of threads and of blocks: PoolInv is inductive.                  *)
(***************************************************************************)
EXTENDS PoolBucket, SequenceTheorems, TLAPS

(* TagsUnique when there are no inner links, and the inductive invariant. *)
TagsBelow ==
  /\ globalTag = N - 1 + frees
  /\ \A i \in 1..Len(list) : list[i].tag < globalTag
  /\ \A t \in Threads :
       pc[t] \in AllocStates => headValue[t] \in Links /\ headValue[t].tag < globalTag
  /\ \A t \in Threads : pc[t] \in FreeStates =>
       /\ tag[t] < globalTag
       /\ \A i \in 1..Len(list) : list[i].tag # tag[t]
       /\ \A u \in Threads : pc[u] \in AllocStates => headValue[u].tag # tag[t]
       /\ \A u \in Threads : u # t /\ pc[u] \in FreeStates => tag[u] # tag[t]

PoolInv ==
  /\ TypeOK
  /\ BlocksConserved
  /\ ListIntact
  /\ TagsBelow
  /\ LocalsCurrent

(* x % m = x below m, so globalTag does not wrap within the bound. *)
LEMMA ModBelow ==
  ASSUME NEW m \in Nat \ {0}, NEW x \in 0..(m - 1)
  PROVE  x % m = x
BY SMT

(* What a chain is when every chain is one block: FreeInterval(p, p). *)
LEMMA SingleBlock ==
  ASSUME NoThreadCaches, NEW c \in Intervals
  PROVE  /\ c \in Seq(Blocks)
         /\ Len(c) = 1
         /\ DOMAIN c = {1}
         /\ c[1] \in Blocks
         /\ BlocksOf(c) = {c[1]}
         /\ c # <<>>
<1>1. c \in [1..1 -> Blocks]
  BY DEF Intervals, NoThreadCaches
<1>2. c \in Seq(Blocks)
  <2>1. Seq(Blocks) = UNION {[1..n -> Blocks] : n \in Nat}
    BY SeqDef
  <2>2. [1..1 -> Blocks] \in {[1..n -> Blocks] : n \in Nat}
    OBVIOUS
  <2>3. QED
    BY <1>1, <2>1, <2>2
<1>3. DOMAIN c = 1..1 /\ DOMAIN c = 1..Len(c) /\ Len(c) \in Nat
  BY <1>1, <1>2, LenProperties
<1>4. Len(c) = 1 /\ DOMAIN c = {1}
  BY <1>3
<1>5. c # <<>>
  BY <1>4
<1>6. BlocksOf(c) = {c[1]}
  BY <1>4 DEF BlocksOf
<1>7. QED
  BY <1>1, <1>2, <1>4, <1>5, <1>6

LEMMA SingleInner ==
  ASSUME NoThreadCaches, NEW c \in Intervals, NEW m \in [Blocks -> Word]
  PROVE  WriteInnerLinks(m, c) = m
<1>1. Len(c) = 1
  BY SingleBlock
<1>2. \A b \in Blocks : ~ \E i \in 1..(Len(c) - 1) : c[i] = b
  BY <1>1
<1>3. QED
  BY <1>2 DEF WriteInnerLinks

LEMMA SingleChain ==
  ASSUME NoThreadCaches, NEW c \in Intervals, NEW tg \in Tags
  PROVE  ChainLinks(c, tg) = <<LinkTo(c[1], tg)>>
<1>1. Len(c) = 1
  BY SingleBlock
<1>2. ChainLinks(c, tg) = [j \in 1..1 |-> LinkOf(c, tg, 2 - j)]
  BY <1>1 DEF ChainLinks
<1>3. \A j \in 1..1 : LinkOf(c, tg, 2 - j) = LinkTo(c[1], tg)
  BY DEF LinkOf
<1>4. QED
  BY <1>2, <1>3

(* The shapes of the words: a link names a block, the others do not. *)
LEMMA Words ==
  /\ \A b \in Blocks, tg \in Tags :
       LinkTo(b, tg) \in Links /\ LinkTo(b, tg).offset = b /\ LinkTo(b, tg).tag = tg
  /\ \A l \in Links : l.offset \in Blocks /\ l.tag \in Tags
  /\ Invalid \notin Links
  /\ UserData \notin Links
BY PoolConstants DEF Blocks, Tags, Links, LinkTo, Invalid, UserData

LEMMA PoolInit ==
  ASSUME NoThreadCaches
  PROVE  Init => PoolInv
<1> SUFFICES ASSUME Init PROVE PoolInv
  OBVIOUS
<1> USE PoolConstants
<1>1. \A b \in Blocks : CreatedTag(b) \in Tags /\ CreatedTag(b) = IF b = 0 THEN 0 ELSE b - 1
  BY ModBelow DEF CreatedTag, Blocks, Tags, NoThreadCaches
<1>2. globalTag = N - 1 /\ globalTag \in Tags
  <2>1. N - 1 \in 0..(TagMod - 1)
    BY DEF NoThreadCaches
  <2>2. QED
    BY <2>1, ModBelow DEF Init, Tags
<1>3. /\ list \in Seq(Links) /\ Len(list) = N
      /\ \A i \in 1..N : list[i] = LinkTo(N - i, CreatedTag(N - i)) /\ N - i \in Blocks
  <2>1. \A i \in 1..N : N - i \in Blocks
    BY DEF Blocks
  <2>2. \A i \in 1..N : LinkTo(N - i, CreatedTag(N - i)) \in Links
    BY <2>1, <1>1, Words
  <2>3. QED
    BY <2>1, <2>2 DEF Init
<1>4. \A i \in 1..N : list[i].offset = N - i /\ list[i].tag = CreatedTag(N - i)
  BY <1>3, <1>1, Words
<1>5. mem \in [Blocks -> Word]
  BY <1>1, Words DEF Init, Word, TaggedIndex, Blocks
<1>6. TypeOK
  BY <1>1, <1>2, <1>3, <1>5, Words DEF Init, TypeOK, Word, TaggedIndex, Tags, Blocks, FreeStates, AllocStates
<1>7. Listed = Blocks
  <2>1. \A b \in Blocks : N - b \in 1..N /\ N - (N - b) = b
    BY DEF Blocks
  <2>2. \A b \in Blocks : list[N - b].offset = b
    BY <1>4, <2>1
  <2>3. Blocks \subseteq Listed
    BY <1>3, <2>1, <2>2 DEF Listed
  <2>4. Listed \subseteq Blocks
    BY <1>3, <1>4 DEF Listed
  <2>5. QED
    BY <2>3, <2>4
<1>8. \A t \in Threads : Freeing(t) = {}
  <2>1. \A t \in Threads : interval[t] = <<>>
    BY DEF Init
  <2>2. BlocksOf(<<>>) = {}
    BY DEF BlocksOf
  <2>3. QED
    BY <2>1, <2>2 DEF Freeing
<1>9. BlocksConserved
  <2>2. allocated = {}
    BY DEF Init
  <2>3. \A i, j \in 1..Len(list) : list[i].offset = list[j].offset => i = j
    BY <1>3, <1>4
  <2>4. QED
    BY <1>7, <1>8, <2>2, <2>3 DEF BlocksConserved
<1>10. ListIntact
  <2>1. head = list[Len(list)] /\ list # <<>>
    BY <1>3 DEF Init
  <2>2. ASSUME NEW i \in 1..Len(list)
        PROVE  mem[list[i].offset] = IF i = 1 THEN Invalid ELSE list[i - 1]
    <3>1. list[i].offset = N - i /\ N - i \in Blocks
      BY <1>3, <1>4
    <3>2. CASE i = 1
      BY <3>1, <3>2 DEF Init
    <3>3. CASE i # 1
      <4>1. i - 1 \in 1..N /\ N - (i - 1) = (N - i) + 1 /\ N - i # N - 1
        BY <3>3, <1>3
      <4>2. mem[N - i] = LinkTo((N - i) + 1, CreatedTag((N - i) + 1))
        BY <3>1, <4>1 DEF Init
      <4>3. QED
        BY <1>3, <3>1, <3>3, <4>1, <4>2
    <3>4. QED
      BY <3>2, <3>3
  <2>3. QED
    BY <2>1, <2>2 DEF ListIntact
<1>11. TagsBelow
  BY <1>1, <1>2, <1>3, <1>4 DEF Init, TagsBelow, AllocStates, FreeStates, NoThreadCaches, Blocks
<1>12. LocalsCurrent
  BY DEF Init, LocalsCurrent
<1>13. QED
  BY <1>6, <1>9, <1>10, <1>11, <1>12 DEF PoolInv

(* BlocksConserved is about who holds which block, and nothing else. *)
LEMMA ConservedFrame ==
  ASSUME BlocksConserved, UNCHANGED <<list, allocated, interval>>
  PROVE  BlocksConserved'
<1>1. Listed' = Listed /\ \A t : Freeing(t)' = Freeing(t)
  BY DEF Listed, Freeing, BlocksOf
<1>2. QED
  BY <1>1 DEF BlocksConserved

(* A call that has not taken a tag, and starts or ends, or reads head, moves *)
(* no block and no tag.                                                      *)
LEMMA AllocLoopKeeps ==
  ASSUME NoThreadCaches, PoolInv, NEW t \in Threads, pc[t] \notin FreeStates,
         AllocLoop(t), UNCHANGED <<shared, frees, list>>
  PROVE  PoolInv'
<1> USE PoolConstants
<1>0. interval[t] = <<>> /\ interval' = interval
  BY DEF PoolInv, TypeOK, AllocLoop, Return
<1>1. head \in Links \/ head = Invalid
  BY DEF PoolInv, ListIntact, TypeOK
<1>2. TypeOK'
  <2>1. Invalid \in Word /\ 0 \in Tags /\ head \in Word
    BY DEF PoolInv, TypeOK, Word, TaggedIndex, Tags
  <2>2. CASE head = Invalid
    BY <1>0, <2>1, <2>2 DEF PoolInv, TypeOK, AllocLoop, Return, shared, AllocStates, FreeStates
  <2>3. CASE head # Invalid
    BY <1>0, <2>1, <2>3 DEF PoolInv, TypeOK, AllocLoop, shared, AllocStates, FreeStates
  <2>4. QED
    BY <2>2, <2>3
<1>3. BlocksConserved'
  BY <1>0, ConservedFrame DEF PoolInv, shared
<1>4. ListIntact'
  BY DEF PoolInv, ListIntact, shared
<1>5. TagsBelow'
  <2>1. CASE head = Invalid
    BY <2>1 DEF PoolInv, TypeOK, TagsBelow, AllocLoop, Return, shared, AllocStates, FreeStates
  <2>2. CASE head # Invalid
    <3>1. list # <<>> /\ head = list[Len(list)] /\ Len(list) \in 1..Len(list) /\ head \in Links
      BY <1>1, <2>2 DEF PoolInv, ListIntact, TypeOK
    <3>2. headValue' = [headValue EXCEPT ![t] = head] /\ pc' = [pc EXCEPT ![t] = "alloc_read"]
      BY <2>2 DEF AllocLoop
    <3>3. UNCHANGED <<list, globalTag, frees, tag>>
      BY <2>2 DEF AllocLoop, shared
    <3>4. QED
      BY <3>1, <3>2, <3>3 DEF PoolInv, TypeOK, TagsBelow, AllocStates, FreeStates
  <2>3. QED
    BY <2>1, <2>2
<1>6. LocalsCurrent'
  BY <1>0 DEF PoolInv, TypeOK, LocalsCurrent, TailBlock, AllocLoop, Return, shared, AllocStates, FreeStates
<1>7. QED
  BY <1>2, <1>3, <1>4, <1>5, <1>6 DEF PoolInv

LEMMA AllocReadKeeps ==
  ASSUME NoThreadCaches, PoolInv, NEW t \in Threads, AllocRead(t)
  PROVE  PoolInv'
<1> USE PoolConstants
<1>1. headValue[t] \in Links /\ headValue[t].offset \in Blocks
  BY Words DEF PoolInv, TagsBelow, AllocRead, AllocStates
<1>2. TypeOK'
  BY <1>1 DEF PoolInv, TypeOK, AllocRead, shared, AllocStates, FreeStates
<1>3. BlocksConserved'
  BY ConservedFrame DEF PoolInv, AllocRead, shared
<1>4. ListIntact'
  BY DEF PoolInv, ListIntact, AllocRead, shared
<1>5. TagsBelow'
  BY DEF PoolInv, TypeOK, TagsBelow, AllocRead, shared, AllocStates, FreeStates
<1>6. LocalsCurrent'
  BY DEF PoolInv, TypeOK, LocalsCurrent, TailBlock, AllocRead, shared, AllocStates, FreeStates
<1>7. QED
  BY <1>2, <1>3, <1>4, <1>5, <1>6 DEF PoolInv

(* The successful pop: the head that is compared is the top of the list, so  *)
(* the next link read before is the second of the list, and the block is     *)
(* free.                                                                     *)
LEMMA AllocCasKeeps ==
  ASSUME NoThreadCaches, PoolInv, NEW t \in Threads, AllocCas(t)
  PROVE  PoolInv'
<1> USE PoolConstants
<1> DEFINE n == Len(list)
           b == headValue[t].offset
<1>0. interval[t] = <<>> /\ interval' = interval
  BY DEF PoolInv, TypeOK, AllocCas, Return, FreeStates
<1>1. /\ list \in Seq(Links) /\ n \in Nat \ {0} /\ head = list[n]
      /\ headValue[t] = list[n] /\ list[n] \in Links /\ b \in Blocks
  <2>1. headValue[t] \in Links /\ head = headValue[t]
    BY DEF PoolInv, TagsBelow, AllocCas, HeadMatches, AllocStates
  <2>2. list # <<>> /\ head = list[n]
    BY <2>1, Words DEF PoolInv, ListIntact
  <2>3. QED
    BY <2>1, <2>2, Words DEF PoolInv, TypeOK
<1>2. nextValue[t] = IF n = 1 THEN Invalid ELSE list[n - 1]
  <2>1. n \in 1..Len(list) /\ pc[t] = "alloc_cas"
    BY <1>1 DEF AllocCas
  <2>2. nextValue[t] = mem[list[n].offset]
    BY <1>1, <2>1 DEF PoolInv, LocalsCurrent
  <2>3. QED
    BY <2>1, <2>2 DEF PoolInv, ListIntact
<1>3. /\ list' \in Seq(Links) /\ Len(list') = n - 1
      /\ \A i \in 1..(n - 1) : list'[i] = list[i]
  <2>1. list' = SubSeq(list, 1, n - 1)
    BY DEF AllocCas
  <2>2. \A i \in 1..(n - 1) : list[i] \in Links
    BY <1>1
  <2>3. list' = [i \in 1..(n - 1) |-> list[i]]
    BY <1>1, <2>1
  <2>4. n - 1 \in Nat
    BY <1>1
  <2>5. QED
    BY <2>2, <2>3, <2>4
<1>4. b \in Listed /\ Listed' = Listed \ {b}
  <2>1. \A i \in 1..(n - 1) : list[i].offset # b
    BY <1>1 DEF PoolInv, BlocksConserved
  <2>2. b \in Listed
    BY <1>1 DEF Listed
  <2>3. Listed' = {list[i].offset : i \in 1..(n - 1)}
    BY <1>3 DEF Listed
  <2>4. \A i \in 1..n : i = n \/ i \in 1..(n - 1)
    BY <1>1
  <2>5. \A i \in 1..(n - 1) : i \in 1..n
    BY <1>1
  <2>6. QED
    BY <1>1, <2>1, <2>2, <2>3, <2>4, <2>5 DEF Listed
<1>5. TypeOK'
  BY <1>0, <1>1, <1>2, <1>3 DEF PoolInv, TypeOK, AllocCas, Return, Word, TaggedIndex, Tags, AllocStates, FreeStates
<1>6. BlocksConserved'
  <2>1. allocated' = allocated \union {b}
    BY DEF AllocCas
  <2>2. \A u \in Threads : Freeing(u)' = Freeing(u)
    BY <1>0 DEF Freeing
  <2>3. \A i, j \in 1..Len(list') : list'[i].offset = list'[j].offset => i = j
    <3>1. \A i \in 1..Len(list') : i \in 1..n /\ list'[i] = list[i]
      BY <1>1, <1>3
    <3>2. QED
      BY <3>1 DEF PoolInv, BlocksConserved
  <2>4. QED
    BY <1>4, <2>1, <2>2, <2>3 DEF PoolInv, BlocksConserved
<1>7. ListIntact'
  <2>1. mem' = mem /\ head' = nextValue[t]
    BY DEF AllocCas
  <2>2. n = 1 => list' = <<>>
    BY <1>3
  <2>3. n # 1 => list' # <<>>
    BY <1>1, <1>3
  <2>4. head' = IF list' = <<>> THEN Invalid ELSE list'[Len(list')]
    <3>1. CASE n = 1
      BY <1>2, <2>1, <2>2, <3>1
    <3>2. CASE n # 1
      <4>1. n - 1 \in 1..(n - 1) /\ Len(list') = n - 1
        BY <1>1, <1>3, <3>2
      <4>2. QED
        BY <1>2, <1>3, <2>1, <2>3, <3>2, <4>1
    <3>3. QED
      BY <3>1, <3>2
  <2>5. ASSUME NEW i \in 1..Len(list')
        PROVE  mem'[list'[i].offset] = IF i = 1 THEN Invalid ELSE list'[i - 1]
    <3>1. i \in 1..n /\ i \in 1..(n - 1) /\ (i # 1 => i - 1 \in 1..(n - 1))
      BY <1>1, <1>3
    <3>2. mem[list[i].offset] = IF i = 1 THEN Invalid ELSE list[i - 1]
      BY <3>1 DEF PoolInv, ListIntact
    <3>3. QED
      BY <1>3, <2>1, <3>1, <3>2
  <2>6. QED
    BY <2>4, <2>5 DEF ListIntact
<1>8. TagsBelow'
  BY <1>1, <1>3 DEF PoolInv, TypeOK, TagsBelow, AllocCas, Return, AllocStates, FreeStates
<1>9. LocalsCurrent'
  BY <1>0, <1>1, <1>3 DEF PoolInv, TypeOK, LocalsCurrent, TailBlock, AllocCas, Return, AllocStates, FreeStates
<1>10. QED
  BY <1>5, <1>6, <1>7, <1>8, <1>9 DEF PoolInv

(* A free begins: the block leaves the caller's hands, and its tag is new. *)
LEMMA FreeBeginKeeps ==
  ASSUME NoThreadCaches, PoolInv, NEW t \in Threads, NEW c \in Intervals, FreeBegin(t, c)
  PROVE  PoolInv'
<1> USE PoolConstants
<1>1. /\ BlocksOf(c) = {c[1]} /\ c[1] \in Blocks /\ c[1] \in allocated /\ c # <<>>
      /\ allocated' = allocated \ {c[1]}
  BY SingleBlock DEF FreeBegin
<1>2. mem' = mem
  BY SingleInner DEF FreeBegin, PoolInv, TypeOK
<1>3. globalTag' = globalTag + 1 /\ globalTag' \in Tags /\ frees' \in 0..MaxFrees
  <2>1. globalTag + 1 \in 0..(TagMod - 1)
    BY DEF FreeBegin, PoolInv, TypeOK, TagsBelow, NoThreadCaches, Tags
  <2>2. (globalTag + 1) % TagMod = globalTag + 1
    BY <2>1, ModBelow
  <2>3. frees' \in 0..MaxFrees
    BY DEF FreeBegin, PoolInv, TypeOK
  <2>4. QED
    BY <2>1, <2>2, <2>3 DEF FreeBegin, NextTag, Tags
<1>4. /\ pc[t] = "idle" /\ pc' = [pc EXCEPT ![t] = "free_load"]
      /\ interval' = [interval EXCEPT ![t] = c] /\ tag' = [tag EXCEPT ![t] = globalTag]
      /\ frees' = frees + 1
      /\ UNCHANGED <<head, headValue, nextValue, list>>
  BY DEF FreeBegin
<1>5. TypeOK'
  BY <1>1, <1>2, <1>3, <1>4 DEF PoolInv, TypeOK, AllocStates, FreeStates
<1>6. BlocksConserved'
  <2>1. Freeing(t)' = {c[1]}
    BY <1>1, <1>4 DEF Freeing, PoolInv, TypeOK, BlocksOf
  <2>2. \A u \in Threads \ {t} : Freeing(u)' = Freeing(u)
    BY <1>4 DEF Freeing, PoolInv, TypeOK, BlocksOf
  <2>3. Freeing(t) = {}
    BY <1>4 DEF Freeing, PoolInv, TypeOK, BlocksOf, FreeStates
  <2>4. Listed' = Listed
    BY <1>4 DEF Listed
  <2>5. QED
    BY <1>1, <1>4, <2>1, <2>2, <2>3, <2>4 DEF PoolInv, BlocksConserved
<1>7. ListIntact'
  BY <1>2, <1>4 DEF PoolInv, ListIntact
<1>8. TagsBelow'
  <2>1. /\ globalTag \in Nat /\ globalTag' = globalTag + 1 /\ globalTag = N - 1 + frees
        /\ frees \in Nat
    BY <1>3 DEF PoolInv, TypeOK, TagsBelow, Tags
  <2>2. \A i \in 1..Len(list) : list[i].tag \in Nat /\ list[i].tag < globalTag
    BY Words DEF PoolInv, TypeOK, TagsBelow, Tags
  <2>3. \A u \in Threads : pc'[u] \in AllocStates =>
          /\ pc[u] \in AllocStates
          /\ headValue[u] \in Links /\ headValue[u].tag \in Nat /\ headValue[u].tag < globalTag
    BY <1>4, Words DEF PoolInv, TypeOK, TagsBelow, Tags, AllocStates
  <2>4. \A u \in Threads : u # t /\ pc'[u] \in FreeStates =>
          /\ pc[u] \in FreeStates /\ tag'[u] = tag[u] /\ tag[u] \in Nat /\ tag[u] < globalTag
    BY <1>4 DEF PoolInv, TypeOK, TagsBelow, Tags
  <2>5. tag'[t] = globalTag
    BY <1>4 DEF PoolInv, TypeOK
  <2>6. ASSUME NEW u \in Threads, pc'[u] \in FreeStates
        PROVE  /\ tag'[u] < globalTag'
               /\ \A i \in 1..Len(list) : list[i].tag # tag'[u]
               /\ \A v \in Threads : pc'[v] \in AllocStates => headValue[v].tag # tag'[u]
               /\ \A v \in Threads : v # u /\ pc'[v] \in FreeStates => tag'[v] # tag'[u]
    <3>1. CASE u = t
      BY <2>1, <2>2, <2>3, <2>4, <2>5, <3>1
    <3>2. CASE u # t
      <4>1. pc[u] \in FreeStates /\ tag'[u] = tag[u] /\ tag[u] \in Nat /\ tag[u] < globalTag
        BY <2>4, <2>6, <3>2
      <4>2. \A v \in Threads : v # u /\ pc'[v] \in FreeStates => tag'[v] # tag'[u]
        BY <2>1, <2>4, <2>5, <4>1 DEF PoolInv, TagsBelow
      <4>3. /\ \A i \in 1..Len(list) : list[i].tag # tag[u]
            /\ \A v \in Threads : pc[v] \in AllocStates => headValue[v].tag # tag[u]
        BY <4>1 DEF PoolInv, TagsBelow
      <4>4. QED
        BY <2>1, <2>3, <4>1, <4>2, <4>3
    <3>3. QED
      BY <3>1, <3>2
  <2>7. globalTag' = N - 1 + frees'
    BY <1>4, <2>1
  <2>8. \A i \in 1..Len(list) : list[i].tag < globalTag'
    BY <2>1, <2>2
  <2>9. \A u \in Threads : pc'[u] \in AllocStates => headValue[u] \in Links /\ headValue[u].tag < globalTag'
    BY <2>1, <2>3
  <2>10. QED
    BY <1>4, <2>6, <2>7, <2>8, <2>9 DEF TagsBelow
<1>9. LocalsCurrent'
  BY <1>2, <1>4 DEF PoolInv, TypeOK, LocalsCurrent, TailBlock
<1>10. QED
  BY <1>5, <1>6, <1>7, <1>8, <1>9 DEF PoolInv

(* FreeInterval() reads head, for the first time or after a failed           *)
(* compare-and-swap.                                                         *)
LEMMA FreeReadKeeps ==
  ASSUME NoThreadCaches, PoolInv, NEW t \in Threads, FreeLoad(t) \/ FreeRetry(t)
  PROVE  PoolInv'
<1> USE PoolConstants
<1>1. /\ pc[t] \in FreeStates /\ pc' = [pc EXCEPT ![t] = "free_link"]
      /\ headValue' = [headValue EXCEPT ![t] = head]
      /\ UNCHANGED <<head, globalTag, mem, allocated, nextValue, tag, interval, frees, list>>
  BY DEF FreeLoad, FreeRetry, shared, FreeStates
<1>2. TypeOK'
  <2>1. head \in Word
    BY DEF PoolInv, TypeOK, Word
  <2>2. QED
    BY <1>1, <2>1 DEF PoolInv, TypeOK, AllocStates, FreeStates
<1>3. BlocksConserved'
  BY <1>1, ConservedFrame DEF PoolInv
<1>4. ListIntact'
  BY <1>1 DEF PoolInv, ListIntact
<1>5. TagsBelow'
  BY <1>1 DEF PoolInv, TypeOK, TagsBelow, AllocStates, FreeStates
<1>6. LocalsCurrent'
  BY <1>1 DEF PoolInv, TypeOK, LocalsCurrent, TailBlock
<1>7. QED
  BY <1>2, <1>3, <1>4, <1>5, <1>6 DEF PoolInv

(* The block a FreeInterval() is pushing, and why nobody else looks at it. *)
LEMMA PushedBlock ==
  ASSUME NoThreadCaches, PoolInv, NEW t \in Threads, pc[t] \in FreeStates
  PROVE  /\ interval[t] \in Intervals /\ interval[t][1] = TailBlock(t)
         /\ TailBlock(t) \in Blocks /\ Freeing(t) = {TailBlock(t)}
         /\ TailBlock(t) \notin allocated
         /\ \A i \in 1..Len(list) : list[i].offset # TailBlock(t)
         /\ \A u \in Threads : u # t /\ pc[u] \in FreeStates => TailBlock(u) # TailBlock(t)
<1>1. \A u \in Threads : pc[u] \in FreeStates =>
        /\ interval[u] \in Intervals /\ interval[u][1] = TailBlock(u)
        /\ TailBlock(u) \in Blocks /\ Freeing(u) = {TailBlock(u)}
  BY SingleBlock DEF PoolInv, TypeOK, TailBlock, Freeing
<1>2. TailBlock(t) \notin allocated /\ TailBlock(t) \notin Listed
  BY <1>1 DEF PoolInv, BlocksConserved
<1>3. \A i \in 1..Len(list) : list[i].offset # TailBlock(t)
  BY <1>2 DEF Listed
<1>4. \A u \in Threads : u # t /\ pc[u] \in FreeStates => TailBlock(u) # TailBlock(t)
  BY <1>1 DEF PoolInv, BlocksConserved
<1>5. QED
  BY <1>1, <1>2, <1>3, <1>4

(* Writing a block that is neither in the list nor being pushed by another   *)
(* thread disturbs nothing: FreeInterval() writing pTail, and the program.   *)
LEMMA WriteKeeps ==
  ASSUME NoThreadCaches, PoolInv, NEW b \in Blocks, NEW w \in Word,
         \A i \in 1..Len(list) : list[i].offset # b,
         mem' = [mem EXCEPT ![b] = w],
         UNCHANGED <<head, list>>
  PROVE  ListIntact' /\ \A i \in 1..Len(list) : mem'[list[i].offset] = mem[list[i].offset]
<1>1. \A i \in 1..Len(list) : list[i].offset \in Blocks
  BY Words DEF PoolInv, TypeOK
<1>2. \A i \in 1..Len(list) : mem'[list[i].offset] = mem[list[i].offset]
  BY <1>1 DEF PoolInv, TypeOK
<1>3. QED
  BY <1>2 DEF PoolInv, ListIntact

LEMMA FreeLinkKeeps ==
  ASSUME NoThreadCaches, PoolInv, NEW t \in Threads, FreeLink(t)
  PROVE  PoolInv'
<1> USE PoolConstants
<1>1. /\ pc[t] \in FreeStates /\ pc' = [pc EXCEPT ![t] = "free_cas"]
      /\ mem' = [mem EXCEPT ![TailBlock(t)] = headValue[t]]
      /\ UNCHANGED <<head, globalTag, allocated, headValue, nextValue, tag, interval, frees, list>>
  BY DEF FreeLink, FreeStates
<1>2. /\ TailBlock(t) \in Blocks
      /\ \A i \in 1..Len(list) : list[i].offset # TailBlock(t)
      /\ \A u \in Threads : u # t /\ pc[u] \in FreeStates => TailBlock(u) # TailBlock(t)
  BY <1>1, PushedBlock
<1>3. TypeOK'
  BY <1>1, <1>2 DEF PoolInv, TypeOK, AllocStates, FreeStates
<1>4. BlocksConserved'
  BY <1>1, ConservedFrame DEF PoolInv
<1>5. ListIntact' /\ \A i \in 1..Len(list) : mem'[list[i].offset] = mem[list[i].offset]
  <2>1. headValue[t] \in Word
    BY DEF PoolInv, TypeOK
  <2>2. QED
    BY <1>1, <1>2, <2>1, WriteKeeps
<1>6. TagsBelow'
  BY <1>1 DEF PoolInv, TypeOK, TagsBelow, AllocStates, FreeStates
<1>7. LocalsCurrent'
  <2>1. \A u \in Threads : TailBlock(u)' = TailBlock(u)
    BY <1>1 DEF TailBlock
  <2>2. ASSUME NEW u \in Threads, pc'[u] = "free_cas"
        PROVE  mem'[TailBlock(u)] = headValue[u]
    <3>1. CASE u = t
      BY <1>1, <1>2, <3>1 DEF PoolInv, TypeOK
    <3>2. CASE u # t
      <4>1. pc[u] = "free_cas" /\ pc[u] \in FreeStates
        BY <1>1, <2>2, <3>2 DEF PoolInv, TypeOK, FreeStates
      <4>2. mem[TailBlock(u)] = headValue[u] /\ TailBlock(u) # TailBlock(t)
        BY <1>2, <3>2, <4>1 DEF PoolInv, LocalsCurrent
      <4>3. TailBlock(u) \in Blocks
        BY <4>1, PushedBlock
      <4>4. QED
        BY <1>1, <1>2, <4>2, <4>3 DEF PoolInv, TypeOK
    <3>3. QED
      BY <3>1, <3>2
  <2>3. ASSUME NEW u \in Threads, NEW i \in 1..Len(list),
               pc'[u] = "alloc_cas", headValue[u] = list[i]
        PROVE  nextValue[u] = mem'[list[i].offset]
    <3>1. pc[u] = "alloc_cas"
      BY <1>1, <2>3 DEF PoolInv, TypeOK, FreeStates
    <3>2. nextValue[u] = mem[list[i].offset]
      BY <2>3, <3>1 DEF PoolInv, LocalsCurrent
    <3>3. QED
      BY <1>5, <3>2
  <2>4. QED
    BY <1>1, <2>1, <2>2, <2>3 DEF LocalsCurrent
<1>8. QED
  BY <1>3, <1>4, <1>5, <1>6, <1>7 DEF PoolInv

(* The successful push: pTail holds the head that is compared, and the new   *)
(* head's tag is on no link that anybody remembers.                          *)
LEMMA FreeCasKeeps ==
  ASSUME NoThreadCaches, PoolInv, NEW t \in Threads, FreeCas(t)
  PROVE  PoolInv'
<1> USE PoolConstants
<1> DEFINE n == Len(list)
           b == TailBlock(t)
           l == LinkTo(b, tag[t])
<1>1. /\ pc[t] = "free_cas" /\ pc[t] \in FreeStates /\ head = headValue[t]
      /\ Return(t) /\ UNCHANGED <<globalTag, mem, allocated, frees>>
  BY DEF FreeCas, HeadMatches, FreeStates
<1>2. /\ interval[t] \in Intervals /\ interval[t][1] = b
      /\ b \in Blocks /\ Freeing(t) = {b}
      /\ \A i \in 1..Len(list) : list[i].offset # b
      /\ \A u \in Threads : u # t /\ pc[u] \in FreeStates => TailBlock(u) # b
  BY <1>1, PushedBlock
<1>3. tag[t] \in Tags /\ l \in Links /\ l.offset = b /\ l.tag = tag[t]
  BY <1>2, Words DEF PoolInv, TypeOK
<1>4. head' = l /\ list' = Append(list, l)
  <2>1. ChainLinks(interval[t], tag[t]) = <<l>>
    BY <1>2, <1>3, SingleChain
  <2>2. list \o <<l>> = Append(list, l)
    BY <1>3 DEF PoolInv, TypeOK
  <2>3. QED
    BY <1>2, <2>1, <2>2 DEF FreeCas
<1>5. /\ list \in Seq(Links) /\ n \in Nat
      /\ list' \in Seq(Links) /\ Len(list') = n + 1 /\ list' # <<>>
      /\ list'[n + 1] = l /\ \A i \in 1..n : list'[i] = list[i]
  BY <1>3, <1>4 DEF PoolInv, TypeOK
<1>6. \A i \in 1..(n + 1) : i = n + 1 \/ i \in 1..n
  BY <1>5
<1>7. \A i \in 1..n : i \in 1..(n + 1) /\ i # n + 1
  BY <1>5
<1>8. mem[b] = IF list = <<>> THEN Invalid ELSE list[n]
  BY <1>1 DEF PoolInv, LocalsCurrent, ListIntact
<1>9. /\ pc' = [pc EXCEPT ![t] = "idle"] /\ interval' = [interval EXCEPT ![t] = <<>>]
      /\ headValue' = [headValue EXCEPT ![t] = Invalid]
      /\ nextValue' = [nextValue EXCEPT ![t] = Invalid]
      /\ tag' = [tag EXCEPT ![t] = 0]
  BY <1>1 DEF Return
<1>10. TypeOK'
  <2>1. Invalid \in Word /\ 0 \in Tags
    BY DEF Word, TaggedIndex, Tags
  <2>2. l \in TaggedIndex
    BY <1>3 DEF TaggedIndex
  <2>3. QED
    BY <1>1, <1>4, <1>5, <1>9, <2>1, <2>2 DEF PoolInv, TypeOK, AllocStates, FreeStates
<1>11. BlocksConserved'
  <2>1. Listed' = Listed \union {b}
    <3>1. Listed' = {list'[i].offset : i \in 1..(n + 1)}
      BY <1>5 DEF Listed
    <3>2. n + 1 \in 1..(n + 1)
      BY <1>5
    <3>3. QED
      BY <1>3, <1>5, <1>6, <1>7, <3>1, <3>2 DEF Listed
  <2>2. Freeing(t)' = {}
    <3>1. interval'[t] = <<>>
      BY <1>9 DEF PoolInv, TypeOK
    <3>2. QED
      BY <3>1 DEF Freeing, BlocksOf
  <2>3. \A u \in Threads \ {t} : Freeing(u)' = Freeing(u)
    BY <1>9 DEF Freeing, PoolInv, TypeOK, BlocksOf
  <2>4. \A i, j \in 1..Len(list') : list'[i].offset = list'[j].offset => i = j
    BY <1>2, <1>3, <1>5, <1>6 DEF PoolInv, BlocksConserved
  <2>5. QED
    BY <1>1, <1>2, <2>1, <2>2, <2>3, <2>4 DEF PoolInv, BlocksConserved
<1>12. ListIntact'
  <2>1. head' = list'[Len(list')]
    BY <1>4, <1>5
  <2>2. ASSUME NEW i \in 1..Len(list')
        PROVE  mem'[list'[i].offset] = IF i = 1 THEN Invalid ELSE list'[i - 1]
    <3>1. CASE i = n + 1
      <4>1. list'[i].offset = b
        BY <1>3, <1>5, <3>1
      <4>2. CASE list = <<>>
        BY <1>1, <1>8, <3>1, <4>1, <4>2
      <4>3. CASE list # <<>>
        <5>1. n \in 1..n /\ i # 1 /\ i - 1 = n
          BY <1>5, <3>1, <4>3
        <5>2. QED
          BY <1>1, <1>5, <1>8, <4>1, <4>3, <5>1
      <4>4. QED
        BY <4>2, <4>3
    <3>2. CASE i # n + 1
      <4>1. i \in 1..n /\ (i # 1 => i - 1 \in 1..n)
        BY <1>5, <1>6, <3>2
      <4>2. mem[list[i].offset] = IF i = 1 THEN Invalid ELSE list[i - 1]
        BY <4>1 DEF PoolInv, ListIntact
      <4>3. QED
        BY <1>1, <1>5, <4>1, <4>2
    <3>3. QED
      BY <3>1, <3>2
  <2>3. QED
    BY <1>5, <2>1, <2>2 DEF ListIntact
<1>13. TagsBelow'
  <2>1. \A i \in 1..Len(list') : list'[i].tag < globalTag
    BY <1>1, <1>3, <1>5, <1>6 DEF PoolInv, TagsBelow
  <2>2. ASSUME NEW u \in Threads, pc'[u] \in FreeStates
        PROVE  /\ u # t /\ pc[u] \in FreeStates /\ tag'[u] = tag[u]
               /\ \A i \in 1..Len(list') : list'[i].tag # tag[u]
    <3>1. u # t /\ pc[u] \in FreeStates /\ tag'[u] = tag[u]
      BY <1>9, <2>2 DEF PoolInv, TypeOK, FreeStates
    <3>2. tag[u] # tag[t] /\ \A i \in 1..n : list[i].tag # tag[u]
      BY <1>1, <3>1 DEF PoolInv, TagsBelow
    <3>3. QED
      BY <1>3, <1>5, <1>6, <3>1, <3>2
  <2>3. \A u \in Threads : pc'[u] \in AllocStates =>
          u # t /\ pc[u] \in AllocStates /\ headValue'[u] = headValue[u]
    BY <1>9 DEF PoolInv, TypeOK, AllocStates
  <2>4. QED
    BY <1>1, <2>1, <2>2, <2>3 DEF PoolInv, TagsBelow
<1>14. LocalsCurrent'
  <2>1. ASSUME NEW u \in Threads, pc'[u] = "free_cas"
        PROVE  mem'[TailBlock(u)'] = headValue'[u]
    BY <1>1, <1>9, <2>1 DEF PoolInv, TypeOK, LocalsCurrent, TailBlock
  <2>2. ASSUME NEW u \in Threads, NEW i \in 1..Len(list'),
               pc'[u] = "alloc_cas", headValue'[u] = list'[i]
        PROVE  nextValue'[u] = mem'[list'[i].offset]
    <3>1. u # t /\ pc[u] = "alloc_cas" /\ headValue'[u] = headValue[u] /\ nextValue'[u] = nextValue[u]
      BY <1>9, <2>2 DEF PoolInv, TypeOK
    <3>2. headValue[u].tag # tag[t]
      BY <1>1, <3>1 DEF PoolInv, TagsBelow, AllocStates
    <3>3. i # n + 1
      BY <1>3, <1>5, <2>2, <3>1, <3>2
    <3>4. i \in 1..n /\ list'[i] = list[i]
      BY <1>5, <1>6, <3>3
    <3>5. nextValue[u] = mem[list[i].offset]
      BY <2>2, <3>1, <3>4 DEF PoolInv, LocalsCurrent
    <3>6. QED
      BY <1>1, <3>1, <3>4, <3>5
  <2>3. QED
    BY <2>1, <2>2 DEF LocalsCurrent
<1>15. QED
  BY <1>10, <1>11, <1>12, <1>13, <1>14 DEF PoolInv

(* The program writes to its own memory, which is neither free nor being     *)
(* freed.                                                                    *)
LEMMA UserWriteKeeps ==
  ASSUME NoThreadCaches, PoolInv, NEW b \in Blocks, UserWrite(b)
  PROVE  PoolInv'
<1> USE PoolConstants
<1>1. /\ b \in allocated /\ mem' = [mem EXCEPT ![b] = UserData]
      /\ UNCHANGED <<head, globalTag, allocated, pc, headValue, nextValue, tag, interval, frees, list>>
  BY DEF UserWrite, locals
<1>2. UserData \in Word
  BY DEF Word
<1>3. \A i \in 1..Len(list) : list[i].offset # b
  <2>1. b \notin Listed
    BY <1>1 DEF PoolInv, BlocksConserved
  <2>2. QED
    BY <2>1 DEF Listed
<1>4. TypeOK'
  BY <1>1, <1>2 DEF PoolInv, TypeOK
<1>5. BlocksConserved'
  BY <1>1, ConservedFrame DEF PoolInv
<1>6. ListIntact' /\ \A i \in 1..Len(list) : mem'[list[i].offset] = mem[list[i].offset]
  BY <1>1, <1>2, <1>3, WriteKeeps
<1>7. TagsBelow'
  BY <1>1 DEF PoolInv, TagsBelow
<1>8. LocalsCurrent'
  <2>1. \A u \in Threads : pc[u] = "free_cas" => TailBlock(u) # b /\ TailBlock(u) \in Blocks
    BY <1>1, PushedBlock DEF FreeStates
  <2>2. \A u \in Threads : TailBlock(u)' = TailBlock(u)
    BY <1>1 DEF TailBlock
  <2>3. \A u \in Threads : pc[u] = "free_cas" => mem'[TailBlock(u)] = mem[TailBlock(u)]
    BY <1>1, <2>1 DEF PoolInv, TypeOK
  <2>4. QED
    BY <1>1, <1>6, <2>2, <2>3 DEF PoolInv, LocalsCurrent
<1>9. QED
  BY <1>4, <1>5, <1>6, <1>7, <1>8 DEF PoolInv

LEMMA PoolStutter ==
  ASSUME PoolInv, UNCHANGED vars
  PROVE  PoolInv'
<1>1. /\ UNCHANGED <<head, globalTag, mem, allocated>>
      /\ UNCHANGED <<pc, headValue, nextValue, tag, interval, frees, list>>
  BY DEF vars
<1>2. TypeOK'
  BY <1>1 DEF PoolInv, TypeOK
<1>3. BlocksConserved'
  BY <1>1, ConservedFrame DEF PoolInv
<1>4. ListIntact'
  BY <1>1 DEF PoolInv, ListIntact
<1>5. TagsBelow'
  BY <1>1 DEF PoolInv, TagsBelow
<1>6. LocalsCurrent'
  BY <1>1 DEF PoolInv, LocalsCurrent, TailBlock
<1>7. QED
  BY <1>2, <1>3, <1>4, <1>5, <1>6 DEF PoolInv

LEMMA PoolNext ==
  ASSUME NoThreadCaches, PoolInv, [Next]_vars
  PROVE  PoolInv'
<1>1. ASSUME NEW t \in Threads, AllocLoad(t) PROVE PoolInv'
  BY <1>1, AllocLoopKeeps DEF AllocLoad, shared, FreeStates
<1>2. ASSUME NEW t \in Threads, AllocRetry(t) PROVE PoolInv'
  BY <1>2, AllocLoopKeeps DEF AllocRetry, FreeStates
<1>3. ASSUME NEW t \in Threads, Step(t) PROVE PoolInv'
  BY <1>2, <1>3, AllocReadKeeps, AllocCasKeeps, FreeReadKeeps, FreeLinkKeeps, FreeCasKeeps DEF Step
<1>4. ASSUME NEW t \in Threads, NEW c \in Intervals, FreeBegin(t, c) PROVE PoolInv'
  BY <1>4, FreeBeginKeeps
<1>5. ASSUME NEW b \in Blocks, UserWrite(b) PROVE PoolInv'
  BY <1>5, UserWriteKeeps
<1>6. CASE UNCHANGED vars
  BY <1>6, PoolStutter
<1>7. QED
  BY <1>1, <1>3, <1>4, <1>5, <1>6 DEF Next

(* Without thread caches, for any number of threads and at least two blocks, *)
(* until globalTag wraps: PoolInv is an invariant of Alloc() and             *)
(* FreeInterval().                                                           *)
THEOREM PoolInvariant ==
  ASSUME NoThreadCaches
  PROVE  Spec => []PoolInv
<1>1. Init => PoolInv
  BY PoolInit
<1>2. PoolInv /\ [Next]_vars => PoolInv'
  BY PoolNext
<1>3. QED
  BY <1>1, <1>2, PTL DEF Spec

(* Alloc() and FreeInterval() keep to their words, tags and intervals: a      *)
(* thread has an interval exactly while it is releasing one.                 *)
THEOREM PoolTyped ==
  ASSUME NoThreadCaches
  PROVE  Spec => []TypeOK
<1>1. PoolInv => TypeOK
  BY DEF PoolInv
<1>2. QED
  BY <1>1, PoolInvariant, PTL

(* No block is handed out twice or lost by any interleaving of pops and      *)
(* pushes of single blocks.                                                  *)
THEOREM PoolConservesBlocks ==
  ASSUME NoThreadCaches
  PROVE  Spec => []BlocksConserved
<1>1. PoolInv => BlocksConserved
  BY DEF PoolInv
<1>2. QED
  BY <1>1, PoolInvariant, PTL

(* The links in the free blocks always are the free list: Alloc() returns    *)
(* nullptr only when no block is free.                                       *)
THEOREM PoolListIntact ==
  ASSUME NoThreadCaches
  PROVE  Spec => []ListIntact
<1>1. PoolInv => ListIntact
  BY DEF PoolInv
<1>2. QED
  BY <1>1, PoolInvariant, PTL

(* "Each time when thread push to the stack, unique 'tag' increased": the    *)
(* tag that fetch_add() gave to a push is on no link in the list and in no   *)
(* other thread's hands until the push is done.                              *)
THEOREM PoolTagsUnique ==
  ASSUME NoThreadCaches
  PROVE  Spec => []TagsUnique
<1>1. ASSUME PoolInv PROVE TagsUnique
  <2>1. globalTag \in Nat /\ \A x \in Nat : x < globalTag => x \in KnownTags
    BY <1>1, PoolConstants DEF PoolInv, TypeOK, Tags, KnownTags
  <2>2. \A i \in 1..Len(list) : list[i].tag \in KnownTags
    <3>1. \A i \in 1..Len(list) : list[i].tag \in Nat
      BY <1>1, PoolConstants, Words DEF PoolInv, TypeOK, Tags
    <3>2. QED
      BY <1>1, <2>1, <3>1 DEF PoolInv, TagsBelow
  <2>3. \A t \in Threads : pc[t] \in AllocStates => headValue[t].tag \in KnownTags
    <3>1. \A l \in Links : l.tag \in Nat
      BY PoolConstants, Words DEF Tags
    <3>2. QED
      BY <1>1, <2>1, <3>1 DEF PoolInv, TagsBelow
  <2>4. QED
    BY <1>1, <2>2, <2>3 DEF PoolInv, TagsBelow, TagsUnique
<1>2. QED
  BY <1>1, PoolInvariant, PTL

(* What a thread has read between its load of the head and its               *)
(* compare-and-swap is still right whenever the comparison can succeed.      *)
THEOREM PoolLocalsCurrent ==
  ASSUME NoThreadCaches
  PROVE  Spec => []LocalsCurrent
<1>1. PoolInv => LocalsCurrent
  BY DEF PoolInv
<1>2. QED
  BY <1>1, PoolInvariant, PTL

(* The claim of the comment in Alloc(): with a new tag for every push, no    *)
(* compare-and-swap installs a next link that has become wrong.              *)
THEOREM PoolNoInvalidCas ==
  ASSUME NoThreadCaches
  PROVE  Spec => []NoInvalidCas
<1>1. ASSUME PoolInv PROVE NoInvalidCas
  <2> SUFFICES ASSUME NEW t \in Threads, pc[t] = "alloc_cas", head = headValue[t]
               PROVE  nextValue[t] = mem[head.offset]
    BY DEF NoInvalidCas
  <2>1. headValue[t] \in Links
    BY <1>1 DEF PoolInv, TagsBelow, AllocStates
  <2>2. list # <<>> /\ head = list[Len(list)]
    BY <1>1, <2>1, Words DEF PoolInv, ListIntact
  <2>3. Len(list) \in 1..Len(list)
    BY <1>1, <2>2 DEF PoolInv, TypeOK
  <2>4. QED
    BY <1>1, <2>2, <2>3 DEF PoolInv, LocalsCurrent
<1>2. QED
  BY <1>1, PoolInvariant, PTL

(* The free list is what nobody holds. *)
LEMMA FreeIsTheRest ==
  ASSUME TypeOK, BlocksConserved
  PROVE  Listed = {b \in Blocks : b \notin allocated /\ \A t \in Threads : b \notin Freeing(t)}
<1>1. Listed \subseteq Blocks
  BY Words DEF TypeOK, Listed
<1>2. QED
  BY <1>1 DEF BlocksConserved

LEMMA FreeIsTheRestNext ==
  ASSUME TypeOK', BlocksConserved'
  PROVE  Listed' = {b \in Blocks : b \notin allocated' /\ \A t \in Threads : b \notin Freeing(t)'}
<1>1. Listed' \subseteq Blocks
  BY Words DEF TypeOK, Listed
<1>2. QED
  BY <1>1 DEF BlocksConserved

(* A pop is the abstract Alloc, at its successful compare-and-swap. *)
LEMMA AllocCasRefines ==
  ASSUME NoThreadCaches, PoolInv, PoolInv', NEW t \in Threads, AllocCas(t)
  PROVE  \E b \in Blocks : Pool!Alloc(b)
<1> DEFINE b == headValue[t].offset
<1>1. interval' = interval /\ allocated' = allocated \union {b} /\ pc[t] = "alloc_cas"
  BY DEF PoolInv, TypeOK, AllocCas, Return, FreeStates
<1>2. headValue[t] \in Links /\ b \in Blocks /\ head = headValue[t]
  BY <1>1, Words DEF PoolInv, TagsBelow, AllocCas, HeadMatches, AllocStates
<1>3. list # <<>> /\ head = list[Len(list)] /\ Len(list) \in 1..Len(list)
  BY <1>2, Words DEF PoolInv, ListIntact, TypeOK
<1>4. b \in Listed
  BY <1>2, <1>3 DEF Listed
<1>5. \A u \in Threads : Freeing(u)' = Freeing(u)
  BY <1>1 DEF Freeing, BlocksOf
<1>6. Listed' = Listed \ {b}
  BY <1>1, <1>4, <1>5, FreeIsTheRest, FreeIsTheRestNext DEF PoolInv
<1>7. Pool!Alloc(b)
  BY <1>1, <1>4, <1>5, <1>6 DEF Pool!Alloc
<1>8. QED
  BY <1>2, <1>7

(* A push is the abstract FreeBegin when the tag is taken, and FreeEnd at    *)
(* its successful compare-and-swap.                                          *)
LEMMA FreeBeginRefines ==
  ASSUME NoThreadCaches, PoolInv, NEW t \in Threads, NEW c \in Intervals, FreeBegin(t, c)
  PROVE  Pool!FreeBegin(t, {c[1]})
<1>1. BlocksOf(c) = {c[1]}
  BY SingleBlock
<1>2. interval[t] = <<>> /\ interval' = [interval EXCEPT ![t] = c] /\ list' = list
  BY DEF PoolInv, TypeOK, FreeBegin, FreeStates
<1>3. Freeing(t) = {}
  BY <1>2 DEF Freeing, BlocksOf
<1>4. Freeing(t)' = {c[1]} /\ \A u \in Threads \ {t} : Freeing(u)' = Freeing(u)
  BY <1>1, <1>2 DEF Freeing, BlocksOf, PoolInv, TypeOK
<1>5. Listed' = Listed
  BY <1>2 DEF Listed
<1>6. [u \in Threads |-> Freeing(u)]' = [[u \in Threads |-> Freeing(u)] EXCEPT ![t] = {c[1]}]
  BY <1>4
<1>7. QED
  BY <1>1, <1>3, <1>5, <1>6 DEF FreeBegin, Pool!FreeBegin

LEMMA FreeCasRefines ==
  ASSUME NoThreadCaches, PoolInv, PoolInv', NEW t \in Threads, FreeCas(t)
  PROVE  Pool!FreeEnd(t)
<1>1. interval' = [interval EXCEPT ![t] = <<>>] /\ allocated' = allocated /\ pc[t] \in FreeStates
  BY DEF FreeCas, Return, FreeStates
<1>2. Freeing(t) # {} /\ Freeing(t) \subseteq Blocks
  BY <1>1, PushedBlock
<1>3. Freeing(t)' = {}
  <2>1. interval'[t] = <<>>
    BY <1>1 DEF PoolInv, TypeOK
  <2>2. QED
    BY <2>1 DEF Freeing, BlocksOf
<1>4. \A u \in Threads \ {t} : Freeing(u)' = Freeing(u)
  BY <1>1 DEF Freeing, BlocksOf, PoolInv, TypeOK
<1>5. /\ Freeing(t) \intersect allocated = {}
      /\ \A u \in Threads \ {t} : Freeing(t) \intersect Freeing(u) = {}
  BY DEF PoolInv, BlocksConserved
<1>6. Listed' = Listed \union Freeing(t)
  BY <1>1, <1>2, <1>3, <1>4, <1>5, FreeIsTheRest, FreeIsTheRestNext DEF PoolInv
<1>7. [u \in Threads |-> Freeing(u)]' = [[u \in Threads |-> Freeing(u)] EXCEPT ![t] = {}]
  BY <1>3, <1>4
<1>8. QED
  BY <1>1, <1>2, <1>6, <1>7 DEF Pool!FreeEnd

(* Every other step leaves the abstract pool alone. *)
LEMMA InnerStepRefines ==
  ASSUME UNCHANGED <<list, allocated, interval>>
  PROVE  UNCHANGED Pool!vars
<1>1. Listed' = Listed /\ \A t \in Threads : Freeing(t)' = Freeing(t)
  BY DEF Listed, Freeing, BlocksOf
<1>2. QED
  BY <1>1 DEF Pool!vars

(* The lock-free list, without thread caches, implements the atomic pool of  *)
(* BlockPool: Alloc() and FreeInterval() look atomic to their callers.       *)
THEOREM PoolRefinement ==
  ASSUME NoThreadCaches
  PROVE  Spec => ImplementsPool
<1>1. ASSUME Init PROVE Pool!Init
  <2>1. PoolInv
    BY <1>1, PoolInit
  <2>2. \A t \in Threads : Freeing(t) = {}
    <3>1. \A t \in Threads : interval[t] = <<>>
      BY <1>1 DEF Init
    <3>2. BlocksOf(<<>>) = {}
      BY DEF BlocksOf
    <3>3. QED
      BY <3>1, <3>2 DEF Freeing
  <2>3. allocated = {}
    BY <1>1 DEF Init
  <2>4. Listed = Blocks
    BY <2>1, <2>2, <2>3, FreeIsTheRest DEF PoolInv
  <2>5. QED
    BY <2>2, <2>3, <2>4 DEF Pool!Init
<1>2. ASSUME PoolInv, PoolInv', [Next]_vars PROVE [Pool!Next]_(Pool!vars)
  <2>1. ASSUME NEW t \in Threads, AllocLoad(t) \/ AllocRetry(t) PROVE UNCHANGED Pool!vars
    <3>1. UNCHANGED <<list, allocated, interval>>
      BY <1>2, <2>1 DEF AllocLoad, AllocRetry, AllocLoop, Return, shared, PoolInv, TypeOK, FreeStates
    <3>2. QED
      BY <3>1, InnerStepRefines
  <2>2. ASSUME NEW t \in Threads, AllocRead(t) \/ FreeLoad(t) \/ FreeRetry(t) \/ FreeLink(t)
        PROVE  UNCHANGED Pool!vars
    <3>1. UNCHANGED <<list, allocated, interval>>
      BY <2>2 DEF AllocRead, FreeLoad, FreeRetry, FreeLink, shared
    <3>2. QED
      BY <3>1, InnerStepRefines
  <2>3. ASSUME NEW t \in Threads, AllocCas(t) PROVE Pool!Next
    BY <1>2, <2>3, AllocCasRefines DEF Pool!Next
  <2>4. ASSUME NEW t \in Threads, FreeCas(t) PROVE Pool!Next
    BY <1>2, <2>4, FreeCasRefines DEF Pool!Next
  <2>5. ASSUME NEW t \in Threads, NEW c \in Intervals, FreeBegin(t, c) PROVE Pool!Next
    BY <1>2, <2>5, FreeBeginRefines, SingleBlock DEF Pool!Next
  <2>6. ASSUME NEW b \in Blocks, UserWrite(b) PROVE UNCHANGED Pool!vars
    <3>1. UNCHANGED <<list, allocated, interval>>
      BY <2>6 DEF UserWrite, locals
    <3>2. QED
      BY <3>1, InnerStepRefines
  <2>7. CASE UNCHANGED vars
    <3>1. UNCHANGED <<list, allocated, interval>>
      BY <2>7 DEF vars
    <3>2. QED
      BY <3>1, InnerStepRefines
  <2>8. QED
    BY <1>2, <2>1, <2>2, <2>3, <2>4, <2>5, <2>6, <2>7 DEF Next, Step
<1>3. QED
  BY <1>1, <1>2, PoolInvariant, PTL DEF Spec, ImplementsPool, Pool!Spec
=============================================================================
