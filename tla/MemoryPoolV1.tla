---------------------------- MODULE MemoryPoolV1 ----------------------------
(***************************************************************************)
(* One pool of v1 (v1/src/MemoryPool.cpp): slots of one size, carved from  *)
(* blocks under a mutex and reused through a lock-free list whose head is  *)
(* a pointer with a tag.  A thread takes one step per access to the head   *)
(* or to the link of a slot.                                               *)
(*                                                                         *)
(* Addresses count words of SLOT_BASE_SIZE bytes, 0 is nullptr.  The link  *)
(* is the first word of the slot and belongs to the program while the      *)
(* program holds the slot: a thread with a stale head may read anything    *)
(* there.  compare_exchange_weak may fail without a reason.                *)
(*                                                                         *)
(* Accesses are taken in one order that all threads see.  The code orders  *)
(* less: links are read and written relaxed, and an exchange that fails    *)
(* reloads the head relaxed (line 119).                                    *)
(***************************************************************************)
EXTENDS Integers, FiniteSets, Bags, BagsExt

CONSTANTS
  Threads,
  NumWords,      \* words of the modelled memory
  BlockSize,     \* BlockSize_, in words
  SlotSize,      \* SlotSize_, in words
  Junk,          \* what the program leaves in the first word of a slot
  MaxTag         \* bound: the head changes at most this often

ASSUME MemoryPoolV1Assumption ==
  /\ NumWords \in Nat /\ MaxTag \in Nat
  /\ SlotSize \in Nat \ {0}
  /\ BlockSize \in Nat /\ BlockSize > 2 * SlotSize
  /\ Junk \subseteq 0 .. NumWords

nullptr == 0
Words   == 1 .. NumWords

VARIABLES
  blocks,              \* the blocks on the list of firstBlock_, by address
  curSlot, lastSlot,   \* curSlot_, lastSlot_
  freeList,            \* freeList_: the tagged head
  next,                \* Slot::next of the slots whose first word is the pool's
  op,                  \* what each thread is doing
  owned,               \* the bag of slots the program holds
  alive                \* FALSE once the destructor has run

vars == <<blocks, curSlot, lastSlot, freeList, next, op, owned, alive>>

TaggedPtr == [ptr : Words \cup {nullptr}, tag : 0 .. MaxTag]

Idle == [at |-> "idle", old |-> [ptr |-> nullptr, tag |-> 0], slot |-> nullptr]

WordsOf(p, n) == p .. (p + n - 1)

-----------------------------------------------------------------------------
(* popFreeList.                                                            *)

(* A variant that compares the pointer and forgets the tag.                *)
UnchangedPtrOnly(old) == freeList.ptr = old.ptr

Unchanged(old) == freeList = old

Exhausted(old) == old.ptr = nullptr

LinkOf(p) == IF p \in DOMAIN next THEN {next[p]} ELSE Junk

PopLoad(t) ==
  /\ op[t] = Idle
  /\ op' = [op EXCEPT ![t] = [@ EXCEPT !.at = "popRead", !.old = freeList]]
  /\ UNCHANGED <<blocks, curSlot, lastSlot, freeList, next, owned, alive>>

PopRead(t) ==
  /\ op[t].at = "popRead"
  /\ \/ /\ Exhausted(op[t].old)
        /\ op' = [op EXCEPT ![t] = [Idle EXCEPT !.at = "carve"]]
     \/ /\ ~ Exhausted(op[t].old)
        /\ \E p \in LinkOf(op[t].old.ptr) :
             op' = [op EXCEPT ![t] = [@ EXCEPT !.at = "popCas", !.slot = p]]
  /\ UNCHANGED <<blocks, curSlot, lastSlot, freeList, next, owned, alive>>

PopTake(t) ==
  LET old == op[t].old
  IN  /\ op[t].at = "popCas"
      /\ Unchanged(old)
      /\ old.tag < MaxTag
      /\ freeList' = [ptr |-> op[t].slot, tag |-> old.tag + 1]
      /\ next' = [p \in DOMAIN next \ {old.ptr} |-> next[p]]
      /\ owned' = BagAdd(owned, old.ptr)
      /\ op' = [op EXCEPT ![t] = Idle]
      /\ UNCHANGED <<blocks, curSlot, lastSlot, alive>>

PopRetry(t) ==
  /\ op[t].at = "popCas"
  /\ op' = [op EXCEPT ![t] = [Idle EXCEPT !.at = "popRead", !.old = freeList]]
  /\ UNCHANGED <<blocks, curSlot, lastSlot, freeList, next, owned, alive>>

-----------------------------------------------------------------------------
(* allocate, when the list is empty: the critical section of mutexForBlock_. *)

padPointer(p) == SlotSize - (p % SlotSize)

(* A variant that lets the last slot run over the end of its block.        *)
lastSlotOfOver(base) == base + BlockSize

lastSlotOf(base) == base + BlockSize - SlotSize + 1

CarveFrom(t, slot) ==
  /\ owned' = BagAdd(owned, slot)
  /\ curSlot' = slot + SlotSize
  /\ op' = [op EXCEPT ![t] = Idle]
  /\ UNCHANGED <<freeList, next, alive>>

Carve(t) ==
  /\ op[t].at = "carve"
  /\ curSlot < lastSlot
  /\ CarveFrom(t, curSlot)
  /\ UNCHANGED <<blocks, lastSlot>>

(* allocateNewBlock: one word at the front links the blocks.               *)
CarveNewBlock(t) ==
  /\ op[t].at = "carve"
  /\ curSlot >= lastSlot
  /\ \E base \in Words :
       /\ WordsOf(base, BlockSize) \subseteq Words
       /\ \A b \in blocks : WordsOf(b, BlockSize) \cap WordsOf(base, BlockSize) = {}
       /\ blocks' = blocks \cup {base}
       /\ lastSlot' = lastSlotOf(base)
       /\ CarveFrom(t, base + 1 + padPointer(base + 1))

(* operator new throws; the lock is released and nothing has changed.      *)
CarveFails(t) ==
  /\ op[t].at = "carve"
  /\ curSlot >= lastSlot
  /\ op' = [op EXCEPT ![t] = Idle]
  /\ UNCHANGED <<blocks, curSlot, lastSlot, freeList, next, owned, alive>>

-----------------------------------------------------------------------------
(* deallocate and pushFreeList.                                            *)

PushLoad(t, p) ==
  /\ op[t] = Idle
  /\ owned' = BagRemove(owned, p)
  /\ op' = [op EXCEPT ![t] = [at |-> "pushStore", old |-> freeList, slot |-> p]]
  /\ UNCHANGED <<blocks, curSlot, lastSlot, freeList, next, alive>>

(* A variant that ends the list at the slot pushed.                        *)
LinkTargetNone(old) == nullptr

LinkTarget(old) == old.ptr

PushStore(t) ==
  /\ op[t].at = "pushStore"
  /\ next' = [p \in DOMAIN next \cup {op[t].slot} |->
                IF p = op[t].slot THEN LinkTarget(op[t].old) ELSE next[p]]
  /\ op' = [op EXCEPT ![t].at = "pushCas"]
  /\ UNCHANGED <<blocks, curSlot, lastSlot, freeList, owned, alive>>

PushPublish(t) ==
  /\ op[t].at = "pushCas"
  /\ Unchanged(op[t].old)
  /\ op[t].old.tag < MaxTag
  /\ freeList' = [ptr |-> op[t].slot, tag |-> op[t].old.tag + 1]
  /\ op' = [op EXCEPT ![t] = Idle]
  /\ UNCHANGED <<blocks, curSlot, lastSlot, next, owned, alive>>

(* A variant that tries again without storing the link again.              *)
PushRetryUnlinked(t) ==
  /\ op[t].at = "pushCas"
  /\ op' = [op EXCEPT ![t].old = freeList]
  /\ UNCHANGED <<blocks, curSlot, lastSlot, freeList, next, owned, alive>>

PushRetry(t) ==
  /\ op[t].at = "pushCas"
  /\ op' = [op EXCEPT ![t] = [@ EXCEPT !.at = "pushStore", !.old = freeList]]
  /\ UNCHANGED <<blocks, curSlot, lastSlot, freeList, next, owned, alive>>

-----------------------------------------------------------------------------
(* ~MemoryPool, when the program's threads have ended.                     *)
Destroy ==
  /\ alive
  /\ \A t \in Threads : op[t] = Idle
  /\ alive' = FALSE
  /\ blocks' = {}
  /\ owned' = EmptyBag
  /\ next' = [p \in {} |-> nullptr]
  /\ UNCHANGED <<curSlot, lastSlot, freeList, op>>

Init ==
  /\ blocks = {}
  /\ curSlot = nullptr
  /\ lastSlot = nullptr
  /\ freeList = [ptr |-> nullptr, tag |-> 0]
  /\ next = [p \in {} |-> nullptr]
  /\ op = [t \in Threads |-> Idle]
  /\ owned = EmptyBag
  /\ alive = TRUE

Step(t) ==
  \/ PopLoad(t)
  \/ PopRead(t)
  \/ PopTake(t)
  \/ PopRetry(t)
  \/ Carve(t)
  \/ CarveNewBlock(t)
  \/ CarveFails(t)
  \/ \E p \in DOMAIN owned : PushLoad(t, p)
  \/ PushStore(t)
  \/ PushPublish(t)
  \/ PushRetry(t)

Next ==
  \/ alive /\ \E t \in Threads : Step(t)
  \/ Destroy

Spec == Init /\ [][Next]_vars

-----------------------------------------------------------------------------
(* The slots a walk from the head of the list meets: those in every set    *)
(* that holds the head and is left by no link but the last.                *)
Closed(C) ==
  /\ freeList.ptr \in C \cup {nullptr}
  /\ \A p \in C : next[p] \in C \cup {nullptr}

FreeSlots == {p \in DOMAIN next : \A C \in SUBSET DOMAIN next : Closed(C) => p \in C}

Pushing(t) == IF op[t].at \in {"pushStore", "pushCas"} THEN {op[t].slot} ELSE {}
Known      == DOMAIN owned \cup FreeSlots \cup UNION {Pushing(t) : t \in Threads}

(* The head and the links lead to each slot of the list and to its end, to *)
(* none of them twice.                                                     *)
Chain ==
  /\ {freeList.ptr} \cup {next[p] : p \in FreeSlots} = FreeSlots \cup {nullptr}
  /\ \A p \in FreeSlots : next[p] # freeList.ptr
  /\ \A p, q \in FreeSlots : p # q => next[p] # next[q]

(* The free list is a chain of slots that are free: it ends, no link in it *)
(* is the program's to overwrite, and no slot in it is held or about to be *)
(* pushed again.                                                           *)
FreeListSound ==
  alive =>
    /\ Chain
    /\ FreeSlots \cap DOMAIN owned = {}
    /\ \A t \in Threads :
         /\ Pushing(t) \cap (FreeSlots \cup DOMAIN owned) = {}
         /\ \A u \in Threads : t # u => Pushing(t) \cap Pushing(u) = {}

(* A slot once carved is never lost: it stays with the program, on the     *)
(* list, or in the hands of the thread that pushes it.                     *)
SlotsKept == [][alive' => Known \subseteq Known']_vars

(* Every slot is aligned to its size, inside a block and behind the word   *)
(* that links the blocks.                                                  *)
SlotsInBlocks ==
  alive => \A p \in Known :
    /\ p % SlotSize = 0
    /\ \E b \in blocks : WordsOf(p, SlotSize) \subseteq WordsOf(b + 1, BlockSize - 1)

(* The pool keeps the promise of RangeAllocator: whatever the threads do   *)
(* between load and exchange, no slot is handed out while it is in use     *)
(* (one handed out twice would count as two in the bag of the program's).  *)
Promise == INSTANCE RangeAllocator
             WITH Extent <- NumWords + 1, Slack <- 0,
                  live <- [p \in DOMAIN owned |-> SlotSize * owned[p]], running <- alive
ImplementsRangeAllocator == Promise!Spec
=============================================================================
