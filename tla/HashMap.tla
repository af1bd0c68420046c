------------------------------- MODULE HashMap -------------------------------
(***************************************************************************)
(* The hash map of utl_hash_map.c: chains of members behind a table of     *)
(* slots, N_LOCK spin locks that each guard every N_LOCK-th slot, and a    *)
(* rebuild that doubles the table under all the locks.  An operation       *)
(* computes its slot from key_len and key_mask before it has a lock, and   *)
(* tries again when key_len is another one afterwards.                     *)
(*                                                                         *)
(* The map has two kinds of clients.  The event queue makes every call     *)
(* under queue_lock ("serial") and removes what it finds.  The page blocks *)
(* and the allocation contexts are looked up and, when missing, added by   *)
(* any thread with no lock around the two calls, and never removed         *)
(* ("shared").                                                             *)
(***************************************************************************)
EXTENDS Integers, Sequences, FiniteSets, SequencesExt

CONSTANTS
    Threads, NoThread,
    Keys,              \* the keys in use, words
    WordBits,          \* 64
    NLock,             \* N_LOCK
    HT_INIT_KEY_LEN,
    Members,           \* bound: the map_member structures
    Clients            \* which of the two kinds of clients

ASSUME HashMapAssumption ==
    /\ NoThread \notin Threads
    /\ WordBits \in Nat /\ HT_INIT_KEY_LEN \in 1 .. WordBits
    /\ Keys \subseteq 0 .. 2^WordBits - 1
    /\ NLock \in 1 .. 2^HT_INIT_KEY_LEN
    /\ Clients \subseteq {"serial", "shared"}
    /\ Members \subseteq Nat \ {0} /\ IsFiniteSet(Members)
    /\ Cardinality(Members) <= 2^(WordBits - 1)   \* they are in memory

VARIABLES
    client,     \* the kind of client of this map, or "gone"
    map,        \* hmap->map, a chain of members for each slot, newest first
    fill, key_len,
    mask_len,   \* the key length that hmap->key_mask is the mask of
    lock,       \* hmap->lock, the holder of each
    members,    \* hmap->members, as it is walked
    key,        \* the key of a member in use
    pc, op,     \* where a thread is in an operation, and its local variables
    torn        \* history: added to a slot of two different key lengths

vars == <<client, map, fill, key_len, mask_len, lock, members, key, pc, op, torn>>

NoKey == -1
Size == Cardinality(DOMAIN map)
LockIdx == 0 .. NLock - 1
InUse == {m \in Members : key[m] # NoKey}
NoOp == [call |-> "none", key |-> NoKey, len |-> 0, mask |-> 0, slot |-> 0,
         i |-> 0, member |-> 0, first |-> <<>>]

Init ==
    /\ client \in Clients
    /\ map = [s \in 0 .. 2^HT_INIT_KEY_LEN - 1 |-> <<>>]
    /\ fill = 0
    /\ key_len = HT_INIT_KEY_LEN
    /\ mask_len = HT_INIT_KEY_LEN
    /\ lock = [i \in LockIdx |-> NoThread]
    /\ members = <<>>
    /\ key = [m \in Members |-> NoKey]
    /\ pc = [t \in Threads |-> "idle"]
    /\ op = [t \in Threads |-> NoOp]
    /\ torn = {}

-----------------------------------------------------------------------------
(* The slot of a key.                                                      *)

\* The bits in which the mask of a key length is zero: h & ~mask.
Masked(h, len) ==
    LET low == (WordBits - len) \div 2
    IN  ((h \div 2^low) % 2^len) * 2^low

\* Mutant: the mask lets one bit too many through.
WideSlot(k, masklen, len) ==
    LET h == k + k \div 2^len + k \div 2^(2 * len) + k \div 2^(4 * len)
    IN  Masked((h * h) % 2^WordBits, masklen + 1) \div 2^((WordBits - len) \div 2)

get_map_slot(k, masklen, len) ==
    LET h == k + k \div 2^len + k \div 2^(2 * len) + k \div 2^(4 * len)
    IN  Masked((h * h) % 2^WordBits, masklen) \div 2^((WordBits - len) \div 2)

get_lock_idx(slot) == slot % NLock

hash_map_full == Size \div 2 < fill

\* get_map_member() and map_member_exist(): the newest member of the chain
\* with the key, 0 for none.
get_map_member(slot, k) ==
    LET found == {i \in DOMAIN map[slot] : key[map[slot][i]] = k}
    IN  IF found = {} THEN 0
        ELSE map[slot][CHOOSE i \in found : \A j \in found : i <= j]

-----------------------------------------------------------------------------
(* Calls.                                                                  *)

Goto(t, label) == pc' = [pc EXCEPT ![t] = label]

Return(t) ==
    /\ Goto(t, "idle")
    /\ op' = [op EXCEPT ![t] = NoOp]

\* Mutant: the queue calls without its lock.
CallUnlocked(t, call, k) ==
    /\ pc[t] = "idle" /\ client # "gone"
    /\ call = "find" \/ (call = "add" /\ client = "serial")
    /\ op' = [op EXCEPT ![t].call = call, ![t].key = k]
    /\ Goto(t, IF call = "add" THEN "full" ELSE "len")
    /\ UNCHANGED <<client, map, fill, key_len, mask_len, lock, members, key, torn>>

\* A call of the client.  Both kinds begin with a lookup; the event queue
\* also adds without one.  The queue's lock is held from call to return.
Call(t, call, k) ==
    /\ pc[t] = "idle" /\ client # "gone"
    /\ call = "find" \/ (call = "add" /\ client = "serial")
    /\ client = "serial" => \A u \in Threads : pc[u] = "idle"
    /\ op' = [op EXCEPT ![t].call = call, ![t].key = k]
    /\ Goto(t, IF call = "add" THEN "full" ELSE "len")
    /\ UNCHANGED <<client, map, fill, key_len, mask_len, lock, members, key, torn>>

\* hash_map_add_member(): is there to be a rebuild?  No lock is held.
AddMember(t) ==
    /\ pc[t] = "full"
    /\ Goto(t, IF hash_map_full THEN "rebuild" ELSE "len")
    /\ UNCHANGED <<client, map, fill, key_len, mask_len, lock, members, key, op, torn>>

-----------------------------------------------------------------------------
(* hash_map_rebuild().                                                     *)

\* Mutant: the early return keeps the lock.
RebuildKeepsLock(t) ==
    /\ pc[t] = "rebuild"
    /\ lock[0] = NoThread
    /\ lock' = [lock EXCEPT ![0] = t]
    /\ op' = [op EXCEPT ![t].i = 1]
    /\ Goto(t, IF hash_map_full THEN "lockall" ELSE "len")
    /\ UNCHANGED <<client, map, fill, key_len, mask_len, members, key, torn>>

\* Under the first lock the map is no longer full if another thread was here.
hash_map_rebuild(t) ==
    /\ pc[t] = "rebuild"
    /\ lock[0] = NoThread
    /\ IF hash_map_full
       THEN /\ lock' = [lock EXCEPT ![0] = t]
            /\ op' = [op EXCEPT ![t].i = 1]
            /\ Goto(t, "lockall")
       ELSE /\ Goto(t, "len")
            /\ UNCHANGED <<lock, op>>
    /\ UNCHANGED <<client, map, fill, key_len, mask_len, members, key, torn>>

LockAll(t) ==
    /\ pc[t] = "lockall"
    /\ IF op[t].i < NLock
       THEN /\ lock[op[t].i] = NoThread
            /\ lock' = [lock EXCEPT ![op[t].i] = t]
            /\ op' = [op EXCEPT ![t].i = @ + 1]
            /\ UNCHANGED pc
       ELSE /\ Goto(t, IF members = <<>> THEN "unlockall" ELSE "resize")
            /\ UNCHANGED <<lock, op>>
    /\ UNCHANGED <<client, map, fill, key_len, mask_len, members, key, torn>>

\* A new table of twice the size, and key_len, which a reader without a lock
\* may see before it sees the new key_mask.
Resize(t) ==
    /\ pc[t] = "resize"
    /\ map' = [s \in 0 .. 2 * Size - 1 |-> <<>>]
    /\ key_len' = key_len + 1
    /\ Goto(t, "rehash")
    /\ UNCHANGED <<client, fill, mask_len, lock, members, key, op, torn>>

\* A member that the walk meets moves to the head of its new chain.
Moved(chains, m) ==
    [chains EXCEPT ![get_map_slot(key[m], key_len, key_len)] = <<m>> \o @]

Rehash(t) ==
    /\ pc[t] = "rehash"
    /\ mask_len' = key_len
    /\ LET walk[n \in 0 .. Len(members)] ==
             IF n = 0 THEN map ELSE Moved(walk[n - 1], members[n])
       IN  map' = walk[Len(members)]
    /\ torn' = {}
    /\ Goto(t, "unlockall")
    /\ UNCHANGED <<client, fill, key_len, lock, members, key, op>>

UnlockAll(t) ==
    /\ pc[t] = "unlockall"
    /\ lock' = [i \in LockIdx |-> NoThread]
    /\ Goto(t, "len")
    /\ UNCHANGED <<client, map, fill, key_len, mask_len, members, key, op, torn>>

-----------------------------------------------------------------------------
(* The loop in front of every operation, which ends with the slot's lock.  *)

ReadKeyLen(t) ==
    /\ pc[t] = "len"
    /\ op' = [op EXCEPT ![t].len = key_len]
    /\ Goto(t, "slot")
    /\ UNCHANGED <<client, map, fill, key_len, mask_len, lock, members, key, torn>>

ComputeSlot(t) ==
    /\ pc[t] = "slot"
    /\ op' = [op EXCEPT ![t].mask = mask_len,
                        ![t].slot = get_map_slot(op[t].key, mask_len, op[t].len)]
    /\ Goto(t, "lock")
    /\ UNCHANGED <<client, map, fill, key_len, mask_len, lock, members, key, torn>>

\* Mutant: the slot is used whatever happened before the lock was there.
LockSlotOnce(t) ==
    /\ pc[t] = "lock"
    /\ lock[get_lock_idx(op[t].slot)] = NoThread
    /\ lock' = [lock EXCEPT ![get_lock_idx(op[t].slot)] = t]
    /\ Goto(t, op[t].call)
    /\ UNCHANGED <<client, map, fill, key_len, mask_len, members, key, op, torn>>

LockSlot(t) ==
    /\ pc[t] = "lock"
    /\ lock[get_lock_idx(op[t].slot)] = NoThread
    /\ IF op[t].len = key_len
       THEN /\ lock' = [lock EXCEPT ![get_lock_idx(op[t].slot)] = t]
            /\ Goto(t, op[t].call)
       ELSE /\ Goto(t, "len")
            /\ UNCHANGED lock
    /\ UNCHANGED <<client, map, fill, key_len, mask_len, members, key, op, torn>>

UnlockSlot(t) == lock' = [lock EXCEPT ![get_lock_idx(op[t].slot)] = NoThread]

-----------------------------------------------------------------------------
(* Under the slot's lock.                                                  *)

\* hash_map_add_member(): the member is in its chain; list_add() to
\* hmap->members, which no lock guards, has read the head of that list.
AddToChain(t) ==
    /\ pc[t] = "add"
    /\ InUse # Members          \* the bound
    /\ LET m == CHOOSE x \in Members \ InUse : \A y \in Members \ InUse : x <= y
       IN  /\ key' = [key EXCEPT ![m] = op[t].key]
           /\ map' = [map EXCEPT ![op[t].slot] = <<m>> \o @]
           /\ op' = [op EXCEPT ![t].member = m, ![t].first = members]
           /\ torn' = IF op[t].mask # op[t].len THEN torn \cup {m} ELSE torn
    /\ Goto(t, "link")
    /\ UNCHANGED <<client, fill, key_len, mask_len, lock, members>>

\* The rest of list_add() and of the operation.
AddToMembers(t) ==
    /\ pc[t] = "link"
    /\ members' = <<op[t].member>> \o op[t].first
    /\ fill' = fill + 1
    /\ UnlockSlot(t)
    /\ Return(t)
    /\ UNCHANGED <<client, map, key_len, mask_len, key, torn>>

\* hash_map_find_member() returns NULL: the client adds.
FindNothing(t) ==
    /\ pc[t] = "find"
    /\ get_map_member(op[t].slot, op[t].key) = 0
    /\ UnlockSlot(t)
    /\ IF client = "shared"
       THEN /\ op' = [op EXCEPT ![t] = [NoOp EXCEPT !.call = "add", !.key = op[t].key]]
            /\ Goto(t, "full")
       ELSE Return(t)
    /\ UNCHANGED <<client, map, fill, key_len, mask_len, members, key, torn>>

FindMember(t) ==
    /\ pc[t] = "find"
    /\ get_map_member(op[t].slot, op[t].key) # 0
    /\ UnlockSlot(t)
    /\ op' = [op EXCEPT ![t].member = get_map_member(op[t].slot, op[t].key)]
    /\ Goto(t, "value")
    /\ UNCHANGED <<client, map, fill, key_len, mask_len, members, key, torn>>

\* member->val is read without the lock.  The event queue may then delete.
ReadValue(t) ==
    /\ pc[t] = "value"
    /\ \/ Return(t)
       \/ /\ client = "serial"
          /\ op' = [op EXCEPT ![t].call = "delete"]
          /\ Goto(t, "len")
    /\ UNCHANGED <<client, map, fill, key_len, mask_len, lock, members, key, torn>>

\* hash_map_delete_member() and map_member_free().
DeleteMember(t) ==
    /\ pc[t] = "delete"
    /\ LET m == get_map_member(op[t].slot, op[t].key)
       IN  /\ m # 0
           /\ map' = [map EXCEPT ![op[t].slot] = RemoveFirst(@, m)]
           /\ members' = RemoveFirst(members, m)
           /\ key' = [key EXCEPT ![m] = NoKey]
    /\ fill' = fill - 1
    /\ UnlockSlot(t)
    /\ Return(t)
    /\ UNCHANGED <<client, key_len, mask_len, torn>>

\* delete_hash_map(), when the library is destroyed.
delete_hash_map ==
    /\ client # "gone" /\ \A t \in Threads : pc[t] = "idle"
    /\ client' = "gone"
    /\ map' = [s \in DOMAIN map |-> <<>>]
    /\ members' = <<>>
    /\ key' = [m \in Members |-> NoKey]
    /\ fill' = 0 /\ torn' = {}
    /\ UNCHANGED <<key_len, mask_len, lock, pc, op>>

Step(t) ==
    \/ AddMember(t) \/ hash_map_rebuild(t) \/ LockAll(t) \/ Resize(t) \/ Rehash(t)
    \/ UnlockAll(t) \/ ReadKeyLen(t) \/ ComputeSlot(t) \/ LockSlot(t) \/ AddToChain(t)
    \/ AddToMembers(t) \/ FindNothing(t) \/ FindMember(t) \/ ReadValue(t)
    \/ DeleteMember(t)

Next ==
    \/ \E t \in Threads, call \in {"find", "add"}, k \in Keys : Call(t, call, k)
    \/ \E t \in Threads : Step(t)
    \/ delete_hash_map

Spec == Init /\ [][Next]_vars

-----------------------------------------------------------------------------
(* Properties.                                                             *)

Linking(m) == \E t \in Threads : pc[t] = "link" /\ op[t].member = m

\* Two list_add() at once to hmap->members: the walk does not meet m.
Unlinked(m) == m \notin Range(members) /\ ~Linking(m)

\* hash_map_find_member() misses a key that is in the map for three reasons
\* only: a slot computed from the new key_len and the old key_mask, by this
\* lookup or by the one that added the member, or a member that the
\* unguarded list hmap->members lost before a rebuild walked it.
LookupMissesOnlyByRace ==
    \A t \in Threads, m \in Members :
        /\ pc[t] = "find" /\ key[m] = op[t].key /\ m \notin torn
        /\ ~Unlinked(m) /\ op[t].mask = op[t].len
        => get_map_member(op[t].slot, op[t].key) # 0

\* What the event queue finds stays while it holds the queue's lock, though
\* the slot's lock is given up in between: member->val is still the value of
\* the key, and hash_map_delete_member() meets the member in whatever slot it
\* is by then (its assertion, member != NULL).
FoundMemberStays ==
    \A t \in Threads :
        /\ pc[t] = "value" => key[op[t].member] = op[t].key
        /\ pc[t] = "delete" => get_map_member(op[t].slot, op[t].key) # 0

\* Even a slot of two key lengths is a slot of the table that is there when
\* the lock has been taken.
SlotInTable ==
    \A t \in Threads : pc[t] \in {"find", "add", "link", "delete"} =>
        /\ op[t].slot \in DOMAIN map
        /\ lock[get_lock_idx(op[t].slot)] = t

\* A thread spins on a lock that another one holds.
Spinning(t) ==
    \/ pc[t] = "rebuild" /\ lock[0] # NoThread
    \/ pc[t] = "lockall" /\ op[t].i < NLock /\ lock[op[t].i] # NoThread
    \/ pc[t] = "lock" /\ lock[get_lock_idx(op[t].slot)] # NoThread

\* A rebuild that collects all the locks and the operations that hold one do
\* not wait for each other, nor do two rebuilds: not all threads spin, and
\* none spins on a lock of a thread that has returned.
NoDeadlock ==
    /\ (\E t \in Threads : Spinning(t)) =>
          \E t \in Threads : pc[t] # "idle" /\ ~Spinning(t)
    /\ \A i \in LockIdx : lock[i] # NoThread => pc[lock[i]] # "idle"

=============================================================================
