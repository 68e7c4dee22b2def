----------------------------- MODULE HashTable -----------------------------
(***************************************************************************)
(* The hash table of hash/hashtable.c as the registry of a DAWG uses it    *)
(* (dawg.h, dawg.c).  The keys are nodes, found by their address and filed *)
(* under a hash of their contents, which change: add_word takes a node out *)
(* before it changes it and files it again afterwards.  Module NodeTable   *)
(* puts the nodes themselves in the place of their hashes.                 *)
(***************************************************************************)
EXTENDS Integers, FiniteSets, SequencesExt

CONSTANTS Key,           \* addresses of nodes
          HashValue,     \* the hashes contents may have
          InitialSize,   \* size of a new table, 101 in dawg.c
          MaxSize        \* bound: a table this long does not grow

VARIABLES size, table, count,   \* HashTable
          held,                 \* the item taken out while its key changes
          hash                  \* dawgnode_hash of each node now

tableVars == <<size, table, count, held>>
vars == <<tableVars, hash>>

EmptyTable(n) == [index \in 0..(n - 1) |-> <<>>]

(***************************************************************************)
(* (size_t)(size * 0.7)                                                    *)
(***************************************************************************)
Threshold(n) == (n * 7) \div 10

-----------------------------------------------------------------------------

(***************************************************************************)
(* hashtable_resize of table t: bucket after bucket, every item moves to   *)
(* the head of the bucket of the hash it was filed under.                  *)
(***************************************************************************)
MovedTo(item, newsize) == item.hash % newsize

BucketMoved(bucket, new) ==
  LET moved[j \in 0..Len(bucket)] ==
        IF j = 0 THEN new
        ELSE [moved[j - 1] EXCEPT
                ![MovedTo(bucket[j], Cardinality(DOMAIN new))] = <<bucket[j]>> \o @]
  IN  moved[Len(bucket)]

Resized(t, newsize) ==
  LET moved[i \in 0..Cardinality(DOMAIN t)] ==
        IF i = 0 THEN EmptyTable(newsize) ELSE BucketMoved(t[i - 1], moved[i - 1])
  IN  moved[Cardinality(DOMAIN t)]

(***************************************************************************)
(* resize_hash of dawg.c, for table t with n items.                        *)
(***************************************************************************)
TooFull(n) == n > Threshold(size)

GrownSize(n) == IF TooFull(n) THEN size * 2 ELSE size
Grown(t, n) == IF TooFull(n) THEN Resized(t, size * 2) ELSE t

(***************************************************************************)
(* hashtable_add to table t: at the head of the bucket of the hash.        *)
(***************************************************************************)
Added(t, k, h) ==
  [t EXCEPT ![h % Cardinality(DOMAIN t)] = <<[key |-> k, hash |-> h]>> \o @]

(***************************************************************************)
(* Where k is found in the bucket of its present hash: hashtable_get and   *)
(* hashtable_del stop at the first.                                        *)
(***************************************************************************)
Places(k) ==
  {j \in 1..Len(table[hash[k] % size]) : table[hash[k] % size][j].key = k}

Keys ==
  UNION {{table[index][j].key : j \in 1..Len(table[index])} : index \in DOMAIN table}

-----------------------------------------------------------------------------

Init ==
  /\ size = InitialSize /\ table = EmptyTable(InitialSize) /\ count = 0
  /\ held = {}
  /\ hash \in [Key -> HashValue]

(***************************************************************************)
(* A node that is not registered is: DAWG_replace_or_register grows the    *)
(* table before it adds, DAWG_load afterwards.                             *)
(***************************************************************************)
Register(k) ==
  /\ size > 0 /\ held = {} /\ k \notin Keys
  /\ size' = GrownSize(count) /\ size' <= MaxSize
  /\ table' = Added(Grown(table, count), k, hash[k])
  /\ count' = count + 1
  /\ UNCHANGED <<held, hash>>

RegisterLoaded(k) ==
  /\ size > 0 /\ held = {} /\ k \notin Keys
  /\ size' = GrownSize(count + 1) /\ size' <= MaxSize
  /\ table' = Grown(Added(table, k, hash[k]), count + 1)
  /\ count' = count + 1
  /\ UNCHANGED <<held, hash>>

(* Mutants of Deleted: the item stays in its bucket, the head is unlinked.  *)
NotDeleted(k) == table
HeadDeleted(k) == [table EXCEPT ![hash[k] % size] = Tail(@)]

Deleted(k) ==
  LET j == CHOOSE j \in Places(k) : \A m \in Places(k) : j <= m
  IN  [table EXCEPT ![hash[k] % size] = RemoveAt(@, j)]

(***************************************************************************)
(* Before a node changes, hashtable_del looks for it under the hash it     *)
(* has; if it was in, it is added again afterwards, in a table that may    *)
(* have grown.                                                             *)
(***************************************************************************)
TakeOut(k) ==
  /\ size > 0 /\ held = {}
  /\ Places(k) # {}
  /\ table' = Deleted(k)
  /\ count' = count - 1
  /\ held' = {k}
  /\ UNCHANGED <<size, hash>>

PutBack ==
  /\ \E k \in held : table' = Added(Grown(table, count), k, hash[k])
  /\ size' = GrownSize(count) /\ size' <= MaxSize
  /\ count' = count + 1
  /\ held' = {}
  /\ UNCHANGED hash

(***************************************************************************)
(* A node that is not in the table changes.                                *)
(***************************************************************************)
Change(k, h) ==
  /\ k \notin Keys
  /\ hash' = [hash EXCEPT ![k] = h]
  /\ UNCHANGED tableVars

(***************************************************************************)
(* hashtable_clear or hashtable_init in DAWG_clear, hashtable_destroy in   *)
(* DAWG_close.                                                             *)
(***************************************************************************)
Clear ==
  /\ held = {}
  /\ size' = IF size = 0 THEN InitialSize ELSE size
  /\ table' = EmptyTable(size')
  /\ count' = 0
  /\ UNCHANGED <<held, hash>>

Destroy ==
  /\ held = {}
  /\ size' = 0 /\ table' = EmptyTable(0) /\ count' = 0
  /\ UNCHANGED <<held, hash>>

Next ==
  \/ \E k \in Key : \/ Register(k) \/ RegisterLoaded(k) \/ TakeOut(k)
                    \/ \E h \in HashValue : Change(k, h)
  \/ PutBack
  \/ Clear
  \/ Destroy

Spec == Init /\ [][Next]_vars

-----------------------------------------------------------------------------

(***************************************************************************)
(* Every key can be found: it is in the bucket where its present hash is   *)
(* looked for, filed under that hash, also after the table has grown.      *)
(***************************************************************************)
Findable ==
  \A index \in DOMAIN table : \A j \in 1..Len(table[index]) :
    LET item == table[index][j]
    IN  item.hash = hash[item.key] /\ index = item.hash % size

(***************************************************************************)
(* count is the number of items, no key is in twice, and the lists stay    *)
(* short: at most one item more than the load factor allows.               *)
(***************************************************************************)
CountExact ==
  /\ count = Cardinality(Keys) /\ Keys \cap held = {}
  /\ \A index, other \in DOMAIN table :
       \A j \in 1..Len(table[index]), m \in 1..Len(table[other]) :
         table[index][j].key = table[other][m].key => index = other /\ j = m
  /\ size > 0 => count <= Threshold(size) + 1

(***************************************************************************)
(* The table is a set of keys: growing it and changing keys loses nothing. *)
(***************************************************************************)
Registry == INSTANCE KeySet WITH keys <- Keys \cup held, usable <- size > 0

ImplementsKeySet == Registry!Spec
=============================================================================
