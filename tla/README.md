# A verification project for pyDAWG

pyDAWG keeps a set of words as a DAWG, a minimal acyclic automaton that is built
incrementally from words in lexicographic order.  The C extension consists of a
construction (`dawg.c`) with nodes (`dawgnode.c`) and a registry of finished nodes
(`hash/`), save and restore (`dawg_pickle.c`), minimal perfect hashing (`dawg_mph.c`) and
two Python types around them (`DAWG_class.c`, `DAWGIterator_class.c`); `pydawg.py` is a
smaller implementation in Python.  This directory models these parts in TLA+, checks them
with TLC and proves the core for every value of its parameters with TLAPS.

    tlc -workers 2 -config Dawg_words.cfg MCDawg.tla     # a run (PROJECT.json lists all)
    tlapm DawgProofs.tla                                  # the proofs of one module

## The system

| part | state | operations | hard about it | what makes it correct |
|---|---|---|---|---|
| construction, `dawg.c` | root `q0`, nodes, registry, `count`, `longest_word`, `state`, `prev_word` | `add_word`, `add_word_unchecked`, `close`, `clear` | nodes are changed, shared and freed while the registry files them by contents; what may still change depends on the previous word; any allocation may fail half-way | registry valid, only unshared nodes change, nothing dangles or leaks, the result is minimal, clients see a set |
| nodes, `dawgnode.c` | edges sorted by letter, their number `n`, marker, mark, word number | get, set child | binary search in a range that may become empty, insertion by copying, a 16-bit `n` | a map from letters to children |
| registry, `hash/hashtable.c` | buckets, count, threshold | add, get, del, resize, clear, destroy | the keys change: a node is taken out, changed, and put back; the table grows | a key is findable under its present hash; it is a set |
| traversals, `dawg.c` | 16-bit marker, a mark per node | once-only DFS with a callback | the marker wraps, the graph changes in between | each node exactly once, after its children |
| save/restore, `dawg_pickle.c` | none | `DAWG_save`, `DAWG_load` | old and new graph live together; the registry is rebuilt, `prev_word` is not saved | what is loaded is what was saved, and the construction can go on |
| DAWG object, `DAWG_class.c` | `version`, cached statistics and numbers | every Python method | caches that are stale when used | equal versions mean a valid cache |
| iterator, `DAWGIterator_class.c` | version, stack, buffer | `find_all`, `__next__` | one buffer for all paths, wildcards, three ways of matching; the graph may change | yields exactly the matching words; never reads a changed graph |
| perfect hashing, `dawg_mph.c` | `number` of each node | numbering, `word2index`, `index2word` | the empty word | `word2index` is the rank, `index2word` its inverse |
| Python implementation, `pydawg.py` | objects with children, flag and number, a register | `add_word`, `freeze`, numbering | the register replaces objects that are then collected; numbers outlive additions | holds what was added, minimal when frozen, numbers never stale |

Every method of the C types runs from start to end under Python's global lock and calls
no Python code in the middle that could come back to the object, so calls do not overlap.
Interleavings arise between calls: adds, closes, clears, loads, cached values and
iterators, in any order.  Inside a call the models step through the loops because the
invariants relate the registry, the graph and the C locals at each iteration.

## Modules

| module | models | how |
|---|---|---|
| `Words` | `string_cmp` | the comparison and the order it is to decide |
| `Automaton` | reading a graph | `Run`, `Accepts`, and `Reachable`, what a traversal visits |
| `WordSet` | the promise of a DAWG to clients | a set of words with a state and the previous word, no graph |
| `Dawg` | the construction | `AddWord`, then `SkipPrefix`/`EndOfPrefix`, `Replace`/`Register`/`Minimized`, `AddSuffix`/`EndAdd`; `Close` … `EndClose`; `Clear`; rejected calls |
| `DawgClosing` | a client that remembers that it called `close()` | `Dawg` with that memory; only for the run `close_empty` |
| `FallibleSet`, `DawgOom` | the construction when memory runs out | `WordSet` with calls that fail; `Dawg` with an action beside each one whose allocation may fail |
| `StoredSet`, `DawgPersist` | save and restore | `WordSet` with `Save` and `Load`; `Dawg` with them, nodes copied to new addresses |
| `DawgClass` | the Python object | `DawgPersist` with versions, caches and iterators |
| `ChildMap`, `NodeEdges` | a node | a map from letters to children; the sorted array, one action per probe of the search and per edge copied, `n` counting modulo `Width` |
| `KeySet`, `HashTable` | the registry's table | a set of keys; buckets that implement it |
| `NodeTable` | the two composed | nodes of `NodeEdges` are the keys of `HashTable`; a change of a node is taken out, stepped through and put back as in `dawg.c`; the table may grow at any of these points, more than `resize_hash` does (after a `hashtable_del` the count is never above the threshold) |
| `Traverse` | `DAWG_traverse_DFS_once` | an explicit recursion stack, one action per edge, callback and return; `Change` stands for all that alters the graph in between |
| `MinimalGraph` | a finished graph, for readers | a node is the set of words read from it; `GraphOfWords` says that the graph is read like that, also after loads (`LoadedWhole`), and `Minimal` that no two nodes are the same set |
| `Mph`, `Queries`, `Iterator`, `Readers` | the methods that only read | one action per loop iteration (`Mph`), per call (`Queries`, which extends it), per stack item (`Iterator`); `Readers` is a client that calls them, and `dump` |
| `PyDawg` | `pydawg.py` | one action per call, the loops as recursive functions |
| `MC*` | constants for TLC | small letters, words, addresses, a hash with collisions |
| `*Proofs` | theorems | see "Proofs" |

The names of state and actions are those of the code where TLA+ allows.  Some choices:

* Addresses are a set `Node`.  `Fresh` says what malloc may return; in the runs it is the
  lowest free address, so a freed node is reused at once.  A freed node's fields are
  reset in the models so that stale contents are not remembered; `NoDangling` says that
  no one looks at them.  Nodes that `DAWG_clear` does not reach stay allocated (`leaked`) and
  their addresses are never given out again; without a failure there are none
  (`NoLeak`, and `ReadableAfterFailure` says it of `leaked`).
* `reg` in `Dawg` is a set of items *(key, hash when filed)*; a lookup compares the hash
  the node has now.  There the hash stands for the bucket, one table size; `NodeTable`
  shows that growing the table keeps items findable, and that the edges `Dawg` writes as a
  function are what the sorted arrays hold.  The code's lookup stops at the first
  equivalent node of the bucket, the model at any: `RegistryValid` says there is at most
  one.
* `add_word` and `add_word_unchecked` are the same action: the client of the second
  vouches for the order the first checks (README.rst:136-139).
* The word a call works on, its position, node and stack are variables with a resting
  value between calls.
* `Reachable` is the least set with the root that no edge leaves: what the once-only
  traversal visits (`VisitedOnce` of `Traverse`).

### When memory runs out

`DawgOom` has an action for each failing allocation that the code tests or whose failure
goes unnoticed:

| action | what fails | the code |
|---|---|---|
| `NoRoot`, `NoListToFree` | the root of the first call; the list `DAWG_clear` frees from | reports it, nothing has changed |
| `NoNode` | a node of the suffix | reports it; the previous word's path is already minimized, and a path without a marker stays |
| `NoEdge` | the larger array of edges | does not look: the rest of the suffix is built below a node nothing leads to, and the call says that the word was added |
| `NoPreviousWord` | the copy of the word | reports it although the word is in; `prev_word` has a length and no letters |
| `NoRegistration` | the item of the registry | does not look: a minimized node is not shared later |

After `NoEdge` and `NoPreviousWord` the next add or close dereferences NULL, so the model's
clients only read and clear.  `DAWG_clear` ends every such state (`failed` and `gaps` are reset),
also after a `NoEdge` that nobody noticed: from then on words are added and closed as on a new
object (`RecoveredByClear`), and may fail again.  What it cannot reach are the nodes below the
lost edge: they leak for good (`leaked`), and `severed`, which remembers that an edge was
ever lost, shows that nothing else does (`ReadableAfterFailure`).  Failures whose NULL is dereferenced at once
(`list_item_new` for the stack, `hashtable_init` in init and clear) end the process and
have no next state.  `FallibleSet` names what a client sees: a failed call leaves the set
as it was, except `FailButAdd` and, after an unnoticed loss, `AddNothing`.  A dead-end path
left by `NoNode` may be longer than `longest_word`.

## Runs

Passing runs:

| run | question | bounds, and why they are enough |
|---|---|---|
| `dawg_words` | registry, tail, pointers, leaks, minimality, `count` and `longest_word`, the registry's table, termination, refinement of `WordSet`; the graph is the one readers are modelled on (`GraphOfWords`) | 6 of the 8 words of three letters over {1, 2}, two of two letters and the empty word: nested prefixes, common suffixes below different prefixes, nodes that differ only in the marker; 10 addresses, never short; two hashes, so that different nodes share a bucket |
| `oom_recover` | what a failed call leaves can be read and freed, and only nodes below a lost edge leak; after `clear` the construction goes on as if nothing had failed; `count`; refinement of `FallibleSet` | 4 words of two and three letters with a common suffix, so that a failure falls before, at and after a replaced node; 10 addresses; an edge may fail while fewer than `MaxLeaked = 1` nodes have leaked, so words are added, closed and cleared, with every other failure, also after an edge was lost and cleared away |
| `class_versions` | save and restore refine `StoredSet`; nothing dangles or leaks, and what is read is the graph of the words (`LoadedWhole`); `count` and `longest_word`; statistics, iterators and numbers by version | four kinds of client (`Clients`), all of which save and load: one only does that, with three words of which two share a suffix; one asks for statistics, one uses an iterator, one asks for numbers, each with two words (`Adds`); three, two, two and one changes of version, with a load, which sets the version back, possible at any time; 9 addresses: the old graph and the copy fit together, and memory is reused with old numbers |
| `readers_answers` | `word2index` is the rank and `index2word` its inverse; exists, words and dump answer about the set, longest_prefix and match within what the documentation and the unit tests allow; the iterator yields exactly the matching words; termination | every subset of 8 words with nested prefixes and shared suffixes over 3 letters, asked for these and for words that leave them at every place, every index up to one beyond the range; 7 patterns, with a wildcard that is or is not a letter of the words; numbers only of sets without the empty word |
| `traverse_wrap` | exactly once, children first, fresh markers, termination | acyclic graphs of 3 nodes and 2 letters, with any change in between; 4 markers, so the marker wraps after three traversals with nodes old enough to carry any mark |
| `table_nodes` | equivalent nodes are findable, the table is a set, a node is a map, calls return | 3 nodes with up to 3 edges, so a search probes below, above and at the middle; 13 hashes that collide modulo 1, 2 and 4; growth 1 → 2 → 4; the edges that are edited are named by `Edited` |
| `py_words` | the Python implementation holds what was added, is minimal when frozen, its numbers are right | 10 objects, words as in `dawg_words` with one of one letter |

Runs that show a disagreement (each in `findings` with the text it contradicts):

| run | shows |
|---|---|
| `persist_active` | a DAWG dumped while ACTIVE, loaded, extended and closed loses words: the nodes of the last word are in the registry, and the minimization finds one equivalent to itself and frees it |
| `close_empty` | `close()` of a DAWG without a word does nothing, and words are added after it although the documentation says that none can be (`FrozenByClose` of `DawgClosing`) |
| `oom_adds` | adding after a MemoryError in the middle of a suffix: `prev_word` is still the word before, its path is minimized again, and a registered node is found equivalent to itself and freed |
| `class_reload` | two loads give the same version, so an iterator survives the second one |
| `mph_empty` | `index2word(1)` of a set of only the empty word never returns: the root's marker is never counted off (its graph has no edge to follow, so the loop of the model ends in a step that changes nothing) |

The passing runs are told what the findings exclude by named constants, never by
weakening a property: `AddsAfterRestore = FALSE`, `AddsAfterFailure = FALSE`,
`IterateOverLoad = FALSE`, `EmptyWord = FALSE`.  With `TRUE` the same modules give the
counterexamples.

`WordSet`, the abstract set that the construction implements, takes one thing from the code
against the documentation: `CloseNothing`, which leaves a DAWG without a word open.  It is an
action of its own there, and `close_empty` is the run that holds it against the documentation;
without `CloseNothing` that run passes.

Other disagreements between the code and its documentation, which the models translate as
the code has them:

* `match` and `longest_prefix` follow letters and never look at the end of a word
  (dawg.c:564-584), although README.rst:144-148, DAWG_class.c:215 and 376 and dawg.h:165 speak of
  prefixes that are in the set: of "attrixx" in {"attribute"} the code returns 5, the
  documentation 0.  unittests.py:92-118 expects what the code does, so the repository
  contradicts itself; `AnswersExact` claims what both allow, that no prefix in the set is missed
  and no letter is counted that no word goes on with;
* with the empty word in the set, `word2index('')` is 0, returned as None, and every other
  number is one too small (dawg_mph.c:61), although README.rst:202 gives the range as
  1 … `len(DAWG)`;
* closing a DAWG that was restored from an ACTIVE dump minimizes nothing, because there is
  no previous word (dawg.c:179);
* `pydawg.py` does not refuse words after `freeze`, as README.rst:182 says it does: the guard
  `~frozen` of `AddWordUnchecked` keeps clients to the documented protocol.  Its
  `word2index` gives a number also for a prefix that is no word (README.rst:229 says None),
  which `IndicesExact` leaves out, and its `index2word` does not look at the range.

Bounds in guards: `MaxVersion` and `Adds` (changes of version and words added in `DawgClass`,
per client; `Clients` splits the run, and only one client each asks for statistics, iterators and
numbers), `MaxLeaked` (lost edges in `DawgOom`), `MaxSize` (growth in `HashTable`), `Edited` (the edges `NodeTable` sets).  `Nodes` bounds addresses; in
the runs no call is ever refused one except a load in `class_versions` that would
need more than are free.  Deadlock is checked in every run.

Preconditions in guards, because the code has no defined outcome without them: the empty
word is not asked of a DAWG without a root (`exists`, `word2index` read the marker of NULL),
and neither is `dump`.

Fairness is weak and only on the steps of a call that is under way (`Dawg`, `Mph`, `Readers`,
`Traverse`, `NodeTable`), or on the iteration of an iterator its client keeps asking: C code
that has been called runs on, and nothing else runs meanwhile.  Calls themselves are never
assumed to happen.

## Proofs

Theorems hold for every set of letters, words and addresses, every allocator and every hash
function, under the assumptions the modules declare: letters are naturals, words are
sequences of letters (`WordAssumption`) and what is observed contains their suffixes
(`SuffixAssumption`), `Fresh` returns addresses that are not in use (`FreshAssumption`), NULL is
no address; `WidthAssumption`: fewer letters than `n` can count, a finite number of them
(`FiniteAssumption` in `DawgClass`: a letter is a character); `EditedAssumption`: edges are
set to letters and nodes; `HashAssumption`, `SizeAssumption`: a hash is a natural, a table has a
bucket; `AcyclicAssumption`: the graphs of `Traverse` have no cycle; `UniverseAssumption`,
`AskedAssumption`, `PatternAssumption`: words, arguments and patterns of the readers are
sequences of naturals, and the set of words is finite; `NodeAssumption`, `ObjectsAssumption`: the
objects of `pydawg.py` are finitely many, and a new one is put where none is in use.  Theorems with "unless" have
the negation of that constant as a hypothesis; a run with `TRUE` shows that it is needed.

| theorem | states | in |
|---|---|---|
| `StringCmpOrder` | `string_cmp` decides the lexicographic order | `WordsProofs` |
| `TypeCorrect`, `RegistryAlwaysValid`, `TailNeverShared`, `NeverDangling`, `NeverLeaking`, `RegistryAlwaysReady`, `AlwaysConsistent` | the safety invariants of `Dawg` | `DawgProofs` |
| `RestAlwaysRegistered` | every node off the tail is registered | `DawgProofs` |
| `WordSetImplemented` | `Spec => ImplementsWordSet` | `DawgProofs` |
| `SummaryAlwaysExact` | `Spec => []SummaryExact` | `DawgProofs` |
| `AlwaysMinimal` | `Spec => []Minimal` | `DawgProofs` |
| `AlwaysGraphOfWords` | `Spec => []GraphOfWords`: what is read is `MinimalGraph` of the words | `DawgProofs` |
| `AlwaysReadable`, `ClearRecovers`, `CountSurvives` | the invariants of `DawgOom` unless `AddsAfterFailure`, after every failure and every clear | `DawgOomProofs` |
| `FallibleSetImplemented` | `OomSpec => ImplementsFallibleSet`, likewise | `DawgOomProofs` |
| `StoredSetImplemented` | `PersistSpec => ImplementsStoredSet` unless `AddsAfterRestore` | `DawgClassProofs` |
| `ConsistentAfterLoad`, `WholeAfterLoad`, `SummaryExactAfterLoad` | what `DAWG_load` leaves (`ConsistentUnlessRestored`, `LoadedWhole`, `SummaryExact`), likewise | `DawgClassProofs` |
| `StatsAlwaysExact` | `ClassSpec => []StatsExact` unless `AddsAfterRestore` | `DawgClassProofs` |
| `NumbersAlwaysExact` | `ClassSpec => []NumbersExact` unless `AddsAfterRestore` | `DawgClassProofs` |
| `IteratorAlwaysValid` | `ClassSpec => []IteratorValid` unless also `IterateOverLoad` | `DawgClassProofs` |
| `EdgesStaySorted`, `EdgesAreChildMap` | arrays stay sorted; a node implements `ChildMap` | `NodeTableProofs` |
| `TableNodesAreChildMap` | the nodes in a table implement `ChildMap` | `NodeTableProofs` |
| `EquivalentAlwaysFound`, `CountAlwaysExact` | the invariants of the table, for every hash and every growth | `NodeTableProofs` |
| `RegistryIsKeySet` | `TableSpec => ImplementsKeySet` | `NodeTableProofs` |
| `MarkerAlwaysFresh`, `ChildrenAlwaysFirst`, `AlwaysVisitedOnce` | the invariants of `Traverse`, for every number of markers | `TraverseProofs` |
| `AlwaysRank`, `AlwaysInverse` | `ReadersSpec => []IndexIsRank`, `[]WordHasIndex`, unless `EmptyWord` | `ReadersProofs` |
| `AlwaysExact` | `ReadersSpec => []AnswersExact`: exists, words, and what is claimed of longest_prefix and match | `ReadersProofs` |
| `AlwaysAutomaton` | `ReadersSpec => []DumpIsAutomaton` | `ReadersProofs` |
| `AlwaysYieldsMatching` | `ReadersSpec => []YieldsMatching`, for every pattern, wildcard and way of matching | `ReadersProofs` |
| `AlwaysHoldsAdded`, `AlwaysMinimalWhenFrozen`, `AlwaysHolding` | `HoldsAdded`, `MinimalWhenFrozen` of `PyDawg`, and the inductive invariant `Holding` they follow from | `PyDawgProofs` |
| `AlwaysIndicesExact` | `IndicesExact` of `PyDawg`: the answers of `word2index` and `index2word`, asked of sets without the empty word | `PyDawgProofs` |

The arguments.

*The construction.*  None of the invariants is inductive alone.  A node may be changed or
freed because nothing else refers to it (`UnsharedTail`); that a replaced child's address is
not still in the registry needs `RegistryValid`; that the new word does not run into a
registered node needs that it leaves the previous word to the right of every edge there
(`TailBounds`), which is where the order of the input comes in; and which nodes these are
depends on the place in the call and its locals (`CallState`).  `Consistent` is the
conjunction, and `NextConsistent` shows that every action preserves it.  It has of
`UnsharedTail` the half `TailUnshared`; that all other nodes are registered (`RestRegistered`)
is shown next to it, because a failed registration breaks that half only.

*The words.*  Two graphs accept the same words when a relation between their nodes contains
the roots, respects the markers and is kept by every edge (`Simulates`, `SameMarkers`,
`SameWords`).  Replacing a node is such a relation: the identity, and the pair of the freed
node and the one that takes its place.  A new suffix adds exactly one word because only one
word leads to a node of the tail (`OnlyWay`, `OneWordLeads`).  `Summarized` adds to `Consistent`
that no path is longer than `longest_word` or the suffix under construction, and that `count`
is the cardinality.

*Minimality.*  Two different registered nodes differ in their markers or in an edge
(`RegistryValid`); if they accepted the same words, so would the nodes below that edge, and of
such pairs the one with the shortest paths below it gives a contradiction (`NodesDiffer`).  That
requires that something is accepted below every registered node (`FinishedLive`), which comes
from the tail, whose end is marked (`EndLives`), and that the unregistered root of a closed
DAWG is no other node's twin (`RootHasNoTwin`: the letters that lead from the root to its twin
would lead from the twin to itself, and `longest_word` bounds all paths).

*The graph that is read.*  A letter leads out of a node just when a word that the node accepts
begins with it (`LettersJoined`, `LettersApart`): there are no dead ends, because something is
accepted below every node (`NodesLive`).  Every node is behind some letters (`NoLeak`), and what it
accepts is what is left of the words behind them (`NodeIsWords`); conversely letters that are
followed by a word lead to a node (`NodeBehind`).  So the nodes are the sets of words of
`MinimalGraph`, and `ReadableIsGraph` takes from the state only what also holds after a load.

*Memory.*  As long as nothing was refused, or only registrations were, `DawgOom` is in a
state of the construction (`Summarized`).  A reported failure leaves a graph that is valid and
leaks nothing, with no call under way (`Stopped`).  A lost edge leaves nodes that nothing
reaches (`Lost`); no edge leads out of them, the call goes on among them only (`LostOpen`), and
so what is reached, and the words, stay as they were (`Torn`, `ReachedKept`, `BesideKept`), until a
clear, which leaves the initial state but for `leaked`.  `Sound` is the case distinction.  That
`leaked` is empty until an edge fails (`LeaksSevered`) follows beside it, because a clear in
any other state finds every node (`NoLeak`).

*Save and restore.*  The dump is a whole graph with an exact header (`DumpWhole`,
`DumpSummary`).  Copying to new addresses is again a simulation, which gives the words, the
lengths of the paths and, turned round, that every copy is reached.  A CLOSED or EMPTY dump
restores `Consistent`.  An ACTIVE one does not, since the nodes of the last word are
registered; `Held` is what stays true of it as long as nothing is added: its previous word is
empty, so a close has nothing on its stack.  Hence `ASSUME ~AddsAfterRestore`; without it the
run `persist_active` is a counterexample.  That every path ends in a word also then (`Alive`)
is an invariant of its own.

*Versions.*  Every step that changes the graph, the words or what is allocated either advances
the version or belongs to a call that will (`BuildVersion`, `MethodVersion`, `ProgressVersion`);
a call that returns without advancing it has changed nothing (`SuffixIsNew`: a word that is not
in the set has a suffix to add).  So a statistic or an iterator of the present version was
made from the present graph (`StatsKept`, and the same for iterators and numbers).

*The numbers.*  The words from a node are those below its edges, told apart by their first
letter, and the one of no letters if it is marked (`WordsByFirstLetter`); a sum of cardinalities
of disjoint sets is that of their union (`SumOfParts`, which unfolds the community modules'
`SumFunction`), so a node whose children have the right numbers gets its own
(`NumberFromChildren`).  `Numbered` computes them in rounds, where the code takes children before
their parents (`ChildrenFirst` of `Traverse`).  After k rounds the nodes with no path of k letters
have theirs (`RoundsAreRight`); a path visits no node twice, since `longest_word` bounds all
paths, and there are finitely many nodes, since each is on the way of a word (`PathsVisitOnce`,
`LiveIsFinite`).
That a path from every node ends in a word is `Alive`, so a restored DAWG is covered.  Until the
version changes, a call leaves markers, edges and nodes as they are (`SameGraphSeen`).

*Nodes.*  The array is sorted, a search keeps the letter in the range it has left, and an
insertion has copied the edges before and behind it (`SortedEdges`, `CallState`); `n`
does not wrap by `WidthAssumption`.

*The hash table.*  An item is at a place, bucket and position; the buckets are `WellFormed` when
each item is in the bucket of the hash it was filed under and no key is at two places.  Filing an
item adds it to the set of items (`HeadAdded`), unlinking removes it (`ItemUnlinked`), and a
resize moves exactly the items (`BucketMovedItems`, `ResizedItems`): its loops are recursive
functions over positions, and the least position at which they could go wrong is contradicted.
`TableConsistent` adds that each filed hash is the present one of its key, except for the node
that was taken out to be changed, which is in no bucket (`TakenOut`).

*Traversals.*  No mark is ahead of the marker (`MarksBehind`); what has the present marker is on
the stack or was called, and nothing is there twice (`MarkedOnce`); the stack is a path of the
graph (`PathDown`), and the followed edges of its nodes lead to called nodes or up the stack
(`EdgesFollowed`).  That an edge to a marked node leads to one that was called, and not back to
the stack, is where `AcyclicAssumption` comes in.

*The readers.*  In a minimal graph a node is what is left of the words behind the letters read
(`Behind`), so that a walk along a word answers about the set (`WalkIs`), and `WalkEnds` with the
longest prefix `PrefixIsLongest`, from which what is claimed of it follows (`PrefixAnswered`).

*Numbers.*  The rank of a word is the number of words before it, and these are, at the node behind
each prefix of it: the words below the smaller letters, and the prefix itself when it is a word.
`MphInv` says that what has been counted so far, or is left to skip, is that number, at every
iteration of both loops; that the sum over smaller letters is the number of words that leave by
them is shown for the sums as the community modules define them.  With the empty word in the set
the root's marker is not counted and both invariants are false, hence `ASSUME ~EmptyWord`
(`mph_empty`).

*The list of words and the dump.*  `words` joins the lists of a node's edges, in their order; a
list in which the words of each part ascend and precede those of the next ascends (`JoinAscends`,
`FlattenAscends`), and the recursive function it is computed by has that result at every height of
the graph (`ListingExists`, `ListIsWords`).  The root is no node's child, since the words below a
node are shorter (`RootIsNoChild`), so a dump has one root, and what its edges reach by a word is
the node behind it (`DumpedTargetIs`).

*Iterators.*  What could go wrong is the one buffer: an item only has its own letter, and the
letters before it are read from a buffer that other items have written since.  `Iterating` says of
every item on the stack that it is the node behind the letters the buffer holds up to its depth
(`Waiting`); that an item is never deeper than those above it and its path no prefix of theirs,
nor theirs of it (`Under`), so that visiting what is above it writes behind those letters only
(`ReadAfter`); and that every word that matches has been returned or is behind exactly one of
these paths, and none of those returned is (`Results`). A visit replaces a path by its extensions
by the letters that are followed (`VisitedStack`, `ResultsWith`), which is all that can match
(`FollowedEnough`); an item that is skipped for its depth has no word that matches behind it
(`ResultsWithout`).

*The Python implementation.*  A call is one step here, so the invariant is about the state between
calls and the work lies in the loops.  `Holding` says that the register is closed under edges,
that different nodes in it differ in flag or edges and that each leads to a word; beside it there
is only the path of the previous word (`Shape`, `Meaning`), or, once frozen, the root.  One item of
the stack redirects an edge to an equivalent node, from which the same is read (`MergedReads`), or
registers a node that no registered one equals: the nodes below it are registered, so a registered
node with the same words would have the same edges (`SameWordsEquivalent`).  That is kept for every
number of items (`WorkedOffWithin`).  A new suffix adds exactly one word (`GrownReads`).  Objects that are
collected are not read by any that stay (`OnlyHeldMatters`, `HeldIsUsed`).  Freezing a second time
finds each node itself in the register and changes nothing (`Refrozen`).  The root, which is in no
register, accepts longer words than any node below it (`RootIsNotBelow`).

Numbers outlive calls, so `Indexing` adds to `Holding` that they are right while they are valid
(`Numbered`): every node that can be reached has the number of its words.  The equations of
`num_aux` are solved by these numbers (`WholeIs`, `SumIsOnto`), and by no others, since the
longest word of a node is longer than those of its children (`HeightExists`, `CountsAgree`): that
is why the recursion ends.  `word2index` adds up, letter by letter, by how much the place of the
rest of the word among the words of its node falls (`PlaceStep`, `PassedOn`): the empty rest has
place 0, so the sum is the rank.  `index2word` takes the first edge up to which there are enough
words, which is the next letter of the word with that rank (`EnoughIs`, `DescendedIs`); its loop
ends within as many iterations as there are nodes, because heights fall (`WayShort`).

Induction over words and paths is done by a least natural number (`LeastNatural`): a
counterexample of least length is contradicted.  `Run` is a recursive function whose
unfolding is proved from its definition (`RunEquations`).

Only model-checked: liveness (`CallsReturn` and its kin), which the prover does not reach.

## Not modelled

* The operations of `slist.c` one by one: lists are used as stacks and are sequences here.
* The byte layout of a dump and the rejection of corrupted ones: a dump is the record it
  encodes.  Failing allocations in `DAWG_load`: its error path frees a node twice
  (dawg_pickle.c:279), and what a second free does is undefined.
* `__reduce__`, which hands a dump to Python's pickle, and `get_hash_stats`.
* The arrays `DAWGNode.next`, which `DAWG_clear` never frees, as memory: addresses stand for
  nodes.
* The width of `DAWGNode.number`, an `int`, while `count` has 64 bits: numbers are naturals here.
  The sums would overflow with 2^31 words, each of which takes a call to add.
* Argument conversion and module set-up (`pydawg.c`, `utils.c`, `common.h`), `dump2dot.py`,
  `as_dot` and the order of `words()` in `pydawg.py`, build files and tests: no logic of their
  own.

A call that raises MemoryError does not advance the version although it may free nodes an
iterator has on its stack (DAWG_class.c:122).  `DawgClass` builds on `Dawg`, where malloc
succeeds, so no run shows it; the product with `DawgOom` is too large for a run.

## What is left

Modelling versions and iterators over calls that fail, on a construction reduced to what they
tell apart, and the dumps `DAWG_load` rejects.
