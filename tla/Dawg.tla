------------------------------- MODULE Dawg --------------------------------
(***************************************************************************)
(* The construction of the minimal automaton (dawg.c): DAWG_add_word,      *)
(* DAWG_add_word_unchecked, DAWG_replace_or_register, DAWG_close and       *)
(* DAWG_clear, one action per loop iteration or straight-line block.  A    *)
(* call holds the GIL from start to end and calls nothing back, so one     *)
(* call runs at a time; pc and the C locals of that call are state here    *)
(* because the invariants must survive every step of its loops.            *)
(***************************************************************************)
EXTENDS Automaton, FiniteSets

CONSTANTS Word,        \* the words clients add
          Universe,    \* the words whose membership is observed
          Node,        \* addresses malloc may return for a node
          Fresh(_),    \* the addresses it may return, given the ones in use
          Hash(_, _)   \* dawgnode_hash, a function of marker and edges

(***************************************************************************)
(* What is observed are the words and what is left of them after some      *)
(* letters: what a node of the automaton accepts.                          *)
(***************************************************************************)
ASSUME WordAssumption == Word \subseteq Seq(Letter) /\ Word \subseteq Universe
ASSUME UniverseAssumption == Universe \subseteq Seq(Letter)
ASSUME SuffixAssumption ==
  \A w \in Word : \A k \in 0..Len(w) : SubSeq(w, k + 1, Len(w)) \in Universe
ASSUME NullAssumption == NULL \notin Node
ASSUME FreshAssumption == \A S \in SUBSET Node : Fresh(S) \subseteq Node \ S

VARIABLES q0,            \* start state, or NULL
          next, eow,     \* the nodes: edges and end-of-word markers
          live,          \* addresses of allocated nodes
          leaked,        \* and of those DAWG_clear did not find to free
          reg,           \* the registry: items [key, hash]
          reg_ready,     \* the registry has a table (reg.size # 0)
          count,         \* number of distinct words
          longest_word,
          state,         \* "EMPTY", "ACTIVE", "CLOSED"
          prev_word,     \* previously added word
          ret,           \* what the last call returned
          pc,            \* where the call under way is, "idle" between calls
          caller,        \* which operation called DAWG_replace_or_register
          word, i, cur,  \* locals of DAWG_add_word_unchecked
          stack          \* local of DAWG_replace_or_register, top last

graph == <<q0, next, eow, live, leaked>>
registry == <<reg, reg_ready>>
summary == <<count, longest_word, state, prev_word>>
locals == <<pc, caller, word, i, cur, stack>>
vars == <<graph, registry, summary, ret, locals>>

(***************************************************************************)
(* Results of DAWG_add_word (dawg.h).                                      *)
(***************************************************************************)
DAWG_NO_MEM == -1      \* not returned here; see DawgOom
DAWG_WORD_LESS == -2
DAWG_FROZEN == -3

HashValue ==
  {Hash(b, f) : b \in BOOLEAN, f \in [Letter -> Node \cup {NULL}]}

TypeOK ==
  /\ q0 \in Node \cup {NULL}
  /\ next \in [Node -> [Letter -> Node \cup {NULL}]]
  /\ eow \in [Node -> BOOLEAN]
  /\ live \subseteq Node /\ leaked \subseteq Node
  /\ reg \subseteq [key : Node, hash : HashValue]
  /\ reg_ready \in BOOLEAN
  /\ count \in Nat /\ longest_word \in Nat
  /\ state \in {"EMPTY", "ACTIVE", "CLOSED"}
  /\ prev_word \in Seq(Letter)
  /\ ret \in {0, 1, DAWG_NO_MEM, DAWG_WORD_LESS, DAWG_FROZEN}
  /\ pc \in {"idle", "skip", "minimize", "suffix"}
  /\ caller \in {"add", "close"}
  /\ word \in Seq(Letter)
  /\ i \in 0..Len(word)
  /\ cur \in Node \cup {NULL}
  /\ stack \in Seq([parent : Node, label : Letter, child : Node])

-----------------------------------------------------------------------------

(***************************************************************************)
(* The registry.  A key is filed under the hash it had when it was added;  *)
(* hashtable_del looks under the hash the key has now, and misses an item  *)
(* whose key changed in between.                                           *)
(***************************************************************************)
Entry(n, e, g) == [key |-> n, hash |-> Hash(e[n], g[n])]

Registered(n) == \E item \in reg : item.key = n

(***************************************************************************)
(* hashtable_del before a change of n, and hashtable_add after it if there *)
(* was an item: the registry when node n is about to get the edges g[n].   *)
(***************************************************************************)
Rekeyed(n, g) ==
  IF Entry(n, eow, next) \in reg
    THEN (reg \ {Entry(n, eow, next)}) \cup {Entry(n, eow, g)}
    ELSE reg

(* Mutant of Equivalent: the markers are not compared. *)
EquivalentEdges(p, q) == next[p] = next[q]

(***************************************************************************)
(* dawgnode_equivalence: same marker, same labels, same children.          *)
(***************************************************************************)
Equivalent(p, q) == eow[p] = eow[q] /\ next[p] = next[q]

(* Mutant of Lookup: the marker is left out of the hash looked for. *)
LookupUnmarked(n) ==
  {r \in Node : /\ [key |-> r, hash |-> Hash(FALSE, next[n])] \in reg
                /\ Equivalent(n, r)}

(***************************************************************************)
(* The registered nodes the lookup loop of DAWG_replace_or_register stops  *)
(* at: equivalent to n and filed in the bucket of n's hash.                *)
(***************************************************************************)
Lookup(n) ==
  {r \in Node : /\ [key |-> r, hash |-> Hash(eow[n], next[n])] \in reg
                /\ Equivalent(n, r)}

(***************************************************************************)
(* The stack DAWG_replace_or_register fills: the edges of string from      *)
(* position index on, starting at node n.                                  *)
(***************************************************************************)
StackOf(n, string, index) ==
  LET run == Run(next, n, SubSeq(string, index + 1, Len(string)))
  IN  [k \in 1..(Len(string) - index) |->
         [parent |-> run[k - 1], label |-> string[index + k], child |-> run[k]]]

-----------------------------------------------------------------------------

(***************************************************************************)
(* DAWG_init.  The locals have a resting value between calls.              *)
(***************************************************************************)
Init ==
  /\ q0 = NULL
  /\ next = [n \in Node |-> NoEdges]
  /\ eow = [n \in Node |-> FALSE]
  /\ live = {} /\ leaked = {}
  /\ reg = {} /\ reg_ready = TRUE
  /\ count = 0 /\ longest_word = 0
  /\ state = "EMPTY" /\ prev_word = <<>>
  /\ ret = 0
  /\ pc = "idle" /\ caller = "add"
  /\ word = <<>> /\ i = 0 /\ cur = NULL /\ stack = <<>>

Return(result) ==
  /\ ret' = result
  /\ pc' = "idle" /\ caller' = "add"
  /\ word' = <<>> /\ i' = 0 /\ cur' = NULL /\ stack' = <<>>

(***************************************************************************)
(* DAWG_add_word compares with the previous word first: a smaller word is  *)
(* refused, and so is any word of a closed DAWG.                           *)
(***************************************************************************)
RejectLess(w) ==
  /\ pc = "idle"
  /\ StringCmp(prev_word, w) > 0
  /\ Return(DAWG_WORD_LESS)
  /\ UNCHANGED <<graph, registry, summary>>

RejectFrozen(w) ==
  /\ pc = "idle"
  /\ StringCmp(prev_word, w) <= 0
  /\ state = "CLOSED"
  /\ Return(DAWG_FROZEN)
  /\ UNCHANGED <<graph, registry, summary>>

(***************************************************************************)
(* The call proper.  A client of DAWG_add_word_unchecked vouches for the   *)
(* order DAWG_add_word checks here, and both then do the same.  The root   *)
(* is allocated by the first call.                                         *)
(***************************************************************************)
AddWord(w) ==
  /\ pc = "idle"
  /\ StringCmp(prev_word, w) <= 0
  /\ state # "CLOSED"
  /\ \/ /\ q0 = NULL
        /\ \E n \in Fresh(live \cup leaked) :
             /\ q0' = n /\ cur' = n
             /\ live' = live \cup {n}
             /\ next' = [next EXCEPT ![n] = NoEdges]
             /\ eow' = [eow EXCEPT ![n] = FALSE]
             /\ UNCHANGED leaked
     \/ /\ q0 # NULL
        /\ cur' = q0
        /\ UNCHANGED graph
  /\ pc' = "skip" /\ word' = w /\ i' = 0
  /\ UNCHANGED <<registry, summary, ret, caller, stack>>

(***************************************************************************)
(* 1. skip existing prefix: one iteration.                                 *)
(***************************************************************************)
AtExistingPrefix ==
  i < Len(word) /\ GetChild(next, cur, word[i + 1]) # NULL

SkipPrefix ==
  /\ pc = "skip"
  /\ AtExistingPrefix
  /\ cur' = GetChild(next, cur, word[i + 1])
  /\ i' = i + 1
  /\ UNCHANGED <<graph, registry, summary, ret, pc, caller, word, stack>>

(* Mutant of NothingToMinimize: the last letter is forgotten. *)
NothingLongToMinimize == i + 1 >= Len(prev_word)

(***************************************************************************)
(* 2. minimize: what the previous word has beyond the common prefix is     *)
(* put on the stack, unless it has nothing there.                          *)
(***************************************************************************)
NothingToMinimize == i >= Len(prev_word)

EndOfPrefix ==
  /\ pc = "skip"
  /\ ~AtExistingPrefix
  /\ \/ /\ ~NothingToMinimize
        /\ stack' = StackOf(cur, prev_word, i)
        /\ pc' = "minimize"
     \/ /\ NothingToMinimize
        /\ pc' = "suffix"
        /\ UNCHANGED stack
  /\ UNCHANGED <<graph, registry, summary, ret, caller, word, i, cur>>

(* Mutants: the edge to the freed child stays, the child is not freed, the   *)
(* item stays on the stack.                                                  *)
NotRedirected(item, r) == next
WithNode(n) == live
NotPopped == stack

Redirected(item, r) == [next EXCEPT ![item.parent][item.label] = r]
WithoutNode(n) == live \ {n}
Popped == SubSeq(stack, 1, Len(stack) - 1)

(***************************************************************************)
(* DAWG_replace_or_register, one item of the stack: its child is replaced  *)
(* by an equivalent registered node and freed, or it is registered.        *)
(***************************************************************************)
Replace ==
  /\ pc = "minimize" /\ stack # <<>>
  /\ LET item == stack[Len(stack)]
     IN  \E r \in Lookup(item.child) :
           LET g == Redirected(item, r)
           IN  /\ reg' = Rekeyed(item.parent, g)
               /\ next' = [g EXCEPT ![item.child] = NoEdges]
               /\ eow' = [eow EXCEPT ![item.child] = FALSE]
               /\ live' = WithoutNode(item.child)
  /\ stack' = Popped
  /\ UNCHANGED <<q0, leaked, reg_ready, summary, ret, pc, caller, word, i, cur>>

Register ==
  /\ pc = "minimize" /\ stack # <<>>
  /\ LET item == stack[Len(stack)]
     IN  /\ Lookup(item.child) = {}
         /\ reg' = reg \cup {Entry(item.child, eow, next)}
  /\ stack' = Popped
  /\ UNCHANGED <<graph, reg_ready, summary, ret, pc, caller, word, i, cur>>

Minimized ==
  /\ pc = "minimize" /\ stack = <<>>
  /\ caller = "add"
  /\ pc' = "suffix"
  /\ UNCHANGED <<graph, registry, summary, ret, caller, word, i, cur, stack>>

(***************************************************************************)
(* 3. add suffix: one iteration.                                           *)
(***************************************************************************)
AddSuffix ==
  /\ pc = "suffix"
  /\ i < Len(word)
  /\ \E n \in Fresh(live \cup leaked) :
       LET g == [next EXCEPT ![n] = NoEdges, ![cur][word[i + 1]] = n]
       IN  /\ reg' = Rekeyed(cur, g)
           /\ next' = g
           /\ eow' = [eow EXCEPT ![n] = FALSE]
           /\ live' = live \cup {n}
           /\ cur' = n
  /\ i' = i + 1
  /\ UNCHANGED <<q0, leaked, reg_ready, summary, ret, pc, caller, word, stack>>

(* Mutants: the marker is not set, or every word is counted as new. *)
NotMarked == eow
AllCounted == count + 1

Marked == [eow EXCEPT ![cur] = TRUE]
Counted == IF eow[cur] THEN count ELSE count + 1

(***************************************************************************)
(* The rest of DAWG_add_word_unchecked: mark the last node, count the word *)
(* if it is new, and keep it as the previous word.                         *)
(***************************************************************************)
EndAdd ==
  /\ pc = "suffix"
  /\ i = Len(word)
  /\ eow' = Marked
  /\ count' = Counted
  /\ state' = "ACTIVE"
  /\ longest_word' = IF Len(word) > longest_word THEN Len(word) ELSE longest_word
  /\ prev_word' = word
  /\ Return(IF eow[cur] THEN 0 ELSE 1)
  /\ UNCHANGED <<q0, next, live, leaked, registry>>

(* Mutants: the previous word stays, the destroyed table is not replaced. *)
OldPrevious == prev_word
OldTable == reg_ready

(***************************************************************************)
(* DAWG_close and DAWG_clear free the previous word; DAWG_clear empties    *)
(* the registry table, or makes a new one when a close destroyed it.       *)
(***************************************************************************)
NoPrevious == <<>>
TableForReuse == TRUE

(***************************************************************************)
(* DAWG_close: nothing without a root; otherwise the whole previous word   *)
(* is minimized, then the registry is destroyed.                           *)
(***************************************************************************)
CloseNothing ==
  /\ pc = "idle"
  /\ q0 = NULL
  /\ Return(0)
  /\ UNCHANGED <<graph, registry, summary>>

Close ==
  /\ pc = "idle"
  /\ q0 # NULL
  /\ stack' = StackOf(q0, prev_word, 0)
  /\ pc' = "minimize" /\ caller' = "close"
  /\ UNCHANGED <<graph, registry, summary, ret, word, i, cur>>

EndClose ==
  /\ pc = "minimize" /\ stack = <<>>
  /\ caller = "close"
  /\ reg' = {} /\ reg_ready' = FALSE
  /\ prev_word' = NoPrevious
  /\ state' = "CLOSED"
  /\ Return(1)
  /\ UNCHANGED <<graph, count, longest_word>>

(***************************************************************************)
(* DAWG_clear: free every node below the root, and start over.  A node     *)
(* that is not there stays allocated; nothing refers to it any more, and   *)
(* what it holds is forgotten like what freed memory holds.                *)
(***************************************************************************)
Clear ==
  /\ pc = "idle"
  /\ live' = {}
  /\ leaked' = leaked \cup (live \ Reachable(next, q0, live))
  /\ next' = [n \in Node |-> NoEdges]
  /\ eow' = [n \in Node |-> FALSE]
  /\ q0' = NULL
  /\ reg' = {} /\ reg_ready' = TableForReuse
  /\ count' = 0 /\ longest_word' = 0
  /\ state' = "EMPTY" /\ prev_word' = NoPrevious
  /\ Return(0)

Call ==
  \/ \E w \in Word : AddWord(w) \/ RejectLess(w) \/ RejectFrozen(w)
  \/ Close
  \/ CloseNothing
  \/ Clear

Step ==
  \/ SkipPrefix \/ EndOfPrefix
  \/ Replace \/ Register \/ Minimized
  \/ AddSuffix \/ EndAdd
  \/ EndClose

Next == Call \/ Step

(***************************************************************************)
(* A call that was started runs on: nothing else runs until it returns.    *)
(***************************************************************************)
Fairness == WF_vars(Step)

Spec == Init /\ [][Next]_vars
FairSpec == Spec /\ Fairness

-----------------------------------------------------------------------------
(***************************************************************************)
(* Safety                                                                  *)
(***************************************************************************)

(***************************************************************************)
(* Every item of the registry is "valid" (dawg.h: "registry -- valid       *)
(* states"): its key is an allocated node, filed under the hash the node   *)
(* has now (hashtable_del would miss it otherwise), and no two registered  *)
(* nodes are equivalent.                                                   *)
(***************************************************************************)
RegistryValid ==
  /\ \A item \in reg : /\ item.key \in live
                       /\ item = Entry(item.key, eow, next)
  /\ \A item, other \in reg : Equivalent(item.key, other.key) => item = other

(***************************************************************************)
(* The part of the automaton that is not minimized yet is one path, the    *)
(* tail: the nodes of the previous word, up to the item under work while   *)
(* it is minimized, or of the new word while its suffix is added.          *)
(***************************************************************************)
TailWord ==
  IF pc = "minimize" THEN SubSeq(prev_word, 1, i + Len(stack))
  ELSE IF pc = "suffix" THEN SubSeq(word, 1, i)
  ELSE prev_word

TailNode == Run(next, q0, TailWord)

(***************************************************************************)
(* DAWG_replace_or_register may change or free the nodes of the tail       *)
(* because nothing else refers to them: they are not registered, and the   *)
(* only edge into one comes from the node before it on the tail.  All the  *)
(* other nodes are registered, so that they can be shared.                 *)
(***************************************************************************)
TailUnshared ==
  q0 # NULL /\ state # "CLOSED" =>
    /\ \A k \in 0..Len(TailWord) : TailNode[k] \in live /\ ~Registered(TailNode[k])
    /\ \A n \in live, l \in Letter, k \in 0..Len(TailWord) :
         next[n][l] = TailNode[k] => k > 0 /\ n = TailNode[k - 1] /\ l = TailWord[k]

RestRegistered ==
  q0 # NULL /\ state # "CLOSED" =>
    \A n \in live : ~Registered(n) => \E k \in 0..Len(TailWord) : n = TailNode[k]

UnsharedTail == TailUnshared /\ RestRegistered

(***************************************************************************)
(* No pointer to a freed node: not in an edge of an allocated node, not in *)
(* q0 and not in a local of the call.                                      *)
(***************************************************************************)
NoDangling ==
  /\ {q0, cur} \subseteq live \cup {NULL}
  /\ \A n \in live, l \in Letter : next[n][l] \in live \cup {NULL}
  /\ \A k \in 1..Len(stack) : {stack[k].parent, stack[k].child} \subseteq live

(***************************************************************************)
(* Every allocated node can be reached from q0, also in the middle of a    *)
(* call: what DAWG_clear does not visit it does not free.                  *)
(***************************************************************************)
NoLeak == live = Reachable(next, q0, live)

(***************************************************************************)
(* The automaton is minimal, which is what it is built for (README.rst,    *)
(* "close"): in a closed DAWG no two nodes accept the same words, and      *)
(* before that no two registered ones do.                                  *)
(***************************************************************************)
RightLanguage(n) == {w \in Universe : Accepts(next, eow, n, w)}

Minimal ==
  LET accepted == [n \in live |-> RightLanguage(n)]
  IN  \A p, q \in live :
        /\ p # q
        /\ state = "CLOSED" \/ (Registered(p) /\ Registered(q))
        => accepted[p] # accepted[q]

(***************************************************************************)
(* Between calls count and longest_word are what the graph holds; buffers  *)
(* of iterators and of index2word are sized by longest_word, so no path    *)
(* may be longer.                                                          *)
(***************************************************************************)
Lang == {w \in Universe : Accepts(next, eow, q0, w)}

SummaryExact ==
  pc = "idle" =>
    /\ count = Cardinality(Lang)
    /\ \A w \in Universe : Target(next, q0, w) # NULL => Len(w) <= longest_word
    /\ Lang # {} => \E w \in Lang : Len(w) = longest_word

(***************************************************************************)
(* Between calls the methods that read find at every node the marker, the  *)
(* labels and the children that MinimalGraph computes from the words, and  *)
(* no other nodes: nothing is left over of a call, and no path is a dead   *)
(* end, which longest_prefix and match would report as letters of a word.  *)
(***************************************************************************)
MG == INSTANCE MinimalGraph

ReadAsWords(n) ==
  /\ eow[n] <=> MG!Marker(RightLanguage(n))
  /\ {l \in Letter : next[n][l] # NULL} = MG!Labels(RightLanguage(n))
  /\ \A l \in Letter :
       next[n][l] # NULL => RightLanguage(next[n][l]) = MG!Child(RightLanguage(n), l)

GraphOfWords ==
  pc = "idle" =>
    /\ q0 = NULL <=> Lang = {}
    /\ \A n \in live : ReadAsWords(n)
    /\ q0 # NULL => {RightLanguage(n) : n \in live} = MG!Below(Lang)

(***************************************************************************)
(* The registry has a table whenever it is used: its size divides hashes.  *)
(***************************************************************************)
RegistryReady ==
  (pc = "suffix" /\ i < Len(word)) \/ (pc = "minimize" /\ stack # <<>>)
    => reg_ready

(***************************************************************************)
(* A client sees a set of words.                                           *)
(***************************************************************************)
Client == INSTANCE WordSet WITH words <- Lang, last <- prev_word

ImplementsWordSet == Client!Spec

(***************************************************************************)
(* Every call returns: no loop of the construction runs forever.           *)
(***************************************************************************)
CallsReturn == pc # "idle" ~> pc = "idle"

-----------------------------------------------------------------------------
(***************************************************************************)
(* Why they hold.  Consistent is inductive, and RestRegistered is relative *)
(* to it; DawgProofs proves both.                                          *)
(***************************************************************************)

(***************************************************************************)
(* Words come in order, so the label of the tail is the largest one out of *)
(* each of its nodes.  While a suffix is added no edge is in its way.      *)
(***************************************************************************)
BoundWord == IF pc = "suffix" THEN word ELSE prev_word

TailBounds ==
  q0 # NULL /\ state # "CLOSED" =>
    \A k \in 0..Len(TailWord), l \in Letter :
      next[TailNode[k]][l] # NULL =>
        /\ k < Len(BoundWord)
        /\ l <= BoundWord[k + 1]
        /\ pc = "suffix" /\ k = i => l # word[k + 1]

(***************************************************************************)
(* What the object and the call under way look like at each place.         *)
(***************************************************************************)
ObjectState ==
  /\ q0 = NULL => /\ pc = "idle" /\ state = "EMPTY" /\ prev_word = <<>>
                  /\ live = {} /\ reg = {}
  /\ q0 # NULL => q0 \in live
  /\ state = "CLOSED" => /\ reg = {} /\ prev_word = <<>>
                         /\ pc = "idle" \/ (pc = "minimize" /\ caller = "close")
  /\ state # "CLOSED" => reg_ready

BeforeWord == AgreeBelow(prev_word, word, i + 1) /\ LessEq(prev_word, word)

CallState ==
  /\ pc = "idle" =>
       caller = "add" /\ word = <<>> /\ i = 0 /\ cur = NULL /\ stack = <<>>
  /\ pc = "skip" =>
       /\ caller = "add" /\ stack = <<>>
       /\ i <= Len(prev_word) /\ BeforeWord /\ cur = TailNode[i]
  /\ pc = "minimize" =>
       /\ i + Len(stack) <= Len(prev_word)
       /\ \A k \in 1..Len(stack) :
            stack[k] = [parent |-> TailNode[i + k - 1],
                        label |-> prev_word[i + k],
                        child |-> TailNode[i + k]]
       /\ caller = "close" => word = <<>> /\ i = 0 /\ cur = NULL
       /\ caller = "add" => /\ i < Len(prev_word) /\ i < Len(word) /\ BeforeWord
                            /\ prev_word[i + 1] < word[i + 1]
                            /\ cur = TailNode[i]
  /\ pc = "suffix" => caller = "add" /\ stack = <<>> /\ cur = TailNode[i]

Consistent ==
  /\ TypeOK
  /\ ObjectState /\ CallState
  /\ RegistryValid /\ TailUnshared /\ TailBounds
  /\ NoDangling /\ NoLeak
=============================================================================
