-------------------------- MODULE DawgClassProofs --------------------------
(***************************************************************************)
(* Saving and restoring, for every alphabet, every set of words, every     *)
(* hash function and every malloc, as long as nothing is added to a DAWG   *)
(* that was saved while ACTIVE: what is loaded is what was saved, and the  *)
(* construction goes on from it as from its own.                           *)
(*                                                                         *)
(* Then, for any number of iterators also, the version numbers of the      *)
(* Python object: what carries the object's version was derived from the   *)
(* graph the object has.                                                   *)
(***************************************************************************)
EXTENDS DawgClass, DawgProofs

-----------------------------------------------------------------------------
(***************************************************************************)
(* The invariant of saving and restoring                                   *)
(***************************************************************************)

(***************************************************************************)
(* A dump is a whole graph: its edges stay in it and all of it is reached. *)
(***************************************************************************)
DumpWhole ==
  /\ dump.nodes \subseteq Node /\ dump.root \in dump.nodes \cup {NULL}
  /\ \A m \in dump.nodes :
       /\ dump.eow[m] \in BOOLEAN
       /\ \A l \in Letter : dump.next[m][l] \in dump.nodes \cup {NULL}
  /\ dump.nodes = Reachable(dump.next, dump.root, dump.nodes)
  /\ dump.state \in {"EMPTY", "ACTIVE", "CLOSED"}
  /\ dump.root = NULL <=> dump.state = "EMPTY"
  /\ dump.count \in Nat /\ dump.longest_word \in Nat

(***************************************************************************)
(* Its header agrees with its graph.                                       *)
(***************************************************************************)
DumpSummary ==
  /\ \A w \in Seq(Letter) :
       Target(dump.next, dump.root, w) # NULL => Len(w) <= dump.longest_word
  /\ SavedLang = {} => dump.longest_word = 0
  /\ SavedLang # {} => \E w \in SavedLang : Len(w) = dump.longest_word
  /\ IsFiniteSet(SavedLang) /\ dump.count = Cardinality(SavedLang)

Summary == PathsShort /\ LongestIsWord /\ CountIsExact

(***************************************************************************)
(* A restored ACTIVE dump, as long as nothing is added: the graph is as    *)
(* it should be, and a close has no tail to minimize.                      *)
(***************************************************************************)
Held ==
  /\ TypeOK /\ NoDangling /\ NoLeak
  /\ q0 # NULL /\ state # "EMPTY" /\ prev_word = <<>>
  /\ pc = "idle" \/ (pc = "minimize" /\ caller = "close" /\ stack = <<>>)

(***************************************************************************)
(* The inductive invariant.                                                *)
(***************************************************************************)
Persistent ==
  /\ restored \in BOOLEAN
  /\ ~restored => Consistent /\ RestRegistered /\ InOrder
  /\ restored => Held
  /\ Summary
  /\ DumpWhole /\ DumpSummary

(***************************************************************************)
(* Between calls the graph can be saved or given up, restored or not.      *)
(***************************************************************************)
LEMMA WholeGraph ==
  ASSUME Persistent, pc = "idle"
  PROVE  /\ TypeOK /\ NoDangling /\ NoLeak
         /\ q0 = NULL <=> state = "EMPTY"
BY DEF Persistent, Held, Consistent, ObjectState, InOrder

-----------------------------------------------------------------------------
(***************************************************************************)
(* Saving                                                                  *)
(***************************************************************************)

(***************************************************************************)
(* The saved graph is read as the one it was saved from.                   *)
(***************************************************************************)
LEMMA SavedRuns ==
  ASSUME NoDangling, NoLeak, NULL \notin live, dump' = Image,
         NEW w \in Seq(Letter)
  PROVE  /\ Target(dump'.next, dump'.root, w) = Target(next, q0, w)
         /\ Accepts(dump'.next, dump'.eow, dump'.root, w) <=> Accepts(next, eow, q0, w)
<1> DEFINE R == {<<x, x>> : x \in live \cup {NULL}}
<1>1. \A x, y : <<x, y>> \in R <=> x = y /\ x \in live \cup {NULL}
  OBVIOUS
<1>2. SavedNodes = live
  BY DEF SavedNodes, NoLeak
<1>3. /\ dump'.root = q0
      /\ dump'.next = [n \in live |-> next[n]] /\ dump'.eow = [n \in live |-> eow[n]]
  BY <1>2 DEF Image
<1> HIDE DEF R
<1>4. Simulates(R, dump'.next, next)
  BY <1>1, <1>3 DEF Simulates, GetChild, NoDangling
<1>5. SameMarkers(R, dump'.eow, eow)
  BY <1>1, <1>3 DEF SameMarkers
<1>6. <<dump'.root, q0>> \in R
  BY <1>1, <1>3 DEF NoDangling
<1>7. <<Target(dump'.next, dump'.root, w), Target(next, q0, w)>> \in R
  BY <1>4, <1>6, RelatedTargets
<1> QED
  BY <1>1, <1>4, <1>5, <1>6, <1>7, SameWords

LEMMA SavedLangIs ==
  ASSUME NoDangling, NoLeak, NULL \notin live, dump' = Image
  PROVE  SavedLang' = Lang
<1>1. \A w \in Universe : w \in Seq(Letter)
  BY UniverseAssumption
<1>2. \A w \in Universe :
        Accepts(dump'.next, dump'.eow, dump'.root, w) <=> Accepts(next, eow, q0, w)
  BY <1>1, SavedRuns
<1>3. SavedLang' = {w \in Universe : Accepts(dump'.next, dump'.eow, dump'.root, w)}
  BY DEF SavedLang
<1> QED
  BY <1>2, <1>3, Zenon DEF Lang

LEMMA SaveDumps ==
  ASSUME Persistent, pc = "idle", dump' = Image
  PROVE  DumpWhole' /\ DumpSummary' /\ SavedLang' = Lang /\ dump'.state = state
<1>1. /\ TypeOK /\ NoDangling /\ NoLeak
      /\ q0 = NULL <=> state = "EMPTY"
  BY WholeGraph
<1>2. NULL \notin live /\ live \subseteq Node
  BY <1>1, NullAssumption DEF TypeOK
<1>3. SavedNodes = live
  BY <1>1 DEF SavedNodes, NoLeak
<1>4. /\ dump'.root = q0 /\ dump'.nodes = live /\ dump'.state = state
      /\ dump'.next = [n \in live |-> next[n]] /\ dump'.eow = [n \in live |-> eow[n]]
      /\ dump'.count = count /\ dump'.longest_word = longest_word
  BY <1>3 DEF Image
<1>5. SavedLang' = Lang
  BY <1>1, <1>2, SavedLangIs
<1>6. DumpWhole'
  <2>1. /\ live \subseteq Node /\ q0 \in live \cup {NULL}
        /\ \A m \in live : /\ eow[m] \in BOOLEAN
                           /\ \A l \in Letter : next[m][l] \in live \cup {NULL}
        /\ state \in {"EMPTY", "ACTIVE", "CLOSED"}
        /\ count \in Nat /\ longest_word \in Nat
    BY <1>1 DEF TypeOK, NoDangling
  <2>2. ClosedSets(dump'.next, q0, live) = ClosedSets(next, q0, live)
    BY <1>4 DEF ClosedSets
  <2>3. live = Reachable(dump'.next, q0, live)
    BY <2>2, <1>1 DEF Reachable, NoLeak
  <2> QED
    BY <2>1, <2>3, <1>1, <1>4 DEF DumpWhole
<1>7. DumpSummary'
  <2>1. PathsShort /\ LongestIsWord /\ CountIsExact
    BY DEF Persistent, Summary
  <2>2. ASSUME NEW w \in Seq(Letter), Target(dump'.next, dump'.root, w) # NULL
        PROVE  Len(w) <= longest_word
    <3>1. Target(next, q0, w) # NULL
      BY <2>2, <1>1, <1>2, SavedRuns
    <3> QED
      BY <3>1, <2>1 DEF PathsShort
  <2> QED
    BY <2>1, <2>2, <1>4, <1>5 DEF DumpSummary, LongestIsWord, CountIsExact
<1> QED
  BY <1>4, <1>5, <1>6, <1>7

-----------------------------------------------------------------------------
(***************************************************************************)
(* Loading                                                                 *)
(***************************************************************************)

(***************************************************************************)
(* The addresses of a load, and the graph it leaves: nothing but copies.   *)
(***************************************************************************)
Loaded(copy) ==
  /\ Allocated(copy) /\ Installed(copy) /\ q0' = Linked(copy, dump.root)
  /\ Return(0)

LEMMA LoadFacts ==
  ASSUME Persistent, pc = "idle", NEW copy, Loaded(copy)
  PROVE  /\ NULL \notin dump.nodes
         /\ \A m \in dump.nodes : copy[m] \in Node /\ copy[m] # NULL
         /\ \A m, n \in dump.nodes : copy[m] = copy[n] => m = n
         /\ live' = {copy[m] : m \in dump.nodes}
         /\ \A m \in dump.nodes :
              /\ eow'[copy[m]] = dump.eow[m]
              /\ \A l \in Letter : next'[copy[m]][l] = Linked(copy, dump.next[m][l])
         /\ next' \in [Node -> [Letter -> Node \cup {NULL}]]
         /\ eow' \in [Node -> BOOLEAN]
<1>1. TypeOK /\ NoLeak
  BY WholeGraph
<1>2. DumpWhole
  BY DEF Persistent
<1>3. NULL \notin dump.nodes /\ dump.nodes \subseteq Node
  BY <1>2, NullAssumption DEF DumpWhole
<1>4. /\ copy \in [dump.nodes -> Node \ live]
      /\ \A m, n \in dump.nodes : copy[m] = copy[n] => m = n
  BY DEF Loaded, Allocated
<1>5. \A m \in dump.nodes : copy[m] \in Node /\ copy[m] # NULL
  BY <1>4, NullAssumption
<1>6. live' = {copy[m] : m \in dump.nodes}
  BY DEF Loaded, Installed
<1>7. ASSUME NEW n \in Node, IsCopy(copy, n)
      PROVE  Original(copy, n) \in dump.nodes /\ copy[Original(copy, n)] = n
  BY <1>7 DEF IsCopy, Original
<1>8. ASSUME NEW m \in dump.nodes
      PROVE  IsCopy(copy, copy[m]) /\ Original(copy, copy[m]) = m
  <2>1. IsCopy(copy, copy[m])
    BY DEF IsCopy
  <2> QED
    BY <2>1, <1>4, <1>5, <1>7
<1>9. /\ next' = [n \in Node |->
            IF IsCopy(copy, n)
              THEN [l \in Letter |-> Linked(copy, dump.next[Original(copy, n)][l])]
              ELSE IF n \in Freed THEN NoEdges ELSE next[n]]
      /\ eow' = [n \in Node |->
            IF IsCopy(copy, n) THEN dump.eow[Original(copy, n)]
                               ELSE eow[n] /\ n \notin Freed]
  BY DEF Loaded, Installed, LoadedMarker
<1>10. ASSUME NEW m \in dump.nodes
       PROVE  /\ eow'[copy[m]] = dump.eow[m]
              /\ \A l \in Letter : next'[copy[m]][l] = Linked(copy, dump.next[m][l])
  BY <1>5, <1>8, <1>9
<1>11. next' \in [Node -> [Letter -> Node \cup {NULL}]]
  <2>1. ASSUME NEW n \in Node
        PROVE  next'[n] \in [Letter -> Node \cup {NULL}]
    <3>1. CASE IsCopy(copy, n)
      <4>1. \A l \in Letter :
              dump.next[Original(copy, n)][l] \in dump.nodes \cup {NULL}
        BY <3>1, <1>2, <1>7 DEF DumpWhole
      <4>2. \A l \in Letter :
              Linked(copy, dump.next[Original(copy, n)][l]) \in Node \cup {NULL}
        BY <4>1, <1>5 DEF Linked
      <4>3. next'[n] = [l \in Letter |-> Linked(copy, dump.next[Original(copy, n)][l])]
        BY <3>1, <1>9
      <4> QED
        BY <4>2, <4>3
    <3>2. CASE ~IsCopy(copy, n)
      <4>1. NoEdges \in [Letter -> Node \cup {NULL}] /\ next[n] \in [Letter -> Node \cup {NULL}]
        BY <1>1 DEF NoEdges, TypeOK
      <4> QED
        BY <4>1, <3>2, <1>9
    <3> QED
      BY <3>1, <3>2
  <2>2. next' = [n \in Node |-> next'[n]]
    BY <1>9
  <2> QED
    BY <2>1, <2>2
<1>12. eow' \in [Node -> BOOLEAN]
  <2>1. ASSUME NEW n \in Node PROVE eow'[n] \in BOOLEAN
    <3>1. CASE IsCopy(copy, n)
      BY <3>1, <1>2, <1>7, <1>9 DEF DumpWhole
    <3>2. CASE ~IsCopy(copy, n)
      BY <3>2, <1>9
    <3> QED
      BY <3>1, <3>2
  <2>2. eow' = [n \in Node |-> eow'[n]]
    BY <1>9
  <2> QED
    BY <2>1, <2>2
<1> QED
  BY <1>3, <1>4, <1>5, <1>6, <1>10, <1>11, <1>12

(***************************************************************************)
(* Nothing dangles and nothing leaks: a closed set of copies is that of a  *)
(* closed set of the nodes in the dump.                                    *)
(***************************************************************************)
LEMMA LoadWhole ==
  ASSUME Persistent, pc = "idle", NEW copy, Loaded(copy)
  PROVE  NoDangling' /\ NoLeak' /\ (q0' = NULL <=> dump.root = NULL) /\ q0' \in live' \cup {NULL}
<1> USE LoadFacts
<1>1. /\ dump.root \in dump.nodes \cup {NULL}
      /\ \A m \in dump.nodes, l \in Letter : dump.next[m][l] \in dump.nodes \cup {NULL}
      /\ dump.nodes = Reachable(dump.next, dump.root, dump.nodes)
  BY DEF Persistent, DumpWhole
<1>2. q0' = Linked(copy, dump.root) /\ cur' = NULL /\ stack' = <<>>
  BY DEF Loaded, Return
<1>3. q0' \in live' \cup {NULL} /\ (q0' = NULL <=> dump.root = NULL)
  BY <1>1, <1>2 DEF Linked
<1>4. ASSUME NEW n \in live', NEW l \in Letter
      PROVE  next'[n][l] \in live' \cup {NULL}
  <2>1. PICK m \in dump.nodes : n = copy[m]
    OBVIOUS
  <2>2. next'[n][l] = Linked(copy, dump.next[m][l])
    BY <2>1
  <2> QED
    BY <2>1, <2>2, <1>1 DEF Linked
<1>5. NoDangling'
  <2>1. Len(stack') = 0
    BY <1>2
  <2> QED
    BY <2>1, <1>2, <1>3, <1>4 DEF NoDangling
<1>6. NoLeak'
  <2> SUFFICES ASSUME NEW S \in ClosedSets(next', q0', live')
               PROVE  live' \subseteq S
    BY AllReached DEF NoLeak
  <2> DEFINE M == {m \in dump.nodes : copy[m] \in S}
  <2>1. /\ q0' # NULL => q0' \in S
        /\ \A n \in S, l \in Letter : next'[n][l] # NULL => next'[n][l] \in S
    BY DEF ClosedSets
  <2>2. dump.root # NULL => dump.root \in M
    BY <2>1, <1>1, <1>2, <1>3 DEF Linked
  <2>3. ASSUME NEW m \in M, NEW l \in Letter, dump.next[m][l] # NULL
        PROVE  dump.next[m][l] \in M
    <3>1. dump.next[m][l] \in dump.nodes
      BY <2>3, <1>1
    <3>2. next'[copy[m]][l] = copy[dump.next[m][l]]
      BY <2>3 DEF Linked
    <3>3. next'[copy[m]][l] \in S
      BY <3>1, <3>2, <2>1
    <3> QED
      BY <3>1, <3>2, <3>3
  <2>4. M \in ClosedSets(dump.next, dump.root, dump.nodes)
    BY <2>2, <2>3 DEF ClosedSets
  <2>5. dump.nodes \subseteq M
    BY <2>4, <1>1, AllReached
  <2> QED
    BY <2>5
<1> QED
  BY <1>3, <1>5, <1>6

(***************************************************************************)
(* The copies are read as the dump is.                                     *)
(***************************************************************************)
LEMMA LoadedRuns ==
  ASSUME Persistent, pc = "idle", NEW copy, Loaded(copy), NEW w \in Seq(Letter)
  PROVE  /\ Target(next', q0', w) = NULL <=> Target(dump.next, dump.root, w) = NULL
         /\ Accepts(next', eow', q0', w) <=> Accepts(dump.next, dump.eow, dump.root, w)
<1> USE LoadFacts
<1> DEFINE R == {<<m, Linked(copy, m)>> : m \in dump.nodes \cup {NULL}}
<1>1. \A x, y : <<x, y>> \in R <=> x \in dump.nodes \cup {NULL} /\ y = Linked(copy, x)
  OBVIOUS
<1>2. /\ dump.root \in dump.nodes \cup {NULL}
      /\ \A m \in dump.nodes, l \in Letter : dump.next[m][l] \in dump.nodes \cup {NULL}
      /\ \A m \in dump.nodes : dump.eow[m] \in BOOLEAN
  BY DEF Persistent, DumpWhole
<1>3. q0' = Linked(copy, dump.root)
  BY DEF Loaded
<1> HIDE DEF R
<1>4. \A x \in dump.nodes \cup {NULL} : Linked(copy, x) = NULL <=> x = NULL
  BY DEF Linked
<1>5. Simulates(R, dump.next, next')
  <2> SUFFICES ASSUME NEW x \in dump.nodes \cup {NULL}, NEW l \in Letter
               PROVE  <<GetChild(dump.next, x, l), GetChild(next', Linked(copy, x), l)>> \in R
    BY <1>1 DEF Simulates
  <2>1. CASE x = NULL
    BY <2>1, <1>1 DEF GetChild, Linked
  <2>2. CASE x # NULL
    <3>1. x \in dump.nodes /\ Linked(copy, x) = copy[x] /\ copy[x] # NULL
      BY <2>2 DEF Linked
    <3>2. next'[copy[x]][l] = Linked(copy, dump.next[x][l])
      BY <3>1
    <3>3. dump.next[x][l] \in dump.nodes \cup {NULL}
      BY <3>1, <1>2
    <3> QED
      BY <3>1, <3>2, <3>3, <2>2, <1>1 DEF GetChild
  <2> QED
    BY <2>1, <2>2
<1>6. SameMarkers(R, dump.eow, eow')
  <2> SUFFICES ASSUME NEW x, NEW y, <<x, y>> \in R
               PROVE  x # NULL /\ dump.eow[x] <=> y # NULL /\ eow'[y]
    BY DEF SameMarkers
  <2>0. x \in dump.nodes \cup {NULL} /\ y = Linked(copy, x)
    BY <1>1
  <2>1. CASE x = NULL
    BY <2>0, <2>1, <1>4
  <2>2. CASE x # NULL
    <3>1. x \in dump.nodes /\ y = copy[x] /\ copy[x] # NULL
      BY <2>0, <2>2 DEF Linked
    <3>2. eow'[copy[x]] = dump.eow[x]
      BY <3>1
    <3> QED
      BY <3>1, <3>2, <2>2
  <2> QED
    BY <2>1, <2>2
<1>7. <<dump.root, q0'>> \in R
  BY <1>1, <1>2, <1>3
<1>8. <<Target(dump.next, dump.root, w), Target(next', q0', w)>> \in R
  BY <1>5, <1>7, RelatedTargets
<1>9. Accepts(dump.next, dump.eow, dump.root, w) <=> Accepts(next', eow', q0', w)
  BY <1>5, <1>6, <1>7, SameWords
<1> QED
  BY <1>1, <1>4, <1>8, <1>9

LEMMA LoadedLang ==
  ASSUME Persistent, pc = "idle", NEW copy, Loaded(copy)
  PROVE  Lang' = SavedLang
<1>1. \A w \in Universe :
        Accepts(next', eow', q0', w) <=> Accepts(dump.next, dump.eow, dump.root, w)
  BY LoadedRuns, UniverseAssumption
<1>2. \A w : w \in Lang' <=> w \in SavedLang
  BY <1>1, LangOf DEF SavedLang
<1> QED
  BY <1>2, Zenon

(***************************************************************************)
(* The object Load leaves: a dump that was saved while ACTIVE is held, any *)
(* other one is as if it had been built.                                   *)
(***************************************************************************)
LEMMA LoadType ==
  ASSUME Persistent, Load
  PROVE  TypeOK'
<1>1. PICK copy : Loaded(copy) /\ reg' = Recreated(copy, eow', next')
  BY DEF Load, Loaded
<1>2. /\ live' \subseteq Node /\ q0' \in Node \cup {NULL}
      /\ next' \in [Node -> [Letter -> Node \cup {NULL}]] /\ eow' \in [Node -> BOOLEAN]
      /\ \A m \in dump.nodes : copy[m] \in Node
  BY <1>1, LoadFacts, LoadWhole DEF Load
<1>3. reg' \subseteq [key : Node, hash : HashValue]
  <2>1. ASSUME NEW m \in dump.nodes
        PROVE  Entry(copy[m], eow', next') \in [key : Node, hash : HashValue]
    <3>1. eow'[copy[m]] \in BOOLEAN /\ next'[copy[m]] \in [Letter -> Node \cup {NULL}]
      BY <1>2
    <3>2. Hash(eow'[copy[m]], next'[copy[m]]) \in HashValue
      BY <3>1 DEF HashValue
    <3> QED
      BY <3>2, <1>2 DEF Entry
  <2> QED
    BY <2>1, <1>1 DEF Recreated
<1>4. /\ dump.state \in {"EMPTY", "ACTIVE", "CLOSED"}
      /\ dump.count \in Nat /\ dump.longest_word \in Nat
  BY DEF Persistent, DumpWhole
<1>5. leaked' \subseteq Node
  <2>1. live \subseteq Node /\ leaked \subseteq Node
    BY WholeGraph DEF Load, TypeOK
  <2> QED
    BY <2>1, <1>1 DEF Loaded, Installed
<1> QED
  BY <1>2, <1>3, <1>4, <1>5, EmptyLocals
  DEF TypeOK, Load, Return, RestoredLongest, TableForReuse, NoPrevious

LEMMA LoadKeeps ==
  ASSUME Persistent, Load
  PROVE  Persistent' /\ Lang' = SavedLang /\ UNCHANGED dump
<1>1. PICK copy : Loaded(copy) /\ reg' = Recreated(copy, eow', next')
  BY DEF Load, Loaded
<1>2. /\ pc = "idle" /\ state' = dump.state /\ prev_word' = <<>> /\ reg_ready' = TRUE
      /\ count' = dump.count /\ longest_word' = dump.longest_word
      /\ restored' = (dump.state = "ACTIVE") /\ dump' = dump
      /\ pc' = "idle" /\ caller' = "add" /\ word' = <<>> /\ i' = 0 /\ cur' = NULL
      /\ stack' = <<>>
  BY DEF Load, Return, RestoredLongest, TableForReuse, NoPrevious
<1>3. /\ NoDangling' /\ NoLeak' /\ (q0' = NULL <=> dump.root = NULL)
      /\ q0' \in live' \cup {NULL}
  BY <1>1, <1>2, LoadWhole
<1>4. TypeOK'
  BY LoadType
<1>5. DumpWhole /\ DumpSummary
  BY DEF Persistent
<1>6. Lang' = SavedLang
  BY <1>1, <1>2, LoadedLang
<1>7. DumpWhole' /\ DumpSummary'
  BY <1>2, <1>5 DEF DumpWhole, DumpSummary, SavedLang
<1>8. Summary'
  <2>1. ASSUME NEW w \in Seq(Letter), Target(next', q0', w) # NULL
        PROVE  Len(w) <= longest_word'
    <3>1. Target(dump.next, dump.root, w) # NULL
      BY <2>1, <1>1, <1>2, LoadedRuns
    <3> QED
      BY <3>1, <1>2, <1>5 DEF DumpSummary
  <2> QED
    BY <2>1, <1>2, <1>5, <1>6
    DEF Summary, PathsShort, LongestIsWord, CountIsExact, DumpSummary
<1>9. restored' => Held'
  BY <1>2, <1>3, <1>4, <1>5 DEF Held, DumpWhole
<1>10. ~restored' => Consistent' /\ RestRegistered' /\ InOrder'
  <2> SUFFICES ASSUME dump.state # "ACTIVE"
               PROVE  Consistent' /\ RestRegistered' /\ InOrder'
    BY <1>2
  <2>1. reg' = {}
    BY <1>1 DEF Recreated
  <2>2. state' = "CLOSED" \/ q0' = NULL
    BY <1>2, <1>3, <1>5 DEF DumpWhole
  <2>3. q0' = NULL => live' = {}
    <3> SUFFICES ASSUME q0' = NULL PROVE live' = {}
      OBVIOUS
    <3>1. {} \in ClosedSets(next', q0', live')
      BY DEF ClosedSets
    <3> QED
      BY <3>1, <1>3, AllReached DEF NoLeak
  <2>4. ObjectState' /\ CallState' /\ InOrder'
    BY <1>2, <1>3, <1>5, <2>1, <2>3 DEF ObjectState, CallState, InOrder, DumpWhole
  <2>5. RegistryValid'
    BY <2>1 DEF RegistryValid
  <2>6. TailUnshared' /\ TailBounds' /\ RestRegistered'
    BY <2>2 DEF TailUnshared, TailBounds, RestRegistered
  <2> QED
    BY <1>3, <1>4, <2>4, <2>5, <2>6 DEF Consistent
<1> QED
  BY <1>2, <1>6, <1>7, <1>8, <1>9, <1>10 DEF Persistent

-----------------------------------------------------------------------------
(***************************************************************************)
(* The other steps                                                         *)
(***************************************************************************)

(***************************************************************************)
(* A step of the construction while no ACTIVE dump is held.                *)
(***************************************************************************)
LEMMA BuildKeeps ==
  ASSUME Persistent, ~restored, [Next]_vars, restored' = FALSE, UNCHANGED dump
  PROVE  Persistent'
<1>1. Summarized
  BY DEF Persistent, Summary, Summarized
<1>2. Summarized'
  BY <1>1, NextSummarized
<1>3. DumpWhole' /\ DumpSummary'
  BY DEF Persistent, DumpWhole, DumpSummary, SavedLang
<1>4. RestRegistered'
  BY <1>1, NextConsistent DEF KeepsRest, Persistent, Summarized
<1> QED
  BY <1>2, <1>3, <1>4 DEF Persistent, Summary, Summarized

LEMMA ClearHeld ==
  ASSUME Held, Clear
  PROVE  Consistent' /\ RestRegistered' /\ InOrder' /\ Summary'
<1>1. Consistent' /\ RestRegistered'
  BY ClearConsistent DEF Held
<1>2. /\ q0' = NULL /\ count' = 0 /\ longest_word' = 0
      /\ pc' = "idle" /\ caller' = "add"
  BY DEF Clear, Return
<1>3. InOrder' /\ Summary'
  BY <1>2, EmptySummary DEF InOrder, Summary
<1> QED
  BY <1>1, <1>3

(***************************************************************************)
(* The calls that leave the graph alone, on a held dump: a close has       *)
(* nothing on its stack because there is no previous word.                 *)
(***************************************************************************)
HeldCall ==
  \/ \E w \in Word : RejectLess(w) \/ RejectFrozen(w)
  \/ CloseNothing \/ Close \/ EndClose
  \/ UNCHANGED vars

LEMMA HeldKept ==
  ASSUME Held, Summary, HeldCall
  PROVE  Held' /\ Summary' /\ UNCHANGED <<q0, next, eow>>
<1>1. UNCHANGED graph /\ UNCHANGED <<count, longest_word>>
  BY DEF HeldCall, RejectLess, RejectFrozen, CloseNothing, Close, EndClose, vars, summary
<1>2. pc # "suffix"
  BY DEF Held
<1>3. Summary'
  BY <1>1, <1>2, ReturnSummary DEF Summary, graph
<1>4. CASE (\E w \in Word : RejectLess(w) \/ RejectFrozen(w)) \/ CloseNothing
  <2>1. /\ UNCHANGED <<reg, reg_ready, state, prev_word>>
        /\ ret' \in {0, DAWG_WORD_LESS, DAWG_FROZEN}
        /\ pc' = "idle" /\ caller' = "add" /\ word' = <<>> /\ i' = 0 /\ cur' = NULL
        /\ stack' = <<>>
    BY <1>4 DEF RejectLess, RejectFrozen, CloseNothing, Return, registry, summary
  <2>2. TypeOK'
    BY <2>1, <1>1, EmptyLocals DEF Held, TypeOK, graph
  <2>3. NoDangling' /\ NoLeak'
    BY <2>1, <1>1 DEF Held, NoDangling, NoLeak, graph
  <2> QED
    BY <2>1, <2>2, <2>3, <1>1, <1>3 DEF Held, graph
<1>5. CASE Close
  <2>1. /\ stack' = StackOf(q0, <<>>, 0) /\ pc' = "minimize" /\ caller' = "close"
        /\ UNCHANGED <<reg, reg_ready, state, prev_word, ret, word, i, cur>>
    BY <1>5 DEF Close, Held, registry, summary
  <2>2. stack' = <<>>
    BY <2>1 DEF StackOf
  <2>3. TypeOK'
    BY <2>1, <2>2, <1>1, EmptyLocals DEF Held, TypeOK, graph
  <2>4. NoDangling' /\ NoLeak'
    BY <2>1, <2>2, <1>1 DEF Held, NoDangling, NoLeak, graph
  <2> QED
    BY <2>1, <2>2, <2>3, <2>4, <1>1, <1>3 DEF Held, graph
<1>6. CASE EndClose
  <2>1. /\ reg' = {} /\ reg_ready' = FALSE /\ prev_word' = <<>> /\ state' = "CLOSED"
        /\ ret' = 1 /\ pc' = "idle" /\ caller' = "add" /\ word' = <<>> /\ i' = 0
        /\ cur' = NULL /\ stack' = <<>>
    BY <1>6 DEF EndClose, Return, NoPrevious
  <2>2. TypeOK'
    BY <2>1, <1>1, EmptyLocals DEF Held, TypeOK, graph
  <2>3. NoDangling' /\ NoLeak'
    BY <2>1, <1>1 DEF Held, NoDangling, NoLeak, graph
  <2> QED
    BY <2>1, <2>2, <2>3, <1>1, <1>3 DEF Held, graph
<1>7. CASE UNCHANGED vars
  <2>1. UNCHANGED <<graph, registry, summary, ret, locals>>
    BY <1>7 DEF vars
  <2> QED
    BY <2>1, <1>3 DEF Held, TypeOK, NoDangling, NoLeak, graph, registry, summary, locals
<1> QED
  BY <1>1, <1>3, <1>4, <1>5, <1>6, <1>7 DEF HeldCall, graph

(***************************************************************************)
(* What may happen to a held dump: nothing is added to it, so that no      *)
(* place in the construction but the end of a close is ever reached.       *)
(***************************************************************************)
LEMMA HeldSteps ==
  ASSUME Persistent, restored, ~AddsAfterRestore, [PersistNext]_persistVars
  PROVE  \/ HeldCall /\ UNCHANGED persistent
         \/ Clear /\ restored' = FALSE /\ UNCHANGED dump
         \/ Save
         \/ Load
<1>1. pc = "idle" \/ (pc = "minimize" /\ caller = "close" /\ stack = <<>>)
  BY DEF Persistent, Held
<1>2. CASE PersistCall /\ UNCHANGED dump
  BY <1>2 DEF PersistCall, MayAdd, HeldCall, persistent
<1>3. CASE Step /\ UNCHANGED persistent
  <2>1. EndClose
    BY <1>1, <1>3 DEF Step, SkipPrefix, EndOfPrefix, Replace, Register, Minimized,
                      AddSuffix, EndAdd
  <2> QED
    BY <2>1, <1>3 DEF HeldCall
<1>4. CASE UNCHANGED persistVars
  BY <1>4 DEF persistVars, HeldCall
<1>5. \/ PersistCall /\ UNCHANGED dump
      \/ Step /\ UNCHANGED persistent
      \/ Save \/ Load
      \/ UNCHANGED persistVars
  BY DEF PersistNext
<1> QED
  BY <1>2, <1>3, <1>4, <1>5, Zenon

LEMMA BuildSteps ==
  ASSUME Persistent, ~restored, [PersistNext]_persistVars
  PROVE  \/ [Next]_vars /\ restored' = FALSE /\ UNCHANGED dump
         \/ Save
         \/ Load
<1>1. restored = FALSE
  BY DEF Persistent
<1>2. CASE PersistCall /\ UNCHANGED dump
  BY <1>1, <1>2 DEF PersistCall, Next, Call
<1>3. CASE Step /\ UNCHANGED persistent
  BY <1>1, <1>3 DEF Next, persistent
<1>4. CASE UNCHANGED persistVars
  BY <1>1, <1>4 DEF persistVars, persistent
<1>5. \/ PersistCall /\ UNCHANGED dump
      \/ Step /\ UNCHANGED persistent
      \/ Save \/ Load
      \/ UNCHANGED persistVars
  BY DEF PersistNext
<1> QED
  BY <1>2, <1>3, <1>4, <1>5, Zenon

LEMMA SaveKeeps ==
  ASSUME Persistent, Save
  PROVE  Persistent' /\ Lang' = Lang /\ SavedLang' = Lang /\ dump'.state = state
<1>1. pc = "idle" /\ dump' = Image /\ UNCHANGED vars /\ restored' = restored
  BY DEF Save
<1>2. DumpWhole' /\ DumpSummary' /\ SavedLang' = Lang /\ dump'.state = state
  BY <1>1, SaveDumps
<1>3. Lang' = Lang
  BY <1>1, SameGraphLang DEF vars, graph
<1>4. CASE ~restored
  <2>1. Summarized
    BY <1>4 DEF Persistent, Summary, Summarized
  <2>2. Summarized'
    BY <2>1, <1>1, NextSummarized
  <2>3. RestRegistered'
    BY <2>1, <1>1, <1>4, NextConsistent DEF KeepsRest, Persistent, Summarized
  <2> QED
    BY <2>2, <2>3, <1>1, <1>2, <1>3, <1>4 DEF Persistent, Summary, Summarized
<1>5. CASE restored
  <2>1. HeldCall /\ Held /\ Summary
    BY <1>1, <1>5 DEF HeldCall, Persistent
  <2>2. Held' /\ Summary'
    BY <2>1, HeldKept
  <2>3. restored' \in BOOLEAN /\ restored'
    BY <1>1, <1>5 DEF Persistent
  <2> QED
    BY <2>2, <2>3, <1>2, <1>3 DEF Persistent
<1> QED
  BY <1>4, <1>5

LEMMA NextPersistent ==
  ASSUME ~AddsAfterRestore, Persistent, [PersistNext]_persistVars
  PROVE  Persistent'
<1>1. CASE Save
  BY <1>1, SaveKeeps
<1>2. CASE Load
  BY <1>2, LoadKeeps
<1>3. ASSUME ~restored, [Next]_vars, restored' = FALSE, UNCHANGED dump
      PROVE  Persistent'
  BY <1>3, BuildKeeps, Zenon
<1>4. ASSUME restored, UNCHANGED dump,
             (HeldCall /\ UNCHANGED persistent) \/ (Clear /\ restored' = FALSE)
      PROVE  Persistent'
  <2>1. DumpWhole' /\ DumpSummary'
    BY <1>4 DEF Persistent, DumpWhole, DumpSummary, SavedLang
  <2>2. Held /\ Summary
    BY <1>4 DEF Persistent
  <2>3. CASE HeldCall /\ UNCHANGED persistent
    <3>1. Held' /\ Summary'
      BY <2>2, <2>3, HeldKept
    <3>2. restored' \in BOOLEAN /\ restored'
      BY <1>4, <2>3 DEF Persistent, persistent
    <3> QED
      BY <3>1, <3>2, <2>1 DEF Persistent
  <2>4. CASE Clear /\ restored' = FALSE
    <3>1. Consistent' /\ RestRegistered' /\ InOrder' /\ Summary'
      BY <2>2, <2>4, ClearHeld
    <3> QED
      BY <3>1, <2>1, <2>4 DEF Persistent
  <2> QED
    BY <1>4, <2>3, <2>4, Zenon
<1>5. CASE restored
  <2>1. \/ HeldCall /\ UNCHANGED persistent
        \/ Clear /\ restored' = FALSE /\ UNCHANGED dump
        \/ Save \/ Load
    BY <1>5, HeldSteps, Zenon
  <2>2. UNCHANGED persistent => UNCHANGED dump
    BY DEF persistent
  <2> QED
    BY <1>1, <1>2, <1>4, <1>5, <2>1, <2>2, Zenon
<1>6. CASE ~restored
  <2>1. \/ [Next]_vars /\ restored' = FALSE /\ UNCHANGED dump
        \/ Save \/ Load
    BY <1>6, BuildSteps, Zenon
  <2> QED
    BY <1>1, <1>2, <1>3, <1>6, <2>1, Zenon
<1> QED
  BY <1>5, <1>6

LEMMA InitPersistent ==
  ASSUME PersistInit
  PROVE  Persistent /\ Lang = {} /\ SavedLang = {}
<1>1. /\ Init /\ dump = Image /\ restored = FALSE
      /\ q0 = NULL /\ live = {} /\ state = "EMPTY" /\ count = 0 /\ longest_word = 0
  BY DEF PersistInit, Init
<1>2. Consistent /\ InOrder /\ PathsShort /\ LongestIsWord /\ CountIsExact
  BY <1>1, InitSummarized DEF Summarized
<1>3. /\ dump.root = NULL /\ dump.nodes = {} /\ dump.state = "EMPTY"
      /\ dump.count = 0 /\ dump.longest_word = 0
  BY <1>1 DEF Image, SavedNodes, Reachable
<1>4. \A w \in Seq(Letter) : /\ Target(dump.next, dump.root, w) = NULL
                             /\ ~Accepts(dump.next, dump.eow, dump.root, w)
  BY <1>3, NoRootNoWord
<1>5. SavedLang = {}
  BY <1>4, UniverseAssumption, Zenon DEF SavedLang
<1>6. IsFiniteSet({}) /\ Cardinality({}) = 0
  BY FS_EmptySet
<1>7. DumpSummary
  BY <1>3, <1>4, <1>5, <1>6 DEF DumpSummary
<1>8. DumpWhole
  BY <1>3 DEF DumpWhole, Reachable
<1>9. Lang = {}
  BY <1>1, NoRootLang
<1>10. RestRegistered
  BY <1>1 DEF RestRegistered
<1> QED
  BY <1>1, <1>2, <1>5, <1>7, <1>8, <1>9, <1>10 DEF Persistent, Summary

-----------------------------------------------------------------------------
(***************************************************************************)
(* What a client sees                                                      *)
(***************************************************************************)

(***************************************************************************)
(* A step of the set of words is one of the stored set.                    *)
(***************************************************************************)
LEMMA ClientIsStored ==
  ASSUME Client!Next
  PROVE  StoredClient!Next
BY DEF Client!Next, Client!Operate, Client!Add, Client!RejectLess, Client!RejectFrozen, Client!Close,
       Client!CloseNothing, Client!Clear, Client!LessEq, Client!Less, Client!AgreeBelow,
       StoredClient!Next, StoredClient!Operate, StoredClient!Add, StoredClient!RejectLess,
       StoredClient!RejectFrozen, StoredClient!Close, StoredClient!CloseNothing,
       StoredClient!Clear, StoredClient!LessEq, StoredClient!Less,
       StoredClient!AgreeBelow

LEMMA HeldIsClient ==
  ASSUME Held, Summary, HeldCall
  PROVE  StoredClient!Next \/ UNCHANGED <<Lang, state, prev_word, ret>>
<1>1. Lang' = Lang
  BY HeldKept, SameGraphLang
<1>2. ASSUME NEW w \in Word, RejectLess(w)
      PROVE  StoredClient!Next
  <2>1. w \in Seq(Nat) /\ prev_word \in Seq(Nat)
    BY WordAssumption, LettersAreNaturals DEF Held, TypeOK
  <2>2. StringCmp(prev_word, w) > 0 /\ ~(StringCmp(prev_word, w) <= 0)
    BY <1>2 DEF RejectLess, StringCmp
  <2>3. Less(w, prev_word)
    BY <2>1, <2>2, StringCmpOrder, OrderIsTotal
  <2>4. StoredClient!RejectLess(w)
    BY <1>1, <1>2, <2>3
    DEF RejectLess, Return, DAWG_WORD_LESS, summary, StoredClient!RejectLess,
        StoredClient!Less, Less, StoredClient!AgreeBelow, AgreeBelow
  <2> QED
    BY <2>4 DEF StoredClient!Next, StoredClient!Operate
<1>3. ASSUME NEW w \in Word, RejectFrozen(w)
      PROVE  StoredClient!Next
  <2>1. StoredClient!RejectFrozen
    BY <1>1, <1>3 DEF RejectFrozen, Return, DAWG_FROZEN, summary, StoredClient!RejectFrozen
  <2> QED
    BY <2>1 DEF StoredClient!Next, StoredClient!Operate
<1>4. ~CloseNothing
  BY DEF CloseNothing, Held
<1>5. CASE Close
  BY <1>1, <1>5 DEF Close, summary
<1>6. CASE EndClose
  <2>1. StoredClient!Close
    BY <1>1, <1>6 DEF EndClose, Return, NoPrevious, Held, StoredClient!Close
  <2> QED
    BY <2>1 DEF StoredClient!Next, StoredClient!Operate
<1>7. CASE UNCHANGED vars
  BY <1>1, <1>7 DEF vars, summary
<1> QED
  BY <1>2, <1>3, <1>4, <1>5, <1>6, <1>7 DEF HeldCall

LEMMA PersistStepIsClient ==
  ASSUME ~AddsAfterRestore, Persistent, [PersistNext]_persistVars
  PROVE  [StoredClient!StoredNext]_(<<<<Lang, state, prev_word, ret>>,
                                      <<SavedLang, dump.state>>>>)
<1> DEFINE observed == <<Lang, state, prev_word, ret>>
           file == <<SavedLang, dump.state>>
<1>1. dump' = dump => UNCHANGED file
  BY DEF SavedLang
<1>2. CASE Save
  <2>1. UNCHANGED observed
    <3>1. UNCHANGED vars
      BY <1>2 DEF Save
    <3> QED
      BY <3>1, <1>2, SaveKeeps DEF vars, summary
  <2>2. StoredClient!Save
    BY <2>1, <1>2, SaveKeeps DEF StoredClient!Save, StoredClient!vars
  <2> QED
    BY <2>2 DEF StoredClient!StoredNext
<1>3. CASE Load
  <2>1. Lang' = SavedLang /\ dump' = dump
    BY <1>3, LoadKeeps
  <2>2. state' = dump.state /\ prev_word' = <<>> /\ ret' = 0
    BY <1>3 DEF Load, Return, NoPrevious
  <2>3. StoredClient!Load
    BY <1>1, <2>1, <2>2 DEF StoredClient!Load, StoredClient!stored
  <2> QED
    BY <2>3 DEF StoredClient!StoredNext
<1>4. ASSUME dump' = dump, StoredClient!Next \/ UNCHANGED observed
      PROVE  [StoredClient!StoredNext]_(<<observed, file>>)
  BY <1>1, <1>4 DEF StoredClient!StoredNext, StoredClient!stored
<1>5. CASE restored
  <2>1. Held /\ Summary
    BY <1>5 DEF Persistent
  <2>2. ASSUME HeldCall, UNCHANGED persistent
        PROVE  [StoredClient!StoredNext]_(<<observed, file>>)
    <3>1. dump' = dump
      BY <2>2 DEF persistent
    <3>2. StoredClient!Next \/ UNCHANGED observed
      BY <2>1, <2>2, HeldIsClient
    <3> QED
      BY <3>1, <3>2, <1>4
  <2>3. ASSUME Clear, UNCHANGED dump
        PROVE  [StoredClient!StoredNext]_(<<observed, file>>)
    <3>1. StoredClient!Clear
      BY <2>3, NoRootLang DEF Clear, Return, NoPrevious, StoredClient!Clear
    <3>2. StoredClient!Next
      BY <3>1 DEF StoredClient!Next
    <3> QED
      BY <3>2, <2>3, <1>4
  <2>4. \/ HeldCall /\ UNCHANGED persistent
        \/ Clear /\ restored' = FALSE /\ UNCHANGED dump
        \/ Save \/ Load
    BY <1>5, HeldSteps, Zenon
  <2> QED
    BY <1>2, <1>3, <2>2, <2>3, <2>4, Zenon
<1>6. CASE ~restored
  <2>1. Consistent /\ InOrder
    BY <1>6 DEF Persistent
  <2>2. ASSUME [Next]_vars, UNCHANGED dump
        PROVE  [StoredClient!StoredNext]_(<<observed, file>>)
    <3>1. [Client!Next]_observed
      BY <2>1, <2>2, StepIsClient, Zenon
    <3>2. StoredClient!Next \/ UNCHANGED observed
      BY <3>1, ClientIsStored
    <3> QED
      BY <2>2, <3>2, <1>4
  <2>3. \/ [Next]_vars /\ restored' = FALSE /\ UNCHANGED dump
        \/ Save \/ Load
    BY <1>6, BuildSteps, Zenon
  <2> QED
    BY <1>2, <1>3, <2>2, <2>3, Zenon
<1> QED
  BY <1>5, <1>6

-----------------------------------------------------------------------------
(***************************************************************************)
(* The theorems                                                            *)
(***************************************************************************)

LEMMA AlwaysPersistent ==
  ASSUME ~AddsAfterRestore
  PROVE  PersistSpec => []Persistent
<1>1. PersistInit => Persistent
  BY InitPersistent
<1>2. Persistent /\ [PersistNext]_persistVars => Persistent'
  BY NextPersistent
<1> QED
  BY <1>1, <1>2, PTL DEF PersistSpec

(***************************************************************************)
(* Unless a dump that was saved while ACTIVE is held, everything the       *)
(* construction relies on is there, however often DAWG_load replaced the   *)
(* graph: a CLOSED or EMPTY dump leaves the object as a close or a clear.  *)
(***************************************************************************)
THEOREM ConsistentAfterLoad ==
  ASSUME ~AddsAfterRestore
  PROVE  PersistSpec => []ConsistentUnlessRestored
<1>1. Persistent => ConsistentUnlessRestored
  BY DEF Persistent, ConsistentUnlessRestored
<1> QED
  BY <1>1, AlwaysPersistent, PTL

(***************************************************************************)
(* The header DAWG_load reads agrees with the graph it builds: count is    *)
(* the number of words, and no path is longer than longest_word.           *)
(***************************************************************************)
THEOREM SummaryExactAfterLoad ==
  ASSUME ~AddsAfterRestore
  PROVE  PersistSpec => []SummaryExact
<1>1. Persistent => SummaryExact
  <2> SUFFICES ASSUME Persistent, pc = "idle"
               PROVE  /\ count = Cardinality(Lang)
                      /\ \A w \in Universe :
                           Target(next, q0, w) # NULL => Len(w) <= longest_word
                      /\ Lang # {} => \E w \in Lang : Len(w) = longest_word
    BY Zenon DEF SummaryExact
  <2>1. PathsShort /\ LongestIsWord /\ CountIsExact
    BY DEF Persistent, Summary
  <2>2. \A w \in Universe : w \in Seq(Letter)
    BY UniverseAssumption
  <2> QED
    BY <2>1, <2>2 DEF PathsShort, LongestIsWord, CountIsExact
<1> QED
  BY <1>1, AlwaysPersistent, PTL

(***************************************************************************)
(* What DAWG_load installs is the set of words DAWG_save wrote, in the     *)
(* state it had, and the set goes on from there as any other.              *)
(***************************************************************************)
THEOREM StoredSetImplemented ==
  ASSUME ~AddsAfterRestore
  PROVE  PersistSpec => ImplementsStoredSet
<1>1. Persistent /\ [PersistNext]_persistVars
        => [StoredClient!StoredNext]_(<<<<Lang, state, prev_word, ret>>,
                                        <<SavedLang, dump.state>>>>)
  BY PersistStepIsClient
<1>2. PersistInit => StoredClient!StoredInit
  <2> SUFFICES ASSUME PersistInit PROVE StoredClient!StoredInit
    OBVIOUS
  <2>1. Lang = {} /\ SavedLang = {}
    BY InitPersistent
  <2>2. state = "EMPTY" /\ prev_word = <<>> /\ ret = 0 /\ dump.state = "EMPTY"
    BY DEF PersistInit, Init, Image
  <2> QED
    BY <2>1, <2>2 DEF StoredClient!StoredInit, StoredClient!Init
<1> QED
  BY <1>1, <1>2, AlwaysPersistent, PTL
  DEF PersistSpec, ImplementsStoredSet, StoredClient!StoredSpec, StoredClient!vars,
      StoredClient!stored

-----------------------------------------------------------------------------
(***************************************************************************)
(* No dead ends after a load                                               *)
(***************************************************************************)

(***************************************************************************)
(* What is read from the root goes on to a word, and only added words are. *)
(* Both survive a load because the copies are read as the dump is.         *)
(***************************************************************************)
GoesOn(g, e, root) ==
  \A v \in Seq(Letter) :
    Target(g, root, v) # NULL => \E u \in Seq(Letter) : Accepts(g, e, root, Follow(v, u))

OnlyWords(g, e, root) == \A w \in Seq(Letter) : Accepts(g, e, root, w) => w \in Word

DumpAlive ==
  GoesOn(dump.next, dump.eow, dump.root) /\ OnlyWords(dump.next, dump.eow, dump.root)

(***************************************************************************)
(* A loaded graph nothing can be added to.                                 *)
(***************************************************************************)
Unextended ==
  /\ restored \/ state = "CLOSED"
  /\ GoesOn(next, eow, q0) /\ OnlyWords(next, eow, q0)

Alive == DumpAlive /\ ((~restored /\ Ready) \/ Unextended)

(***************************************************************************)
(* Between calls, what was built is as alive as what was loaded.           *)
(***************************************************************************)
LEMMA AliveBetweenCalls ==
  ASSUME Alive, pc = "idle"
  PROVE  GoesOn(next, eow, q0) /\ OnlyWords(next, eow, q0)
<1> SUFFICES ASSUME Ready PROVE GoesOn(next, eow, q0) /\ OnlyWords(next, eow, q0)
  BY DEF Alive, Unextended
<1>1. Consistent /\ WordsAdded
  BY DEF Ready, Summarized
<1>2. ASSUME NEW v \in Seq(Letter), Target(next, q0, v) # NULL
      PROVE  \E u \in Seq(Letter) : Accepts(next, eow, q0, Follow(v, u))
  <2>1. Target(next, q0, v) \in live \cup {NULL}
    <3>1. Len(v) \in 0..Len(v)
      BY LenProperties
    <3> QED
      BY <3>1, <1>1, GraphClosed, RunWithin DEF Target
  <2>2. Lives(next, eow, Target(next, q0, v))
    BY <2>1, <1>2, NodesLive
  <2> QED
    BY <2>2, AcceptsInPieces DEF Lives
<1> QED
  BY <1>1, <1>2 DEF GoesOn, OnlyWords, WordsAdded

(***************************************************************************)
(* A word below every path is a word below every node.                     *)
(***************************************************************************)
LEMMA AliveNodes ==
  ASSUME Persistent, Alive
  PROVE  GraphOfWords
<1> SUFFICES ASSUME pc = "idle" PROVE Readable
  BY ReadableIsGraph
<1>1. TypeOK /\ NoDangling /\ NoLeak
  BY WholeGraph
<1>2. GoesOn(next, eow, q0) /\ WordsAdded
  BY AliveBetweenCalls DEF OnlyWords, WordsAdded
<1>3. ASSUME NEW n \in live PROVE Lives(next, eow, n)
  <2>1. n # NULL
    BY <1>1, NullAssumption DEF TypeOK
  <2>2. PICK v \in Seq(Letter) : Target(next, q0, v) = n
    BY <1>1, NodeReached
  <2>3. PICK u \in Seq(Letter) : Accepts(next, eow, q0, Follow(v, u))
    BY <2>1, <2>2, <1>2 DEF GoesOn
  <2>4. Accepts(next, eow, n, u)
    BY <2>2, <2>3, AcceptsInPieces
  <2> QED
    BY <2>4 DEF Lives
<1> QED
  BY <1>1, <1>2, <1>3 DEF Readable, AllLive

LEMMA SaveKeepsAlive ==
  ASSUME Persistent, Alive, Save
  PROVE  Alive'
<1>1. pc = "idle" /\ dump' = Image /\ UNCHANGED vars /\ restored' = restored
  BY DEF Save
<1>2. NoDangling /\ NoLeak /\ NULL \notin live
  BY <1>1, WholeGraph, NullAssumption DEF TypeOK
<1>3. GoesOn(next, eow, q0) /\ OnlyWords(next, eow, q0)
  BY <1>1, AliveBetweenCalls
<1>4. OnlyWords(dump'.next, dump'.eow, dump'.root)
  BY <1>1, <1>2, <1>3, SavedRuns DEF OnlyWords
<1>5. ASSUME NEW v \in Seq(Letter), Target(dump'.next, dump'.root, v) # NULL
      PROVE  \E u \in Seq(Letter) : Accepts(dump'.next, dump'.eow, dump'.root, Follow(v, u))
  <2>1. Target(next, q0, v) # NULL
    BY <1>1, <1>2, <1>5, SavedRuns
  <2>2. PICK u \in Seq(Letter) : Accepts(next, eow, q0, Follow(v, u))
    BY <2>1, <1>3 DEF GoesOn
  <2>3. Follow(v, u) \in Seq(Letter)
    BY Pieces DEF IsJoined
  <2> QED
    BY <2>2, <2>3, <1>1, <1>2, SavedRuns
<1>6. DumpAlive'
  BY <1>4, <1>5 DEF DumpAlive, GoesOn
<1>7. CASE ~restored /\ Ready
  BY <1>1, <1>6, <1>7, NextReady DEF Alive
<1>8. CASE Unextended
  <2>1. UNCHANGED <<q0, next, eow, state>>
    BY <1>1 DEF vars, graph, summary
  <2> QED
    BY <2>1, <1>1, <1>6, <1>8 DEF Alive, Unextended
<1> QED
  BY <1>7, <1>8 DEF Alive

LEMMA LoadKeepsAlive ==
  ASSUME Persistent, Alive, Load
  PROVE  Alive'
<1>1. PICK copy : Loaded(copy)
  BY DEF Load, Loaded
<1>2. /\ pc = "idle" /\ state' = dump.state /\ dump' = dump
      /\ restored' = (dump.state = "ACTIVE")
  BY DEF Load
<1>3. DumpAlive /\ DumpAlive'
  BY <1>2 DEF Alive, DumpAlive
<1>4. \A w \in Seq(Letter) :
        /\ Target(next', q0', w) = NULL <=> Target(dump.next, dump.root, w) = NULL
        /\ Accepts(next', eow', q0', w) <=> Accepts(dump.next, dump.eow, dump.root, w)
  BY <1>1, <1>2, LoadedRuns
<1>5. OnlyWords(next', eow', q0')
  BY <1>3, <1>4 DEF DumpAlive, OnlyWords
<1>6. GoesOn(next', eow', q0')
  <2> SUFFICES ASSUME NEW v \in Seq(Letter), Target(next', q0', v) # NULL
               PROVE  \E u \in Seq(Letter) : Accepts(next', eow', q0', Follow(v, u))
    BY DEF GoesOn
  <2>1. PICK u \in Seq(Letter) : Accepts(dump.next, dump.eow, dump.root, Follow(v, u))
    BY <1>3, <1>4 DEF DumpAlive, GoesOn
  <2>2. Follow(v, u) \in Seq(Letter)
    BY Pieces DEF IsJoined
  <2> QED
    BY <2>1, <2>2, <1>4
<1>7. CASE dump.state # "EMPTY"
  <2>1. restored' \/ state' = "CLOSED"
    BY <1>2, <1>7 DEF Persistent, DumpWhole
  <2> QED
    BY <2>1, <1>3, <1>5, <1>6 DEF Alive, Unextended
<1>8. CASE dump.state = "EMPTY"
  <2>1. /\ ~restored' /\ state' = "EMPTY" /\ prev_word' = <<>>
        /\ Persistent'
    BY <1>2, <1>8, LoadKeeps DEF Load, NoPrevious
  <2>2. Summarized'
    BY <2>1 DEF Persistent, Summary, Summarized
  <2>3. q0' = NULL
    BY <1>1, <1>2, <1>8, LoadWhole DEF Persistent, DumpWhole
  <2>4. live' = {}
    BY <2>2, <2>3 DEF Summarized, Consistent, ObjectState
  <2>5. Finished'
    BY <2>1, <2>3, <2>4 DEF Finished, EmptyPrev, FinishedLive, EndLives, ClosedDiffer
  <2>6. WordsAdded'
    BY <1>5 DEF OnlyWords, WordsAdded
  <2> QED
    BY <2>1, <2>2, <2>5, <2>6, <1>3 DEF Alive, Ready, Persistent
<1> QED
  BY <1>7, <1>8

(***************************************************************************)
(* After a load nothing changes the graph but a clear.                     *)
(***************************************************************************)
LEMMA ClosedSteps ==
  ASSUME Consistent, state = "CLOSED", [Next]_vars
  PROVE  HeldCall \/ Clear
<1>1. /\ prev_word = <<>>
      /\ pc = "idle" \/ (pc = "minimize" /\ caller = "close")
  BY DEF Consistent, ObjectState
<1>2. pc = "minimize" => stack = <<>>
  <2> SUFFICES ASSUME pc = "minimize" PROVE stack = <<>>
    OBVIOUS
  <2>1. i + Len(stack) <= 0 /\ i \in Nat
    BY <1>1 DEF Consistent, CallState, TypeOK
  <2>2. stack \in Seq([parent : Node, label : Letter, child : Node])
    BY DEF Consistent, TypeOK
  <2>3. Len(stack) = 0
    BY <2>1, <2>2, LenProperties
  <2> QED
    BY <2>2, <2>3, EmptySeq
<1>3. CASE Call
  BY <1>3 DEF Call, AddWord, HeldCall
<1>4. CASE Step
  <2>1. EndClose
    BY <1>1, <1>2, <1>4 DEF Step, SkipPrefix, EndOfPrefix, Replace, Register, Minimized,
                           AddSuffix, EndAdd
  <2> QED
    BY <2>1 DEF HeldCall
<1> QED
  BY <1>3, <1>4 DEF Next, HeldCall

LEMMA InitAlive ==
  ASSUME PersistInit
  PROVE  Alive
<1>1. Ready /\ restored = FALSE /\ dump.root = NULL
  BY InitReady DEF PersistInit, Init, Image
<1>2. DumpAlive
  BY <1>1, NoRootNoWord DEF DumpAlive, GoesOn, OnlyWords
<1> QED
  BY <1>1, <1>2 DEF Alive

LEMMA NextAlive ==
  ASSUME ~AddsAfterRestore, Persistent, Persistent', Alive, [PersistNext]_persistVars
  PROVE  Alive'
<1>1. CASE Save
  BY <1>1, SaveKeepsAlive
<1>2. CASE Load
  BY <1>2, LoadKeepsAlive
<1>3. dump' = dump => DumpAlive'
  BY DEF Alive, DumpAlive
<1>4. ASSUME HeldCall, Unextended, UNCHANGED dump, restored' = restored
      PROVE  Alive'
  <2>1. /\ UNCHANGED graph
        /\ state' = state \/ state' = "CLOSED"
    BY <1>4 DEF HeldCall, RejectLess, RejectFrozen, CloseNothing, Close, EndClose, vars,
                summary
  <2>2. UNCHANGED <<q0, next, eow>>
    BY <2>1 DEF graph
  <2> QED
    BY <2>1, <2>2, <1>3, <1>4 DEF Alive, Unextended
<1>5. ASSUME Clear, UNCHANGED dump, restored' = FALSE
      PROVE  Alive'
  <2>1. Summarized'
    BY <1>5 DEF Persistent, Summary, Summarized
  <2>2. q0' = NULL /\ state' = "EMPTY" /\ prev_word' = <<>>
    BY <1>5 DEF Clear, NoPrevious
  <2>3. live' = {}
    BY <2>1, <2>2 DEF Summarized, Consistent, ObjectState
  <2>4. Finished'
    BY <2>2, <2>3 DEF Finished, EmptyPrev, FinishedLive, EndLives, ClosedDiffer
  <2>5. WordsAdded'
    BY <2>2, NoRootNoWord DEF WordsAdded
  <2> QED
    BY <2>1, <2>4, <2>5, <1>3, <1>5 DEF Alive, Ready, Persistent
<1>6. CASE restored
  <2>1. \/ HeldCall /\ UNCHANGED persistent
        \/ Clear /\ restored' = FALSE /\ UNCHANGED dump
        \/ Save \/ Load
    BY <1>6, HeldSteps, Zenon
  <2>2. Unextended
    BY <1>6 DEF Alive
  <2>3. UNCHANGED persistent => UNCHANGED dump /\ restored' = restored
    BY DEF persistent
  <2> QED
    BY <1>1, <1>2, <1>4, <1>5, <2>1, <2>2, <2>3, Zenon
<1>7. CASE ~restored
  <2>1. \/ [Next]_vars /\ restored' = FALSE /\ UNCHANGED dump
        \/ Save \/ Load
    BY <1>7, BuildSteps, Zenon
  <2>2. ASSUME Ready, [Next]_vars, restored' = FALSE, UNCHANGED dump
        PROVE  Alive'
    <3>1. Ready'
      BY <2>2, NextReady, Zenon
    <3> QED
      BY <3>1, <2>2, <1>3 DEF Alive
  <2>3. ASSUME Unextended, [Next]_vars, restored' = FALSE, UNCHANGED dump
        PROVE  Alive'
    <3>1. Consistent /\ state = "CLOSED"
      BY <2>3, <1>7 DEF Persistent, Unextended
    <3>2. HeldCall \/ Clear
      BY <3>1, <2>3, ClosedSteps, Zenon
    <3>3. restored' = restored
      BY <2>3, <1>7 DEF Persistent
    <3> QED
      BY <3>2, <3>3, <2>3, <1>4, <1>5, Zenon
  <2>4. Ready \/ Unextended
    BY DEF Alive
  <2> QED
    BY <1>1, <1>2, <2>1, <2>2, <2>3, <2>4, Zenon
<1> QED
  BY <1>6, <1>7

(***************************************************************************)
(* A load leaves a graph in which nothing dangles, nothing leaks and which *)
(* is read as its words are, whichever DAWG was saved: also one that was   *)
(* saved while ACTIVE, or closed after it was restored from such a dump.   *)
(***************************************************************************)
THEOREM WholeAfterLoad ==
  ASSUME ~AddsAfterRestore
  PROVE  PersistSpec => []LoadedWhole
<1>1. PersistInit => Persistent /\ Alive
  BY InitPersistent, InitAlive
<1>2. Persistent /\ Alive /\ [PersistNext]_persistVars => (Persistent /\ Alive)'
  BY NextPersistent, NextAlive
<1>3. Persistent /\ Alive => LoadedWhole
  BY AliveNodes DEF LoadedWhole, Persistent, Held, Consistent
<1> QED
  BY <1>1, <1>2, <1>3, PTL DEF PersistSpec

-----------------------------------------------------------------------------
(***************************************************************************)
(* The invariant of the versions                                           *)
(***************************************************************************)

(***************************************************************************)
(* The call under way will advance the version before it returns: it is a  *)
(* close, or it adds a word the DAWG does not have.  Until then the graph  *)
(* may be another one than the version stands for.                         *)
(***************************************************************************)
Pending == pc = "minimize" \/ (pc \in {"skip", "suffix"} /\ word \notin Lang)

GraphEdges == {e \in live \X Letter : next[e[1]][e[2]] # NULL}

StatsKept ==
  /\ version \in Int /\ stats_version \in Int /\ stats_version <= version
  /\ stats_version = version /\ ~Pending =>
       /\ stats.nodes_count = Cardinality(live)
       /\ stats.edges_count = Cardinality(GraphEdges)
       /\ stats.words_count = count

IteratorRecord ==
  [version : Int, stack : Seq(Node \cup {NULL}), words : SUBSET Universe, used : BOOLEAN]

IteratorsKept ==
  /\ iter \in [Iterator -> IteratorRecord]
  /\ \A it \in Iterator : iter[it].used => iter[it].version <= version
  /\ \A it \in Iterator :
       iter[it].used /\ iter[it].version = version /\ ~Pending =>
         /\ \A k \in 1..Len(iter[it].stack) : iter[it].stack[k] \in live \cup {NULL}
         /\ iter[it].words = Lang

-----------------------------------------------------------------------------
(***************************************************************************)
(* What a call does to the graph and to the version                        *)
(***************************************************************************)

SameGraphSeen == UNCHANGED <<live, next, eow, count, Lang>>

(***************************************************************************)
(* A step of the construction either advances the version, or goes on with *)
(* a call that will, or leaves what is seen of the graph alone.            *)
(***************************************************************************)
VersionStep ==
  \/ version' = version + 1
  \/ version' = version /\ Pending'
  \/ version' = version /\ ~Pending /\ SameGraphSeen

LEMMA ClassIsPersist ==
  ASSUME [ClassNext]_classVars
  PROVE  [PersistNext]_persistVars
<1>1. Method => PersistCall /\ UNCHANGED dump
  BY DEF Method, PersistCall
<1>2. Progress => Step /\ UNCHANGED persistent
  BY DEF Progress, Step
<1>3. Bindump => Save
  BY DEF Bindump
<1>4. Binload => Load
  BY DEF Binload
<1>5. GetStats \/ Renumber => UNCHANGED persistVars
  BY DEF GetStats, Renumber
<1>6. ASSUME NEW it \in Iterator, NewIterator(it) \/ Advance(it) \/ Drop(it)
      PROVE  UNCHANGED persistVars
  BY <1>6 DEF NewIterator, Advance, Drop
<1>7. UNCHANGED classVars => UNCHANGED persistVars
  BY DEF classVars
<1>8. ClassNext \/ UNCHANGED classVars
  OBVIOUS
<1> QED
  BY <1>1, <1>2, <1>3, <1>4, <1>5, <1>6, <1>7, <1>8, Zenon DEF ClassNext, PersistNext

LEMMA SuffixStaysNew ==
  (Consistent /\ pc = "suffix" /\ i < Len(word) => word \notin Lang)'
BY SuffixIsNew, PTL

(***************************************************************************)
(* The steps of the construction                                           *)
(***************************************************************************)
LEMMA BuildVersion ==
  ASSUME Consistent, InOrder, Consistent',
         \/ \E w \in Word : AddWord(w) \/ RejectLess(w) \/ RejectFrozen(w)
         \/ Close \/ SkipPrefix \/ EndOfPrefix \/ Replace \/ Register \/ Minimized
         \/ AddSuffix
  PROVE  Pending' \/ (~Pending /\ SameGraphSeen)
<1>1. ASSUME NEW w \in Word, RejectLess(w) \/ RejectFrozen(w)
      PROVE  ~Pending /\ SameGraphSeen
  <2>1. pc = "idle" /\ UNCHANGED <<graph, summary>>
    BY <1>1 DEF RejectLess, RejectFrozen
  <2>2. Lang' = Lang
    BY <2>1, SameGraphLang DEF graph
  <2> QED
    BY <2>1, <2>2 DEF Pending, SameGraphSeen, graph, summary
<1>2. ASSUME NEW w \in Word, AddWord(w)
      PROVE  Pending' \/ (~Pending /\ SameGraphSeen)
  <2>1. /\ pc = "idle" /\ pc' = "skip" /\ word' = w /\ count' = count
        /\ q0 # NULL => UNCHANGED <<live, next, eow>>
    BY <1>2 DEF AddWord, graph, summary
  <2>2. Unseen
    BY <1>2 DEF Unseen
  <2>3. Lang' = Lang
    BY <2>2, UnseenLang
  <2>4. q0 = NULL => Lang = {}
    BY NoRootLang
  <2> QED
    BY <2>1, <2>3, <2>4 DEF Pending, SameGraphSeen
<1>3. ASSUME Close \/ Replace \/ Register
      PROVE  Pending'
  BY <1>3 DEF Close, Replace, Register, Pending
<1>4. ASSUME SkipPrefix \/ EndOfPrefix
      PROVE  Pending' \/ (~Pending /\ SameGraphSeen)
  <2>1. /\ pc = "skip" /\ pc' \in {"skip", "minimize", "suffix"}
        /\ UNCHANGED <<graph, summary, word>>
    BY <1>4 DEF SkipPrefix, EndOfPrefix
  <2>2. Lang' = Lang
    BY <2>1, SameGraphLang DEF graph
  <2> QED
    BY <2>1, <2>2 DEF Pending, SameGraphSeen, graph, summary
<1>5. ASSUME Minimized
      PROVE  Pending'
  <2>1. /\ pc = "minimize" /\ caller = "add" /\ pc' = "suffix"
        /\ UNCHANGED <<word, i>>
    BY <1>5 DEF Minimized
  <2>2. i < Len(word)
    BY <2>1 DEF Consistent, CallState
  <2>3. word' \notin Lang'
    BY <2>1, <2>2, SuffixStaysNew
  <2> QED
    BY <2>1, <2>3 DEF Pending
<1>6. ASSUME AddSuffix
      PROVE  Pending'
  <2>1. pc = "suffix" /\ i < Len(word) /\ pc' = "suffix" /\ word' = word
    BY <1>6 DEF AddSuffix
  <2>2. Unseen
    BY <1>6 DEF Unseen
  <2>3. Lang' = Lang
    BY <2>2, UnseenLang
  <2>4. word \notin Lang
    BY <2>1, SuffixIsNew
  <2> QED
    BY <2>1, <2>3, <2>4 DEF Pending
<1> QED
  BY <1>1, <1>2, <1>3, <1>4, <1>5, <1>6, Zenon

LEMMA EndAddVersion ==
  ASSUME Consistent, InOrder, EndAdd, version \in Int, version' = VersionAfterAdd(ret')
  PROVE  VersionStep
<1>1. /\ pc = "suffix" /\ UNCHANGED <<live, next>> /\ count' = Counted
      /\ ret' = IF eow[cur] THEN 0 ELSE 1
  BY DEF EndAdd, Return
<1>2. /\ Lang' = Lang \cup {word} /\ (eow[cur] <=> word \in Lang)
  BY EndAddIsAdded, MarkedLang DEF Added
<1>3. CASE word \in Lang
  <2>1. eow' = eow
    <3>1. eow' = [eow EXCEPT ![cur] = TRUE]
      BY DEF EndAdd, Marked
    <3>2. eow \in [Node -> BOOLEAN]
      BY DEF Consistent, TypeOK
    <3>3. eow[cur] = TRUE
      BY <1>2, <1>3
    <3> QED
      BY <3>1, <3>2, <3>3
  <2> QED
    BY <1>1, <1>2, <1>3, <2>1 DEF VersionStep, VersionAfterAdd, Pending, SameGraphSeen, Counted
<1>4. CASE word \notin Lang
  BY <1>1, <1>2, <1>4 DEF VersionStep, VersionAfterAdd
<1> QED
  BY <1>3, <1>4

(***************************************************************************)
(* A call, restored or not.                                                *)
(***************************************************************************)
LEMMA MethodVersion ==
  ASSUME ~AddsAfterRestore, Persistent, Persistent', version \in Int, Method
  PROVE  VersionStep
<1>1. ASSUME NEW w \in Word, RejectLess(w) \/ RejectFrozen(w)
      PROVE  ~Pending /\ SameGraphSeen
  <2>1. pc = "idle" /\ UNCHANGED <<graph, summary>>
    BY <1>1 DEF RejectLess, RejectFrozen
  <2>2. Lang' = Lang
    BY <2>1, SameGraphLang DEF graph
  <2> QED
    BY <2>1, <2>2 DEF Pending, SameGraphSeen, graph, summary
<1>2. ASSUME NEW w \in Word, MayAdd(w), AddWord(w), restored' = restored
      PROVE  Pending' \/ (~Pending /\ SameGraphSeen)
  <2>1. Consistent /\ InOrder /\ Consistent'
    BY <1>2 DEF MayAdd, Persistent
  <2> QED
    BY <2>1, <1>2, BuildVersion
<1>3. ASSUME Close
      PROVE  Pending'
  BY <1>3 DEF Close, Pending
<1>4. \/ \E w \in Word : MayAdd(w) /\ AddWord(w) /\ UNCHANGED <<version, restored>>
      \/ \E w \in Word : (RejectLess(w) \/ RejectFrozen(w)) /\ UNCHANGED version
      \/ Close /\ UNCHANGED version
      \/ version' = version + 1
  BY DEF Method, VersionAfterClose, VersionAfterClear
<1> QED
  BY <1>1, <1>2, <1>3, <1>4, Zenon DEF VersionStep

LEMMA ProgressVersion ==
  ASSUME ~AddsAfterRestore, Persistent, Persistent', version \in Int, Progress
  PROVE  VersionStep
<1>1. restored' = restored
  BY DEF Progress, persistent
<1>2. CASE EndClose /\ version' = VersionAfterClose
  BY <1>2 DEF VersionStep, VersionAfterClose
<1>3. ASSUME restored PROVE EndClose
  <2>1. pc = "idle" \/ (pc = "minimize" /\ caller = "close" /\ stack = <<>>)
    BY <1>3 DEF Persistent, Held
  <2> QED
    BY <2>1 DEF Progress, SkipPrefix, EndOfPrefix, Replace, Register, Minimized,
                AddSuffix, EndAdd
<1>4. ASSUME ~restored
      PROVE  Consistent /\ InOrder /\ Consistent'
  BY <1>1, <1>4 DEF Persistent
<1>5. ASSUME ~restored, EndAdd, version' = VersionAfterAdd(ret')
      PROVE  VersionStep
  BY <1>4, <1>5, EndAddVersion
<1>6. ASSUME ~restored, UNCHANGED version,
             SkipPrefix \/ EndOfPrefix \/ Replace \/ Register \/ Minimized \/ AddSuffix
      PROVE  VersionStep
  <2>1. Pending' \/ (~Pending /\ SameGraphSeen)
    BY <1>4, <1>6, BuildVersion
  <2> QED
    BY <2>1, <1>6 DEF VersionStep
<1>7. \/ /\ SkipPrefix \/ EndOfPrefix \/ Replace \/ Register \/ Minimized \/ AddSuffix
         /\ UNCHANGED version
      \/ EndAdd /\ version' = VersionAfterAdd(ret')
      \/ EndClose /\ version' = VersionAfterClose
  BY DEF Progress
<1>8. ASSUME EndClose PROVE ~(SkipPrefix \/ EndOfPrefix \/ Replace \/ Register
                               \/ Minimized \/ AddSuffix) /\ ~EndAdd
  BY <1>8 DEF EndClose, SkipPrefix, EndOfPrefix, Replace, Register, Minimized,
              AddSuffix, EndAdd
<1> QED
  BY <1>2, <1>3, <1>5, <1>6, <1>7, <1>8, Zenon

-----------------------------------------------------------------------------
(***************************************************************************)
(* The statistics                                                          *)
(***************************************************************************)

(***************************************************************************)
(* DAWG_get_stats visits all there is.                                     *)
(***************************************************************************)
LEMMA StatisticsExact ==
  ASSUME Persistent, pc = "idle"
  PROVE  /\ Statistics.nodes_count = Cardinality(live)
         /\ Statistics.edges_count = Cardinality(GraphEdges)
         /\ Statistics.words_count = count
<1>1. Reachable(next, q0, live) = live
  BY WholeGraph DEF NoLeak
<1>2. Edges = GraphEdges
  BY <1>1 DEF Edges, GraphEdges
<1> QED
  BY <1>1, <1>2 DEF Statistics

LEMMA UpdateKeepsStats ==
  ASSUME Persistent, StatsKept, pc = "idle", UpdateStats,
         UNCHANGED <<version, vars>>
  PROVE  StatsKept'
<1>1. UNCHANGED <<live, next, count, pc>>
  BY DEF vars, graph, summary, locals
<1>2. ~Pending
  BY DEF Pending
<1>3. GraphEdges' = GraphEdges
  BY <1>1 DEF GraphEdges
<1>4. /\ stats'.nodes_count = Cardinality(live)
      /\ stats'.edges_count = Cardinality(GraphEdges)
      /\ stats'.words_count = count
  BY <1>2, StatisticsExact DEF UpdateStats, StatsKept
<1> QED
  BY <1>1, <1>3, <1>4 DEF StatsKept, UpdateStats

LEMMA VersionStepKeepsStats ==
  ASSUME StatsKept, VersionStep, UNCHANGED <<stats_version, stats>>
  PROVE  StatsKept'
<1>1. SameGraphSeen => GraphEdges' = GraphEdges
  BY DEF SameGraphSeen, GraphEdges
<1>2. CASE version' = version + 1
  BY <1>2 DEF StatsKept
<1>3. CASE version' = version /\ Pending'
  BY <1>3 DEF StatsKept
<1>4. CASE version' = version /\ ~Pending /\ SameGraphSeen
  BY <1>1, <1>4 DEF StatsKept, SameGraphSeen
<1> QED
  BY <1>2, <1>3, <1>4 DEF VersionStep

LEMMA QuietKeepsStats ==
  ASSUME StatsKept, UNCHANGED <<persistVars, version, stats_version, stats>>
  PROVE  StatsKept'
<1>1. UNCHANGED <<q0, next, eow, live, count, pc, word>>
  BY DEF persistVars, vars, graph, summary, locals
<1>2. Lang' = Lang
  BY <1>1, SameGraphLang
<1>3. Pending' = Pending /\ GraphEdges' = GraphEdges
  BY <1>1, <1>2 DEF Pending, GraphEdges
<1> QED
  BY <1>1, <1>3 DEF StatsKept

LEMMA NextKeepsStats ==
  ASSUME ~AddsAfterRestore, Persistent, Persistent', StatsKept, [ClassNext]_classVars
  PROVE  StatsKept'
<1>v. version \in Int
  BY DEF StatsKept
<1>1. CASE Method
  <2>1. VersionStep
    BY <1>1, <1>v, MethodVersion
  <2>2. UNCHANGED <<stats_version, stats>>
    BY <1>1 DEF Method
  <2> QED
    BY <2>1, <2>2, VersionStepKeepsStats
<1>2. CASE Progress
  <2>1. VersionStep
    BY <1>2, <1>v, ProgressVersion
  <2>2. UNCHANGED <<stats_version, stats>>
    BY <1>2 DEF Progress
  <2> QED
    BY <2>1, <2>2, VersionStepKeepsStats
<1>3. CASE GetStats
  BY <1>3, UpdateKeepsStats DEF GetStats, persistVars
<1>4. CASE Bindump
  <2>1. pc = "idle" /\ UpdateStats /\ UNCHANGED <<version, vars>>
    BY <1>4 DEF Bindump, Save
  <2> QED
    BY <2>1, UpdateKeepsStats
<1>5. CASE Binload
  BY <1>5 DEF Binload, StatsKept
<1>6. ASSUME UNCHANGED <<persistVars, version, stats_version, stats>>
      PROVE  StatsKept'
  BY <1>6, QuietKeepsStats
<1>7. CASE Renumber \/ UNCHANGED classVars
  BY <1>6, <1>7 DEF Renumber, classVars, object, caches
<1>8. ASSUME NEW it \in Iterator, NewIterator(it) \/ Advance(it) \/ Drop(it)
      PROVE  StatsKept'
  BY <1>6, <1>8 DEF NewIterator, Advance, Drop, caches
<1>9. ClassNext \/ UNCHANGED classVars
  OBVIOUS
<1> QED
  BY <1>1, <1>2, <1>3, <1>4, <1>5, <1>7, <1>8, <1>9, Zenon DEF ClassNext

-----------------------------------------------------------------------------
(***************************************************************************)
(* The iterators                                                           *)
(***************************************************************************)

LEMMA VersionStepKeepsIterators ==
  ASSUME IteratorsKept, version \in Int, VersionStep, UNCHANGED iter
  PROVE  IteratorsKept'
<1>1. \A it \in Iterator : iter[it].version \in Int
  BY DEF IteratorsKept, IteratorRecord
<1>2. CASE version' = version + 1
  BY <1>1, <1>2 DEF IteratorsKept
<1>3. CASE version' = version /\ Pending'
  BY <1>3 DEF IteratorsKept
<1>4. CASE version' = version /\ ~Pending /\ SameGraphSeen
  BY <1>4 DEF IteratorsKept, SameGraphSeen
<1> QED
  BY <1>2, <1>3, <1>4 DEF VersionStep

LEMMA QuietKeepsIterators ==
  ASSUME IteratorsKept, UNCHANGED <<vars, version, iter>>
  PROVE  IteratorsKept'
<1>1. UNCHANGED <<q0, next, eow, live, pc, word>>
  BY DEF vars, graph, locals
<1>2. Lang' = Lang
  BY <1>1, SameGraphLang
<1>3. Pending' = Pending
  BY <1>1, <1>2 DEF Pending
<1> QED
  BY <1>1, <1>2, <1>3 DEF IteratorsKept

(***************************************************************************)
(* One iterator is changed between calls.                                  *)
(***************************************************************************)
LEMMA OneIterator ==
  ASSUME IteratorsKept, UNCHANGED <<vars, version>>, pc = "idle", NEW it \in Iterator,
         NEW r \in IteratorRecord, iter' = [iter EXCEPT ![it] = r],
         r.used => /\ r.version <= version
                   /\ \A k \in 1..Len(r.stack) : r.stack[k] \in live \cup {NULL}
                   /\ r.words = Lang
  PROVE  IteratorsKept'
<1>1. UNCHANGED <<q0, next, eow, live, pc, word>>
  BY DEF vars, graph, locals
<1>2. Lang' = Lang
  BY <1>1, SameGraphLang
<1>3. ~Pending
  BY DEF Pending
<1>4. iter' \in [Iterator -> IteratorRecord]
  BY DEF IteratorsKept
<1>5. ASSUME NEW other \in Iterator, iter'[other].used
      PROVE  /\ iter'[other].version <= version
             /\ iter'[other].version = version =>
                  /\ \A k \in 1..Len(iter'[other].stack) :
                       iter'[other].stack[k] \in live \cup {NULL}
                  /\ iter'[other].words = Lang
  <2>1. CASE other = it
    <3>1. iter'[other] = r
      BY <2>1 DEF IteratorsKept
    <3> QED
      BY <3>1, <1>5
  <2>2. CASE other # it
    <3>1. iter'[other] = iter[other]
      BY <2>2 DEF IteratorsKept
    <3> QED
      BY <3>1, <1>3, <1>5 DEF IteratorsKept
  <2> QED
    BY <2>1, <2>2
<1> QED
  BY <1>1, <1>2, <1>4, <1>5 DEF IteratorsKept

LEMMA NewIteratorKeeps ==
  ASSUME Persistent, version \in Int, IteratorsKept, NEW it \in Iterator, NewIterator(it)
  PROVE  IteratorsKept'
<1> DEFINE r == [version |-> version, stack |-> <<q0>>, words |-> Lang, used |-> TRUE]
<1>1. pc = "idle" /\ UNCHANGED <<vars, version>> /\ iter' = [iter EXCEPT ![it] = r]
  BY DEF NewIterator, persistVars
<1>2. q0 \in live \cup {NULL} /\ live \subseteq Node
  BY <1>1, WholeGraph DEF NoDangling, TypeOK
<1>3. r \in IteratorRecord
  BY <1>2 DEF IteratorRecord, Lang
<1>4. /\ r.version <= version /\ r.words = Lang
      /\ \A k \in 1..Len(r.stack) : r.stack[k] \in live \cup {NULL}
  BY <1>2
<1> QED
  BY <1>1, <1>3, <1>4, OneIterator

LEMMA AdvanceKeeps ==
  ASSUME Persistent, version \in Int, IteratorsKept, NEW it \in Iterator, Advance(it)
  PROVE  IteratorsKept'
<1> DEFINE n == Head(iter[it].stack)
<1>1. /\ pc = "idle" /\ UNCHANGED <<vars, version>>
      /\ iter[it].used /\ iter[it].version = version
      /\ iter[it].stack # <<>> /\ n # NULL
  BY DEF Advance, persistVars
<1>2. PICK order \in FromLargest(Labels(n)) :
        iter' = [iter EXCEPT ![it].stack =
                   [k \in 1..Len(order) |-> next[Head(@)][order[k]]] \o Tail(@)]
  BY DEF Advance
<1> DEFINE pushed == [k \in 1..Len(order) |-> next[n][order[k]]]
           rest == Tail(iter[it].stack)
           r == [iter[it] EXCEPT !.stack = pushed \o rest]
<1>3. /\ iter \in [Iterator -> IteratorRecord] /\ iter[it] \in IteratorRecord
      /\ iter[it].stack \in Seq(Node \cup {NULL})
      /\ \A k \in 1..Len(iter[it].stack) : iter[it].stack[k] \in live \cup {NULL}
      /\ iter[it].words = Lang
  BY <1>1 DEF IteratorsKept, IteratorRecord, Pending
<1>4. n \in live /\ live \subseteq Node /\ \A l \in Letter : next[n][l] \in live \cup {NULL}
  <2>1. 1 \in 1..Len(iter[it].stack) /\ n = iter[it].stack[1]
    BY <1>1, <1>3
  <2>2. n \in live
    BY <2>1, <1>1, <1>3
  <2> QED
    BY <2>2, <1>1, WholeGraph DEF NoDangling, TypeOK
<1>5. order \in Seq(Letter)
  <2>1. Labels(n) \subseteq Letter
    BY DEF Labels
  <2>2. Cardinality(Labels(n)) \in Nat
    BY <2>1, FiniteAssumption, FS_Subset, FS_CardinalityType
  <2>3. order \in [1..Cardinality(Labels(n)) -> Labels(n)]
    BY DEF FromLargest
  <2> QED
    BY <2>1, <2>2, <2>3
<1>6. pushed \in Seq(live \cup {NULL})
  BY <1>4, <1>5
<1>7. rest \in Seq(live \cup {NULL})
  <2>1. iter[it].stack \in Seq(live \cup {NULL})
    BY <1>3
  <2> QED
    BY <2>1, <1>1
<1>8. pushed \o rest \in Seq(live \cup {NULL})
  BY <1>6, <1>7
<1> HIDE DEF pushed, rest
<1>9. r \in IteratorRecord
  <2>1. pushed \o rest \in Seq(Node \cup {NULL})
    BY <1>4, <1>8
  <2> QED
    BY <2>1, <1>3 DEF IteratorRecord
<1>10. iter' = [iter EXCEPT ![it] = r]
  BY <1>2, <1>3 DEF pushed, rest
<1>11. /\ r.version <= version /\ r.words = Lang
       /\ \A k \in 1..Len(r.stack) : r.stack[k] \in live \cup {NULL}
  <2>1. r.version = iter[it].version /\ r.words = iter[it].words /\ r.stack = pushed \o rest
    BY <1>3 DEF IteratorRecord
  <2> QED
    BY <2>1, <1>1, <1>3, <1>8
<1> QED
  BY <1>1, <1>9, <1>10, <1>11, OneIterator

LEMMA DropKeeps ==
  ASSUME IteratorsKept, NEW it \in Iterator, Drop(it)
  PROVE  IteratorsKept'
<1>1. NoIterator \in IteratorRecord /\ ~NoIterator.used
  BY DEF NoIterator, IteratorRecord
<1>2. pc = "idle" /\ UNCHANGED <<vars, version>> /\ iter' = [iter EXCEPT ![it] = NoIterator]
  BY DEF Drop, persistVars
<1> QED
  BY <1>1, <1>2, OneIterator

LEMMA NextKeepsIterators ==
  ASSUME ~AddsAfterRestore, ~IterateOverLoad, Persistent, Persistent', version \in Int,
         IteratorsKept, [ClassNext]_classVars
  PROVE  IteratorsKept'
<1>1. CASE Method
  <2>1. VersionStep
    BY <1>1, MethodVersion
  <2>2. UNCHANGED iter
    BY <1>1 DEF Method
  <2> QED
    BY <2>1, <2>2, VersionStepKeepsIterators
<1>2. CASE Progress
  <2>1. VersionStep
    BY <1>2, ProgressVersion
  <2>2. UNCHANGED iter
    BY <1>2 DEF Progress
  <2> QED
    BY <2>1, <2>2, VersionStepKeepsIterators
<1>3. ASSUME UNCHANGED <<vars, version, iter>>
      PROVE  IteratorsKept'
  BY <1>3, QuietKeepsIterators
<1>4. CASE GetStats \/ Bindump \/ Renumber \/ UNCHANGED classVars
  BY <1>3, <1>4 DEF GetStats, Bindump, Save, Renumber, classVars, persistVars, object
<1>5. CASE Binload
  BY <1>5 DEF Binload, IteratorsKept
<1>6. ASSUME NEW it \in Iterator, NewIterator(it) \/ Advance(it) \/ Drop(it)
      PROVE  IteratorsKept'
  BY <1>6, NewIteratorKeeps, AdvanceKeeps, DropKeeps
<1>7. ClassNext \/ UNCHANGED classVars
  OBVIOUS
<1> QED
  BY <1>1, <1>2, <1>4, <1>5, <1>6, <1>7, Zenon DEF ClassNext

-----------------------------------------------------------------------------
(***************************************************************************)
(* The graph between two calls                                             *)
(***************************************************************************)
Whole == Persistent /\ Alive /\ pc = "idle"

LEMMA WholeFacts ==
  ASSUME Whole
  PROVE  /\ TypeOK /\ NoDangling /\ NoLeak /\ NULL \notin live /\ live \subseteq Node
         /\ PathsShort /\ IsFiniteSet(Lang) /\ WordsAdded
         /\ GoesOn(next, eow, q0)
<1>1. TypeOK /\ NoDangling /\ NoLeak
  BY WholeGraph DEF Whole
<1>2. GoesOn(next, eow, q0) /\ WordsAdded
  BY AliveBetweenCalls DEF Whole, OnlyWords, WordsAdded
<1> QED
  BY <1>1, <1>2, NullAssumption DEF TypeOK, Whole, Persistent, Summary, CountIsExact

(***************************************************************************)
(* The nodes on the way of a word.                                         *)
(***************************************************************************)
OnTheWay(w) == {Run(next, q0, w)[k] : k \in 0..Len(w)}

LEMMA PassedOnTheWay ==
  ASSUME NEW v \in Seq(Letter), NEW u \in Seq(Letter)
  PROVE  Target(next, q0, v) \in OnTheWay(Follow(v, u))
<1>1. PICK w : w = Follow(v, u)
  OBVIOUS
<1>2. IsJoined(w, v, u)
  BY <1>1, Pieces
<1>3. PICK m : m = Len(v)
  OBVIOUS
<1>4. PICK h : h = Run(next, q0, w)
  OBVIOUS
<1>5. m \in Nat /\ Len(w) \in Nat /\ m <= Len(w) /\ \A k \in 1..m : w[k] = v[k] /\ k \in 1..Len(w)
  BY <1>2, <1>3 DEF IsJoined
<1>6. h[0] = q0 /\ \A k \in 1..Len(w) : h[k] = GetChild(next, h[k - 1], w[k])
  BY <1>4, <1>5, RunStep
<1>7. Follows(h, next, q0, v, m)
  BY <1>3, <1>5, <1>6 DEF Follows
<1>8. Run(next, q0, v)[m] = h[m]
  BY <1>3, <1>5, <1>7, RunUnique
<1>9. m \in 0..Len(w)
  BY <1>5
<1> QED
  BY <1>1, <1>3, <1>4, <1>8, <1>9 DEF OnTheWay, Target

(***************************************************************************)
(* There are finitely many nodes, since each is on the way of a word.      *)
(***************************************************************************)
LEMMA LiveIsFinite ==
  ASSUME Whole
  PROVE  IsFiniteSet(live)
<1> DEFINE A == [w \in Lang |-> OnTheWay(w)]
<1>1. ASSUME NEW w \in Lang PROVE IsFiniteSet(A[w])
  <2>1. Len(w) \in Nat
    BY LangOf, LenProperties
  <2>2. IsFiniteSet(0..Len(w))
    BY <2>1, FS_Interval
  <2> QED
    BY <2>2, FiniteImage DEF OnTheWay
<1>2. IsFiniteSet({A[w] : w \in Lang})
  BY WholeFacts, FiniteImage
<1>3. IsFiniteSet(UNION {A[w] : w \in Lang})
  BY <1>1, <1>2, FS_UNION
<1>4. ASSUME NEW n \in live PROVE n \in UNION {A[w] : w \in Lang}
  <2>1. PICK v \in Seq(Letter) : Target(next, q0, v) = n
    BY WholeFacts, NodeReached
  <2>2. PICK u \in Seq(Letter) : Accepts(next, eow, q0, Follow(v, u))
    BY <2>1, WholeFacts DEF GoesOn
  <2>3. Follow(v, u) \in Seq(Letter)
    BY Pieces DEF IsJoined
  <2>4. Follow(v, u) \in Lang
    BY <2>2, <2>3, WholeFacts, WordAssumption, LangOf DEF WordsAdded
  <2>5. n \in A[Follow(v, u)]
    BY <2>1, <2>4, PassedOnTheWay
  <2> QED
    BY <2>4, <2>5
<1> QED
  BY <1>3, <1>4, FS_Subset

(***************************************************************************)
(* A path visits no node twice, so it is shorter than there are nodes.     *)
(***************************************************************************)
LEMMA PathsVisitOnce ==
  ASSUME Whole, NEW n \in live, NEW v \in Seq(Letter), Target(next, n, v) # NULL
  PROVE  Len(v) < Cardinality(live)
<1> SUFFICES ASSUME ~(Len(v) < Cardinality(live)) PROVE FALSE
  OBVIOUS
<1>1. PICK m : m = Len(v)
  OBVIOUS
<1>2. /\ m \in Nat /\ IsFiniteSet(live) /\ Cardinality(live) \in Nat
      /\ \A k \in 1..m : v[k] \in Letter
  BY <1>1, LenProperties, ElementOfSeq, LiveIsFinite, FS_CardinalityType
<1>3. PICK r : r = Run(next, n, v)
  OBVIOUS
<1>4. r[0] = n /\ \A k \in 1..m : r[k] = GetChild(next, r[k - 1], v[k])
  BY <1>1, <1>2, <1>3, RunStep
<1>5. ASSUME NEW k \in 0..m PROVE r[k] \in live
  <2>1. r[k] # NULL
    BY <1>1, <1>3, StaysNull
  <2>2. NoneLeave(next, n, live)
    BY WholeFacts DEF NoneLeave, NoDangling
  <2> QED
    BY <2>1, <2>2, <1>1, <1>3, RunWithin
<1> DEFINE f == [k \in 0..m |-> r[k]]
<1>6. \E i0, j0 \in 0..m : i0 # j0 /\ f[i0] = f[j0]
  <2>1. f \in [0..m -> live]
    BY <1>5
  <2>2. IsFiniteSet(0..m) /\ Cardinality(0..m) = IF 0 > m THEN 0 ELSE m - 0 + 1
    <3>1. 0 \in Int /\ m \in Int
      BY <1>2
    <3> QED
      BY <3>1, FS_Interval
  <2>3. Cardinality(live) < Cardinality(0..m)
    BY <2>2, <1>1, <1>2
  <2> HIDE DEF f
  <2> QED
    BY <2>1, <2>2, <2>3, <1>2, FS_PigeonHole
<1>7. PICK a, b \in 0..m : a < b /\ r[a] = r[b]
  <2>1. PICK i0, j0 \in 0..m : i0 # j0 /\ r[i0] = r[j0]
    BY <1>6
  <2> QED
    BY <2>1
<1>8. PICK u : u = SubSeq(v, a + 1, b)
  OBVIOUS
<1>9. /\ u \in Seq(Letter) /\ Len(u) = b - a
      /\ \A k \in 1..(b - a) : u[k] = v[a + k]
  <2>1. a + 1 \in 1..(Len(v) + 1) /\ b \in 0..Len(v) /\ b - (a + 1) + 1 = b - a
    BY <1>1, <1>2, <1>7
  <2>2. /\ u \in Seq(Letter)
        /\ Len(u) = IF a + 1 <= b THEN b - (a + 1) + 1 ELSE 0
        /\ \A k \in 1..(b - (a + 1) + 1) : u[k] = v[(a + 1) + k - 1]
    BY <1>8, <2>1, SubSeqProperties
  <2>3. \A k \in 1..(b - a) : (a + 1) + k - 1 = a + k
    BY <1>2
  <2> QED
    BY <2>1, <2>2, <2>3, <1>7
<1> DEFINE h == [k \in 0..(b - a) |-> r[a + k]]
<1>10. Follows(h, next, r[a], u, b - a)
  <2>1. h[0] = r[a] /\ b - a \in 0..Len(u)
    BY <1>7, <1>9
  <2>2. ASSUME NEW k \in 1..(b - a) PROVE h[k] = GetChild(next, h[k - 1], u[k])
    <3>1. /\ a + k \in 1..m /\ k \in 0..(b - a) /\ k - 1 \in 0..(b - a)
          /\ a + (k - 1) = (a + k) - 1
      BY <1>2, <1>7
    <3>2. h[k] = r[a + k] /\ h[k - 1] = r[(a + k) - 1] /\ u[k] = v[a + k]
      BY <3>1, <1>9
    <3> HIDE DEF h
    <3> QED
      BY <3>1, <3>2, <1>4
  <2> HIDE DEF h
  <2> QED
    BY <2>1, <2>2 DEF Follows
<1>11. Target(next, r[a], u) = r[a]
  <2>1. b - a \in 0..(b - a) /\ a + (b - a) = b /\ Len(u) \in Nat /\ Len(u) = b - a
    BY <1>2, <1>7, <1>9
  <2>2. h[b - a] = r[b]
    BY <2>1
  <2> HIDE DEF h
  <2>3. Run(next, r[a], u)[b - a] = h[b - a]
    BY <2>1, <1>9, <1>10, RunUnique
  <2> QED
    BY <2>1, <2>2, <2>3, <1>7 DEF Target
<1>12. r[a] \in live /\ Len(u) # 0
  BY <1>5, <1>7, <1>9
<1> QED
  BY <1>9, <1>11, <1>12, WholeFacts, NoCycle DEF Whole

-----------------------------------------------------------------------------
(***************************************************************************)
(* The words from a node, by their first letter                            *)
(***************************************************************************)

Ahead(l, u) == Follow(<<l>>, u)

IsAhead(w, l, u) ==
  /\ w \in Seq(Letter) /\ Len(w) = 1 + Len(u) /\ Len(u) \in Nat
  /\ w[1] = l
  /\ \A k \in 1..Len(u) : w[1 + k] = u[k]

LEMMA LetterAhead ==
  ASSUME NEW l \in Letter, NEW u \in Seq(Letter), NEW w, w = Ahead(l, u)
  PROVE  IsAhead(w, l, u)
<1>1. PICK v : v = <<l>>
  OBVIOUS
<1>2. v \in Seq(Letter) /\ Len(v) = 1 /\ v[1] = l
  BY <1>1, OneLetter
<1>3. IsJoined(w, v, u)
  BY <1>1, <1>2, Pieces DEF Ahead
<1> QED
  BY <1>2, <1>3 DEF IsJoined, IsAhead

(***************************************************************************)
(* A word has one first letter and one rest.                               *)
(***************************************************************************)
LEMMA OneFirstLetter ==
  ASSUME NEW l \in Letter, NEW u \in Seq(Letter), NEW m \in Letter, NEW v \in Seq(Letter),
         Ahead(l, u) = Ahead(m, v)
  PROVE  l = m /\ u = v
<1>1. PICK w : w = Ahead(l, u)
  OBVIOUS
<1>2. IsAhead(w, l, u)
  BY <1>1, LetterAhead
<1>3. IsAhead(w, m, v)
  BY <1>1, LetterAhead
<1>4. Len(u) = Len(v) /\ \A k \in 1..Len(u) : u[k] = v[k]
  BY <1>2, <1>3 DEF IsAhead
<1> QED
  BY <1>2, <1>3, <1>4, SeqEqual DEF IsAhead

LEMMA FirstAndRest ==
  ASSUME NEW w \in Seq(Letter), w # <<>>
  PROVE  \E l \in Letter, u \in Seq(Letter) : w = Ahead(l, u)
<1>1. PICK l \in Letter : l = Head(w)
  BY HeadTailProperties
<1>2. PICK u \in Seq(Letter) : u = Tail(w)
  BY HeadTailProperties
<1>3. /\ Len(u) = Len(w) - 1 /\ Len(w) \in Nat
      /\ \A k \in 1..Len(u) : u[k] = w[k + 1]
  BY <1>2, HeadTailProperties, LenProperties
<1>4. l = w[1]
  BY <1>1
<1>5. PICK v : v = Ahead(l, u)
  OBVIOUS
<1>a. IsAhead(v, l, u)
  BY <1>5, LetterAhead
<1>6. /\ v \in Seq(Letter) /\ Len(v) = 1 + Len(u) /\ Len(u) \in Nat /\ v[1] = l
      /\ \A k \in 1..Len(u) : v[1 + k] = u[k]
  BY <1>a DEF IsAhead
<1>7. ASSUME NEW k \in 1..Len(w) PROVE w[k] = v[k]
  <2>1. CASE k = 1
    BY <2>1, <1>4, <1>6
  <2>2. CASE k # 1
    <3>1. k - 1 \in 1..Len(u) /\ 1 + (k - 1) = k /\ (k - 1) + 1 = k
      BY <2>2, <1>3
    <3> QED
      BY <3>1, <1>3, <1>6
  <2> QED
    BY <2>1, <2>2
<1>8. Len(v) = Len(w)
  BY <1>3, <1>6
<1> QED
  BY <1>5, <1>6, <1>7, <1>8, SeqEqual

(***************************************************************************)
(* The words from n whose first letter is l, and all of them.              *)
(***************************************************************************)
Begin(n, l) == {Ahead(l, u) : u \in RightLanguage(next[n][l])}

NoLetters(n) == IF eow[n] THEN {<<>>} ELSE {}

LEMMA AcceptsAhead ==
  ASSUME NEW n \in Node, NULL \notin Node, NEW l \in Letter, NEW u \in Seq(Letter)
  PROVE  Accepts(next, eow, n, Ahead(l, u)) <=> Accepts(next, eow, next[n][l], u)
<1>1. PICK v : v = <<l>>
  OBVIOUS
<1>2. v \in Seq(Letter) /\ Target(next, n, v) = next[n][l]
  BY <1>1, OneLetter DEF GetChild
<1> QED
  BY <1>1, <1>2, AcceptsInPieces DEF Ahead

LEMMA WordsByFirstLetter ==
  ASSUME Whole, NEW n \in live
  PROVE  /\ \A l \in Labels(n) : next[n][l] \in live /\ l \in Letter
         /\ RightLanguage(n) = NoLetters(n) \cup UNION {Begin(n, l) : l \in Labels(n)}
<1>1. n \in Node /\ n # NULL /\ NULL \notin Node /\ TypeOK
  BY WholeFacts, NullAssumption
<1>2. ASSUME NEW l \in Labels(n) PROVE next[n][l] \in live /\ l \in Letter
  BY WholeFacts DEF Labels, NoDangling
<1>3. ASSUME NEW w \in RightLanguage(n)
      PROVE  w \in NoLetters(n) \cup UNION {Begin(n, l) : l \in Labels(n)}
  <2>1. w \in Seq(Letter) /\ Accepts(next, eow, n, w)
    BY UniverseAssumption DEF RightLanguage
  <2>2. CASE w = <<>>
    <3>1. Accepts(next, eow, n, <<>>) <=> eow[n]
      BY <1>1, NoLetter
    <3> QED
      BY <2>1, <2>2, <3>1 DEF NoLetters
  <2>3. CASE w # <<>>
    <3>1. PICK l \in Letter, u \in Seq(Letter) : w = Ahead(l, u)
      BY <2>1, <2>3, FirstAndRest
    <3>2. Accepts(next, eow, next[n][l], u)
      BY <2>1, <3>1, <1>1, AcceptsAhead
    <3>3. next[n][l] # NULL
      BY <3>2, NoRootNoWord
    <3>4. l \in Labels(n)
      BY <3>3 DEF Labels
    <3>5. u \in RightLanguage(next[n][l])
      BY <3>2, <3>4, <1>2, WholeFacts, NodeAccepts
    <3> QED
      <4>1. w \in Begin(n, l)
        BY <3>1, <3>5 DEF Begin
      <4> QED
        BY <3>4, <4>1
  <2> QED
    BY <2>2, <2>3
<1>4. ASSUME NEW w \in NoLetters(n) PROVE w \in RightLanguage(n)
  <2>1. w = <<>> /\ eow[n]
    BY <1>4 DEF NoLetters
  <2>2. <<>> \in Seq(Letter) /\ (Accepts(next, eow, n, <<>>) <=> eow[n])
    BY <1>1, NoLetter
  <2> QED
    BY <2>1, <2>2, <1>1, WholeFacts, NodeAccepts
<1>5. ASSUME NEW l \in Labels(n), NEW w \in Begin(n, l) PROVE w \in RightLanguage(n)
  <2>1. PICK u \in RightLanguage(next[n][l]) : w = Ahead(l, u)
    BY DEF Begin
  <2>2. u \in Seq(Letter) /\ Accepts(next, eow, next[n][l], u)
    BY UniverseAssumption DEF RightLanguage
  <2>3. Accepts(next, eow, n, w)
    BY <2>1, <2>2, <1>1, <1>2, AcceptsAhead
  <2>4. w \in Seq(Letter)
    BY <2>1, <2>2, <1>2, LetterAhead DEF IsAhead
  <2> QED
    BY <2>3, <2>4, WholeFacts, NodeAccepts
<1> QED
  BY <1>2, <1>3, <1>4, <1>5

(***************************************************************************)
(* There are as many words with a first letter as there are rests.         *)
(***************************************************************************)
LEMMA AsManyRests ==
  ASSUME NEW n \in live, NEW l \in Letter, IsFiniteSet(RightLanguage(next[n][l]))
  PROVE  /\ IsFiniteSet(Begin(n, l))
         /\ Cardinality(Begin(n, l)) = Cardinality(RightLanguage(next[n][l]))
<1>1. PICK S : S = RightLanguage(next[n][l])
  OBVIOUS
<1>2. PICK T : T = Begin(n, l)
  OBVIOUS
<1> DEFINE f == [u \in S |-> Ahead(l, u)]
<1>3. f \in [S -> T] /\ \A t \in T : \E u \in S : f[u] = t
  BY <1>1, <1>2 DEF Begin
<1>4. ASSUME NEW u \in S, NEW v \in S, f[u] = f[v] PROVE u = v
  <2>1. u \in Seq(Letter) /\ v \in Seq(Letter)
    BY <1>1, UniverseAssumption DEF RightLanguage
  <2>2. Ahead(l, u) = Ahead(l, v)
    BY <1>4
  <2> QED
    BY <2>1, <2>2, OneFirstLetter
<1> HIDE DEF f
<1>5. f \in Bijection(S, T)
  BY <1>3, <1>4 DEF Bijection, Injection, Surjection, IsInjective
<1>6. ExistsBijection(S, T)
  BY <1>5 DEF ExistsBijection
<1> QED
  BY <1>1, <1>2, <1>6, FS_Bijection

(***************************************************************************)
(* When the numbers of the children are right, so is the one computed.     *)
(***************************************************************************)
LEMMA NumberFromChildren ==
  ASSUME Whole, NEW n \in live, NEW numbers,
         \A l \in Labels(n) :
           /\ IsFiniteSet(RightLanguage(next[n][l]))
           /\ numbers[next[n][l]] = Cardinality(RightLanguage(next[n][l]))
  PROVE  /\ IsFiniteSet(RightLanguage(n))
         /\ NumberFrom(numbers, n) = Cardinality(RightLanguage(n))
<1>1. PICK S : S = Labels(n)
  OBVIOUS
<1>2. PICK f : f = [l \in S |-> numbers[next[n][l]]]
  OBVIOUS
<1>3. PICK A : A = [l \in S |-> Begin(n, l)]
  OBVIOUS
<1>4. IsFiniteSet(S) /\ S \subseteq Letter
  <2>1. S \subseteq Letter
    BY <1>1 DEF Labels
  <2> QED
    BY <2>1, FiniteAssumption, FS_Subset
<1>5. ASSUME NEW l \in S
      PROVE  IsFiniteSet(A[l]) /\ Cardinality(A[l]) = f[l]
  <2>1. IsFiniteSet(Begin(n, l)) /\ Cardinality(Begin(n, l)) = numbers[next[n][l]]
    BY <1>1, <1>4, AsManyRests
  <2> QED
    BY <2>1, <1>2, <1>3
<1>6. ASSUME NEW l \in S, NEW w \in A[l]
      PROVE  \E u \in Seq(Letter) : w = Ahead(l, u)
  BY <1>3, UniverseAssumption DEF Begin, RightLanguage
<1>7. ASSUME NEW l \in S, NEW m \in S, l # m
      PROVE  A[l] \cap A[m] = {}
  <2> SUFFICES ASSUME NEW w \in A[l], w \in A[m] PROVE FALSE
    OBVIOUS
  <2>1. PICK u \in Seq(Letter) : w = Ahead(l, u)
    BY <1>6
  <2>2. PICK v \in Seq(Letter) : w = Ahead(m, v)
    BY <1>6
  <2> QED
    BY <2>1, <2>2, <1>4, <1>7, OneFirstLetter
<1>8. PICK U : U = UNION {A[l] : l \in S}
  OBVIOUS
<1>9. IsFiniteSet(U) /\ SumFunctionOnSet(f, S) = Cardinality(U)
  BY <1>4, <1>5, <1>7, <1>8, SumOfParts
<1>10. <<>> \notin U
  <2> SUFFICES ASSUME NEW l \in S, <<>> \in A[l] PROVE FALSE
    BY <1>8
  <2>1. PICK u \in Seq(Letter) : <<>> = Ahead(l, u)
    BY <1>6
  <2>2. PICK w : w = <<>> /\ Len(w) = 0
    OBVIOUS
  <2>3. IsAhead(w, l, u)
    BY <2>1, <2>2, <1>4, LetterAhead
  <2>4. Len(w) # 0
    BY <2>3 DEF IsAhead
  <2> QED
    BY <2>2, <2>4
<1>11. RightLanguage(n) = NoLetters(n) \cup U
  <2>1. U = UNION {Begin(n, l) : l \in Labels(n)}
    BY <1>1, <1>3, <1>8
  <2> QED
    BY <2>1, WordsByFirstLetter
<1>12. NumberFrom(numbers, n) = (IF eow[n] THEN 1 ELSE 0) + Cardinality(U)
  <2>1. DOMAIN f = S
    BY <1>2
  <2>2. SumFunction([l \in Labels(n) |-> numbers[next[n][l]]]) = SumFunctionOnSet(f, S)
    BY <2>1, <1>1, <1>2 DEF SumFunction
  <2> QED
    BY <2>2, <1>9 DEF NumberFrom
<1>13. CASE eow[n]
  <2>1. RightLanguage(n) = U \cup {<<>>}
    BY <1>11, <1>13 DEF NoLetters
  <2>2. IsFiniteSet(U \cup {<<>>}) /\ Cardinality(U \cup {<<>>}) = Cardinality(U) + 1
    BY <1>9, <1>10, FS_AddElement
  <2>3. Cardinality(U) \in Nat
    BY <1>9, FS_CardinalityType
  <2> QED
    BY <2>1, <2>2, <2>3, <1>12, <1>13
<1>14. CASE ~eow[n]
  <2>1. RightLanguage(n) = U
    BY <1>11, <1>14 DEF NoLetters
  <2>2. Cardinality(U) \in Nat
    BY <1>9, FS_CardinalityType
  <2> QED
    BY <2>1, <2>2, <1>9, <1>12, <1>14
<1> QED
  BY <1>13, <1>14

-----------------------------------------------------------------------------
(***************************************************************************)
(* The rounds                                                              *)
(***************************************************************************)

IsRounds(h, visited, m) ==
  h = [k \in 0..m |-> IF k = 0 THEN number ELSE Round(visited, h[k - 1])]

LEMMA RoundsExist ==
  ASSUME NEW visited, NEW m \in Nat
  PROVE  \E h : IsRounds(h, visited, m)
<1> DEFINE Bad == {k \in Nat : ~ \E h : IsRounds(h, visited, k)}
<1> SUFFICES ASSUME Bad # {} PROVE FALSE
  OBVIOUS
<1>1. PICK k \in Bad : \A j \in Bad : k <= j
  BY LeastNatural
<1>2. CASE k = 0
  <2>1. IsRounds([j \in 0..0 |-> number], visited, 0)
    BY DEF IsRounds
  <2> QED
    BY <2>1, <1>2
<1>3. CASE k # 0
  <2>1. k - 1 \in Nat /\ k - 1 \notin Bad
    BY <1>1, <1>3
  <2>2. PICK g : IsRounds(g, visited, k - 1)
    BY <2>1
  <2> DEFINE h == [j \in 0..k |-> IF j = k THEN Round(visited, g[k - 1]) ELSE g[j]]
  <2>3. ASSUME NEW j \in 0..k
        PROVE  h[j] = IF j = 0 THEN number ELSE Round(visited, h[j - 1])
    <3>1. CASE j = k
      <4>1. k - 1 \in 0..k /\ k - 1 # k /\ k \in 0..k
        BY <1>3
      <4>2. h[k] = Round(visited, g[k - 1]) /\ h[k - 1] = g[k - 1]
        BY <4>1
      <4> HIDE DEF h
      <4> QED
        BY <4>2, <3>1, <1>3
    <3>2. CASE j # k /\ j = 0
      <4>1. g[0] = number
        BY <2>1, <2>2 DEF IsRounds
      <4> QED
        BY <3>2, <4>1
    <3>3. CASE j # k /\ j # 0
      <4>1. j \in 0..(k - 1) /\ j - 1 \in 0..k /\ j - 1 # k
        BY <3>3, <1>3
      <4>2. g[j] = Round(visited, g[j - 1])
        BY <4>1, <3>3, <2>2 DEF IsRounds
      <4>3. h[j] = g[j] /\ h[j - 1] = g[j - 1]
        BY <3>3, <4>1
      <4> HIDE DEF h
      <4> QED
        BY <3>3, <4>2, <4>3
    <3> QED
      BY <3>1, <3>2, <3>3
  <2>4. h = [j \in 0..k |-> h[j]]
    OBVIOUS
  <2> HIDE DEF h
  <2>5. IsRounds(h, visited, k)
    <3>1. [j \in 0..k |-> h[j]]
            = [j \in 0..k |-> IF j = 0 THEN number ELSE Round(visited, h[j - 1])]
      BY <2>3
    <3> QED
      BY <2>4, <3>1 DEF IsRounds
  <2> QED
    BY <2>5
<1> QED
  BY <1>2, <1>3

LEMMA NumberedIs ==
  ASSUME NEW visited, visited = Reachable(next, q0, live),
         NEW m \in Nat, m = Cardinality(visited)
  PROVE  \E h : IsRounds(h, visited, m) /\ Numbered = h[m]
<1> DEFINE R(h) == h = [k \in 0..m |-> IF k = 0 THEN number ELSE Round(visited, h[k - 1])]
           g == CHOOSE h : R(h)
<1>1. \E h : R(h)
  <2>1. PICK h : IsRounds(h, visited, m)
    BY RoundsExist
  <2>2. R(h)
    BY <2>1 DEF IsRounds
  <2> HIDE DEF R
  <2> QED
    BY <2>2
<1>2. R(g)
  <2> HIDE DEF R
  <2> QED
    BY <1>1
<1>3. Numbered = g[m]
  BY DEF Numbered
<1>4. IsRounds(g, visited, m)
  BY <1>2 DEF IsRounds
<1> QED
  BY <1>3, <1>4

(***************************************************************************)
(* After k rounds the numbers are right for the nodes with no path of k    *)
(* letters, so they all are after as many rounds as there are nodes.       *)
(***************************************************************************)
PathsBelow(n, k) == \A v \in Seq(Letter) : Target(next, n, v) # NULL => Len(v) < k

Counts(numbers, n) ==
  IsFiniteSet(RightLanguage(n)) /\ numbers[n] = Cardinality(RightLanguage(n))

LEMMA ChildPathsBelow ==
  ASSUME NEW n, n # NULL, NEW k \in Nat, PathsBelow(n, k), NEW l \in Letter
  PROVE  PathsBelow(next[n][l], k - 1)
<1> SUFFICES ASSUME NEW u \in Seq(Letter), Target(next, next[n][l], u) # NULL
             PROVE  Len(u) < k - 1
  BY DEF PathsBelow
<1>1. PICK w \in Seq(Letter) :
        /\ Len(w) = 1 + Len(u) /\ Target(next, n, w) = Target(next, next[n][l], u)
        /\ Accepts(next, eow, n, w) <=> Accepts(next, eow, next[n][l], u)
  BY FirstLetterThenRest
<1>2. Len(w) < k /\ Len(w) \in Nat /\ Len(u) \in Nat
  BY <1>1, LenProperties DEF PathsBelow
<1> QED
  BY <1>1, <1>2

LEMMA RoundsAreRight ==
  ASSUME Whole, NEW m \in Nat, NEW h, IsRounds(h, live, m)
  PROVE  \A k \in 0..m : \A n \in live : PathsBelow(n, k) => Counts(h[k], n)
<1> DEFINE Right(k) == \A n \in live : PathsBelow(n, k) => Counts(h[k], n)
           Bad == {k \in 0..m : ~Right(k)}
<1> SUFFICES ASSUME Bad # {} PROVE FALSE
  OBVIOUS
<1>1. Bad \subseteq Nat
  OBVIOUS
<1>2. PICK k \in Bad : \A j \in Bad : k <= j
  <2> HIDE DEF Bad
  <2> QED
    BY <1>1, LeastNatural
<1>3. k \in 0..m /\ ~Right(k)
  OBVIOUS
<1>4. PICK n \in live : PathsBelow(n, k) /\ ~Counts(h[k], n)
  BY <1>3
<1>5. n # NULL /\ n \in Node /\ live \subseteq Node
  BY WholeFacts
<1>6. k # 0
  <2>1. <<>> \in Seq(Letter) /\ Len(<<>>) = 0 /\ Target(next, n, <<>>) = n
    BY NoLetter
  <2>2. PICK z : z = Len(<<>>)
    OBVIOUS
  <2>3. z < k /\ z = 0
    BY <2>1, <2>2, <1>4, <1>5 DEF PathsBelow
  <2> QED
    BY <2>3, <1>3
<1>7. k - 1 \in 0..m /\ k \in Nat /\ k - 1 < k
  BY <1>3, <1>6
<1>8. Right(k - 1)
  <2>1. k - 1 \notin Bad
    <3> HIDE DEF Bad
    <3> QED
      BY <1>1, <1>2, <1>7
  <2> QED
    BY <2>1, <1>7
<1> HIDE DEF Right, Bad
<1>9. PICK g : g = h[k - 1]
  OBVIOUS
<1>10. ASSUME NEW l \in Labels(n)
       PROVE  Counts(g, next[n][l])
  <2>1. next[n][l] \in live /\ l \in Letter
    BY WordsByFirstLetter
  <2>2. PathsBelow(next[n][l], k - 1)
    BY <2>1, <1>4, <1>5, <1>7, ChildPathsBelow
  <2> QED
    BY <2>1, <2>2, <1>8, <1>9 DEF Right
<1>11. /\ IsFiniteSet(RightLanguage(n))
       /\ NumberFrom(g, n) = Cardinality(RightLanguage(n))
  BY <1>10, NumberFromChildren DEF Counts
<1>12. h[k] = Round(live, g)
  BY <1>3, <1>6, <1>9 DEF IsRounds
<1>13. Round(live, g)[n] = NumberFrom(g, n)
  BY <1>5 DEF Round
<1> QED
  BY <1>4, <1>11, <1>12, <1>13 DEF Counts

(***************************************************************************)
(* DAWG_mph_numerate_nodes counts the words from every node.               *)
(***************************************************************************)
LEMMA NumberedIsExact ==
  ASSUME Whole
  PROVE  \A n \in live : Numbered[n] = Cardinality(RightLanguage(n))
<1>1. Reachable(next, q0, live) = live
  BY WholeFacts DEF NoLeak
<1>2. PICK m : m = Cardinality(live)
  OBVIOUS
<1>3. m \in Nat
  BY <1>2, LiveIsFinite, FS_CardinalityType
<1>4. PICK h : IsRounds(h, live, m) /\ Numbered = h[m]
  BY <1>1, <1>2, <1>3, NumberedIs
<1>5. ASSUME NEW n \in live PROVE PathsBelow(n, m)
  BY <1>2, PathsVisitOnce DEF PathsBelow
<1>6. m \in 0..m
  BY <1>3
<1> QED
  BY <1>3, <1>4, <1>5, <1>6, RoundsAreRight DEF Counts

-----------------------------------------------------------------------------
(***************************************************************************)
(* The numbers                                                             *)
(***************************************************************************)

NumbersRight ==
  /\ mph_version \in Int /\ mph_version <= version
  /\ mph_version = version /\ ~Pending =>
       \A n \in live : number[n] = Cardinality(RightLanguage(n))

LEMMA SameWordsFrom ==
  ASSUME UNCHANGED <<next, eow>>
  PROVE  \A n : RightLanguage(n)' = RightLanguage(n)
<1> SUFFICES ASSUME NEW n PROVE RightLanguage(n)' = RightLanguage(n)
  OBVIOUS
<1>1. \A w : Accepts(next', eow', n, w) <=> Accepts(next, eow, n, w)
  BY Zenon
<1>2. \A w : w \in RightLanguage(n)' <=> w \in RightLanguage(n)
  BY <1>1 DEF RightLanguage
<1> QED
  BY <1>2 DEF RightLanguage

LEMMA VersionStepKeepsNumbers ==
  ASSUME NumbersRight, version \in Int, VersionStep, live' \subseteq Node,
         UNCHANGED mph_version, NumbersCleared
  PROVE  NumbersRight'
<1>1. CASE version' = version + 1
  BY <1>1 DEF NumbersRight
<1>2. CASE version' = version /\ Pending'
  BY <1>2 DEF NumbersRight
<1>3. ASSUME version' = version, ~Pending, SameGraphSeen
      PROVE  NumbersRight'
  <2>1. UNCHANGED <<live, next, eow>>
    BY <1>3 DEF SameGraphSeen
  <2>2. \A n : RightLanguage(n)' = RightLanguage(n)
    BY <2>1, SameWordsFrom
  <2>3. \A n \in live' : n \in live /\ number'[n] = number[n]
    BY <2>1 DEF NumbersCleared
  <2> QED
    BY <2>2, <2>3, <1>3 DEF NumbersRight
<1> QED
  BY <1>1, <1>2, <1>3, Zenon DEF VersionStep

LEMMA QuietKeepsNumbers ==
  ASSUME NumbersRight, UNCHANGED <<vars, version, mph_version, number>>
  PROVE  NumbersRight'
<1>1. UNCHANGED <<q0, next, eow, live, pc, word>>
  BY DEF vars, graph, locals
<1>2. Lang' = Lang
  BY <1>1, SameGraphLang
<1>3. Pending' = Pending
  BY <1>1, <1>2 DEF Pending
<1>4. \A n : RightLanguage(n)' = RightLanguage(n)
  BY <1>1, SameWordsFrom
<1> QED
  BY <1>1, <1>3, <1>4 DEF NumbersRight

LEMMA RenumberIsRight ==
  ASSUME Persistent, Alive, version \in Int, Renumber
  PROVE  NumbersRight'
<1>1. Whole /\ UNCHANGED <<live, next, eow, version>> /\ mph_version' = version
  BY DEF Whole, Renumber, persistVars, vars, graph
<1>2. \A n \in live : number'[n] = Cardinality(RightLanguage(n))
  BY <1>1, NumberedIsExact DEF Renumber
<1>3. \A n : RightLanguage(n)' = RightLanguage(n)
  BY <1>1, SameWordsFrom
<1> QED
  BY <1>1, <1>2, <1>3 DEF NumbersRight

LEMMA NextKeepsNumbers ==
  ASSUME ~AddsAfterRestore, Persistent, Persistent', Alive, version \in Int,
         NumbersRight, [ClassNext]_classVars
  PROVE  NumbersRight'
<1>t. live' \subseteq Node
  BY DEF Persistent, Held, Consistent, TypeOK
<1>1. CASE Method
  <2>1. VersionStep
    BY <1>1, MethodVersion
  <2>2. UNCHANGED mph_version /\ NumbersCleared
    BY <1>1 DEF Method
  <2> QED
    BY <2>1, <2>2, <1>t, VersionStepKeepsNumbers
<1>2. CASE Progress
  <2>1. VersionStep
    BY <1>2, ProgressVersion
  <2>2. UNCHANGED mph_version /\ NumbersCleared
    BY <1>2 DEF Progress
  <2> QED
    BY <2>1, <2>2, <1>t, VersionStepKeepsNumbers
<1>3. ASSUME UNCHANGED <<vars, version, mph_version, number>>
      PROVE  NumbersRight'
  BY <1>3, QuietKeepsNumbers
<1>4. CASE GetStats \/ UNCHANGED classVars
  BY <1>3, <1>4 DEF GetStats, classVars, persistVars, object, caches
<1>5. CASE Bindump
  BY <1>3, <1>5 DEF Bindump, Save
<1>6. CASE Binload
  BY <1>6 DEF Binload, NumbersAfterLoad, NumbersRight
<1>7. CASE Renumber
  BY <1>7, RenumberIsRight
<1>8. ASSUME NEW it \in Iterator, NewIterator(it) \/ Advance(it) \/ Drop(it)
      PROVE  NumbersRight'
  BY <1>3, <1>8 DEF NewIterator, Advance, Drop, persistVars, caches
<1>9. ClassNext \/ UNCHANGED classVars
  OBVIOUS
<1> QED
  BY <1>1, <1>2, <1>4, <1>5, <1>6, <1>7, <1>8, <1>9, Zenon DEF ClassNext

-----------------------------------------------------------------------------
(***************************************************************************)
(* The theorems                                                            *)
(***************************************************************************)

LEMMA InitKept ==
  ASSUME ClassInit
  PROVE  Persistent /\ StatsKept /\ IteratorsKept
<1>1. Persistent
  BY InitPersistent DEF ClassInit
<1>2. StatsKept
  BY DEF ClassInit, StatsKept
<1>3. NoIterator \in IteratorRecord /\ ~NoIterator.used
  BY DEF NoIterator, IteratorRecord
<1>4. IteratorsKept
  BY <1>3 DEF ClassInit, IteratorsKept
<1> QED
  BY <1>1, <1>2, <1>4

(***************************************************************************)
(* What bindump sizes its buffer by, and get_stats reports, is what the    *)
(* graph has, whenever the version says that it need not be computed anew: *)
(* add_word leaves the version alone when its word was there already, and  *)
(* binload starts the versions over.                                       *)
(***************************************************************************)
THEOREM StatsAlwaysExact ==
  ASSUME ~AddsAfterRestore
  PROVE  ClassSpec => []StatsExact
<1>1. ClassInit => Persistent /\ StatsKept
  BY InitKept
<1>2. Persistent /\ StatsKept /\ [ClassNext]_classVars => (Persistent /\ StatsKept)'
  <2> SUFFICES ASSUME Persistent, StatsKept, [ClassNext]_classVars
               PROVE  Persistent' /\ StatsKept'
    OBVIOUS
  <2>1. Persistent'
    BY ClassIsPersist, NextPersistent
  <2> QED
    BY <2>1, NextKeepsStats
<1>3. Persistent /\ StatsKept => StatsExact
  BY DEF StatsExact, StatsKept, Persistent, Summary, CountIsExact, Pending, GraphEdges
<1> QED
  BY <1>1, <1>2, <1>3, PTL DEF ClassSpec

(***************************************************************************)
(* An iterator whose version is the object's has only allocated nodes on   *)
(* its stack, and goes over the words the DAWG still has, unless binload   *)
(* was called while it was in use.                                         *)
(***************************************************************************)
THEOREM IteratorAlwaysValid ==
  ASSUME ~AddsAfterRestore, ~IterateOverLoad
  PROVE  ClassSpec => []IteratorValid
<1>1. ClassInit => Persistent /\ StatsKept /\ IteratorsKept
  BY InitKept
<1>2. Persistent /\ StatsKept /\ IteratorsKept /\ [ClassNext]_classVars
        => (Persistent /\ StatsKept /\ IteratorsKept)'
  <2> SUFFICES ASSUME Persistent, StatsKept, IteratorsKept, [ClassNext]_classVars
               PROVE  Persistent' /\ StatsKept' /\ IteratorsKept'
    OBVIOUS
  <2>1. Persistent'
    BY ClassIsPersist, NextPersistent
  <2>2. StatsKept'
    BY <2>1, NextKeepsStats
  <2>3. version \in Int
    BY DEF StatsKept
  <2> QED
    BY <2>1, <2>2, <2>3, NextKeepsIterators
<1>3. IteratorsKept => IteratorValid
  BY DEF IteratorsKept, IteratorValid, Pending
<1> QED
  BY <1>1, <1>2, <1>3, PTL DEF ClassSpec
(***************************************************************************)
(* What word2index and index2word count with is the number of words from   *)
(* every node, whenever the version says that the nodes need not be        *)
(* numbered anew: also where a node's memory was another node's, with its  *)
(* number, and where add_word marked a node and had to say so.             *)
(***************************************************************************)
THEOREM NumbersAlwaysExact ==
  ASSUME ~AddsAfterRestore
  PROVE  ClassSpec => []NumbersExact
<1>1. ClassInit => Persistent /\ Alive /\ StatsKept /\ NumbersRight
  BY InitKept, InitAlive DEF ClassInit, NumbersRight
<1>2. Persistent /\ Alive /\ StatsKept /\ NumbersRight /\ [ClassNext]_classVars
        => (Persistent /\ Alive /\ StatsKept /\ NumbersRight)'
  <2> SUFFICES ASSUME Persistent, Alive, StatsKept, NumbersRight, [ClassNext]_classVars
               PROVE  Persistent' /\ Alive' /\ StatsKept' /\ NumbersRight'
    OBVIOUS
  <2>1. Persistent'
    BY ClassIsPersist, NextPersistent
  <2>2. Alive'
    BY <2>1, ClassIsPersist, NextAlive
  <2>3. StatsKept'
    BY <2>1, NextKeepsStats
  <2>4. version \in Int
    BY DEF StatsKept
  <2> QED
    BY <2>1, <2>2, <2>3, <2>4, NextKeepsNumbers
<1>3. NumbersRight => NumbersExact
  BY DEF NumbersRight, NumbersExact, Pending
<1> QED
  BY <1>1, <1>2, <1>3, PTL DEF ClassSpec
=============================================================================
