--------------------------- MODULE DawgOomProofs ---------------------------
(***************************************************************************)
(* What the construction keeps when malloc fails, for every alphabet,      *)
(* every set of words, every hash function and every malloc: after any     *)
(* failure the object can be read, counted and cleared, clearing makes it  *)
(* fit to be built again, and a client sees the set FallibleSet describes, *)
(* as long as nothing is added to what a failed call left.                 *)
(***************************************************************************)
EXTENDS DawgOom, DawgProofs

-----------------------------------------------------------------------------
(***************************************************************************)
(* What a failure leaves                                                   *)
(***************************************************************************)

(***************************************************************************)
(* After a failure that was reported: the graph is whole, but the tail is  *)
(* no longer the previous word.                                            *)
(***************************************************************************)
Stopped ==
  /\ TypeOK /\ RegistryValid /\ NoDangling /\ NoLeak
  /\ CountIsExact
  /\ pc = "idle"

(***************************************************************************)
(* After an edge that could not be stored, until DAWG_clear: some nodes    *)
(* are lost, no edge leads from them to the others, and only lost nodes    *)
(* still change.                                                           *)
(***************************************************************************)
Reached == Reachable(next, q0, live)
Lost == live \ Reached

LostOpen ==
  /\ cur \in Lost /\ ~Registered(cur) /\ ~eow[cur]
  /\ word \in Word /\ LessEq(prev_word, word) /\ word \notin Lang
  /\ state # "CLOSED"

Torn ==
  /\ TypeOK /\ RegistryValid /\ NoDangling
  /\ \A n \in Lost, l \in Letter : next[n][l] \in Lost \cup {NULL}
  /\ pc \in {"idle", "suffix"}
  /\ pc = "suffix" => LostOpen

Sound ==
  /\ failed \in {"nothing", "node", "previous", "edge"} /\ gaps \in BOOLEAN
  /\ failed = "nothing" => Summarized /\ (gaps = FALSE => RestRegistered)
  /\ failed \in {"node", "previous"} => Stopped
  /\ failed = "edge" => Torn

(***************************************************************************)
(* Only what was below a failed edge stays allocated after DAWG_clear.     *)
(***************************************************************************)
LeaksSevered ==
  /\ severed \in BOOLEAN
  /\ failed = "edge" => severed = TRUE
  /\ severed = FALSE => leaked = {}

-----------------------------------------------------------------------------
(***************************************************************************)
(* Changes beside the graph                                                *)
(***************************************************************************)

LEMMA ReachedClosed ==
  ASSUME NEW g, NEW root, NEW N, NoneLeave(g, root, N)
  PROVE  LET S == Reachable(g, root, N)
         IN  /\ S \subseteq N /\ NoneLeave(g, root, S)
             /\ \A T \in ClosedSets(g, root, N) : S \subseteq T
<1> DEFINE S == Reachable(g, root, N)
<1>1. N \in ClosedSets(g, root, N)
  BY DEF ClosedSets, NoneLeave
<1>2. \A n : n \in S <=> n \in N /\ \A T \in ClosedSets(g, root, N) : n \in T
  BY DEF Reachable
<1> HIDE DEF S
<1>3. root # NULL => root \in S
  BY <1>2 DEF ClosedSets, NoneLeave
<1>4. ASSUME NEW n \in S, NEW l \in Letter, g[n][l] # NULL
      PROVE  g[n][l] \in S
  <2>1. g[n][l] \in N
    BY <1>2, <1>4 DEF NoneLeave
  <2>2. ASSUME NEW T \in ClosedSets(g, root, N)
        PROVE  g[n][l] \in T
    BY <1>2, <1>4 DEF ClosedSets
  <2> QED
    BY <2>1, <2>2, <1>2
<1>5. NULL \notin S
  BY <1>2 DEF NoneLeave
<1>6. NoneLeave(g, root, S)
  BY <1>3, <1>4, <1>5 DEF NoneLeave
<1> QED
  BY <1>2, <1>6 DEF S

(***************************************************************************)
(* What is reached stays so when the nodes that are reached do.            *)
(***************************************************************************)
LEMMA ReachedKept ==
  ASSUME NEW g, NEW g2, NEW root, NEW N, NEW N2, NoneLeave(g, root, N), N \subseteq N2,
         \A n \in Reachable(g, root, N) : g2[n] = g[n]
  PROVE  Reachable(g2, root, N2) = Reachable(g, root, N)
<1> DEFINE S == Reachable(g, root, N)
<1>1. /\ S \subseteq N /\ NoneLeave(g, root, S)
      /\ \A T \in ClosedSets(g, root, N) : S \subseteq T
  BY ReachedClosed
<1>2. \A n \in S : g2[n] = g[n]
  OBVIOUS
<1> HIDE DEF S
<1>3. S \in ClosedSets(g2, root, N2)
  BY <1>1, <1>2 DEF ClosedSets, NoneLeave
<1>4. ASSUME NEW T \in ClosedSets(g2, root, N2)
      PROVE  S \subseteq T
  <2>1. T \cap S \in ClosedSets(g, root, N)
    BY <1>1, <1>2, <1>4 DEF ClosedSets, NoneLeave
  <2> QED
    BY <2>1, <1>1
<1>5. \A n : n \in Reachable(g2, root, N2) <=>
               n \in N2 /\ \A T \in ClosedSets(g2, root, N2) : n \in T
  BY DEF Reachable
<1>6. \A n : n \in Reachable(g2, root, N2) <=> n \in S
  BY <1>1, <1>3, <1>4, <1>5
<1> QED
  BY <1>6 DEF S

(***************************************************************************)
(* A step beside the graph changes neither what is reached nor what is     *)
(* read from there.                                                        *)
(***************************************************************************)
Beside ==
  /\ q0' = q0 /\ live \subseteq live'
  /\ \A n \in Reached : next'[n] = next[n] /\ eow'[n] = eow[n]

LEMMA GraphWhole ==
  ASSUME TypeOK, NoDangling
  PROVE  NoneLeave(next, q0, live)
BY NullAssumption DEF TypeOK, NoDangling, NoneLeave

LEMMA BesideKept ==
  ASSUME TypeOK, NoDangling, Beside
  PROVE  Reached' = Reached /\ Lang' = Lang
<1>1. NoneLeave(next, q0, live) /\ q0' = q0 /\ live \subseteq live'
      /\ \A n \in Reached : next'[n] = next[n] /\ eow'[n] = eow[n]
  BY GraphWhole DEF Beside
<1>2. Reached' = Reached
  <2>1. Reachable(next', q0, live') = Reachable(next, q0, live)
    BY <1>1, ReachedKept DEF Reached
  <2> QED
    BY <2>1, <1>1 DEF Reached
<1>3. ASSUME NEW w \in Seq(Letter)
      PROVE  Accepts(next, eow, q0, w) <=> Accepts(next', eow', q0', w)
  <2> DEFINE R == {<<x, x>> : x \in Reached \cup {NULL}}
  <2>1. \A x, y : <<x, y>> \in R <=> x = y /\ x \in Reached \cup {NULL}
    OBVIOUS
  <2> HIDE DEF R
  <2>2. NoneLeave(next, q0, Reached)
    BY <1>1, ReachedClosed DEF Reached
  <2>3. Simulates(R, next, next') /\ SameMarkers(R, eow, eow') /\ <<q0, q0'>> \in R
    <3>1. Simulates(R, next, next')
      BY <1>1, <2>1, <2>2 DEF Simulates, GetChild, NoneLeave
    <3>2. SameMarkers(R, eow, eow')
      BY <1>1, <2>1 DEF SameMarkers
    <3>3. <<q0, q0'>> \in R
      BY <1>1, <2>1, <2>2 DEF NoneLeave
    <3> QED
      BY <3>1, <3>2, <3>3
  <2> QED
    BY <2>3, SameWords
<1>4. \A w : w \in Lang' <=> w \in Lang
  BY <1>3, LangOf
<1>5. Lang' = Lang
  BY <1>4, Zenon
<1> QED
  BY <1>2, <1>5

(***************************************************************************)
(* The registry stays valid when the nodes in it do not change.            *)
(***************************************************************************)
LEMMA RegistryKept ==
  ASSUME RegistryValid, UNCHANGED reg, live \subseteq live',
         \A n \in live : Registered(n) => next'[n] = next[n] /\ eow'[n] = eow[n]
  PROVE  RegistryValid'
<1>1. \A item \in reg : /\ item.key \in live /\ item = Entry(item.key, eow, next)
                        /\ next'[item.key] = next[item.key]
                        /\ eow'[item.key] = eow[item.key]
  BY DEF RegistryValid, Registered
<1>2. \A item \in reg : item.key \in live' /\ item = Entry(item.key, eow', next')
  BY <1>1 DEF Entry
<1>3. \A item, other \in reg :
        eow'[item.key] = eow'[other.key] /\ next'[item.key] = next'[other.key]
          => item = other
  BY <1>1 DEF RegistryValid, Equivalent
<1> QED
  BY <1>2, <1>3 DEF RegistryValid, Equivalent, Entry

(***************************************************************************)
(* A new node beside the graph, with an edge from a lost node (AddSuffix)  *)
(* or from none (NoEdge).                                                  *)
(***************************************************************************)
NewBeside(n) ==
  /\ n \in Fresh(live \cup leaked) /\ live' = live \cup {n}
  /\ \/ next' = [next EXCEPT ![n] = NoEdges]
     \/ /\ cur \in Lost /\ ~Registered(cur)
        /\ next' = [next EXCEPT ![n] = NoEdges, ![cur][word[i + 1]] = n]
  /\ eow' = [eow EXCEPT ![n] = FALSE]
  /\ UNCHANGED <<q0, leaked, reg>>

LEMMA NewBesideKept ==
  ASSUME TypeOK, RegistryValid, NoDangling, NEW n, NewBeside(n),
         \A m \in Lost, l \in Letter : next[m][l] \in Lost \cup {NULL},
         i \in Nat, i + 1 \in 1..Len(word)
  PROVE  /\ n \in Node /\ n \notin live /\ n # NULL
         /\ next' \in [Node -> [Letter -> Node \cup {NULL}]] /\ eow' \in [Node -> BOOLEAN]
         /\ live' \subseteq Node
         /\ RegistryValid' /\ Lang' = Lang
         /\ \A m \in live', l \in Letter : next'[m][l] \in live' \cup {NULL}
         /\ Lost' = Lost \cup {n}
         /\ \A m \in Lost', l \in Letter : next'[m][l] \in Lost' \cup {NULL}
         /\ ~Registered(n)' /\ ~eow'[n]
<1>n. n \in Node /\ n \notin live /\ n # NULL
  <2>1. live \cup leaked \in SUBSET Node
    BY DEF TypeOK
  <2> QED
    BY <2>1, FreshAssumption, NullAssumption DEF NewBeside
<1>t. /\ next \in [Node -> [Letter -> Node \cup {NULL}]] /\ eow \in [Node -> BOOLEAN]
      /\ live \subseteq Node /\ word \in Seq(Letter)
  BY DEF TypeOK
<1>l. word[i + 1] \in Letter
  BY <1>t, ElementOfSeq
<1>r. Reached \subseteq live /\ Lost \subseteq live /\ Lost \cap Reached = {}
  BY DEF Lost, Reached, Reachable
<1>e. NoEdges \in [Letter -> Node \cup {NULL}] /\ \A l \in Letter : NoEdges[l] = NULL
  BY DEF NoEdges
<1>1. /\ next' \in [Node -> [Letter -> Node \cup {NULL}]] /\ eow' \in [Node -> BOOLEAN]
      /\ live' \subseteq Node /\ ~eow'[n] /\ \A m \in live : eow'[m] = eow[m]
  <2>1. next' \in [Node -> [Letter -> Node \cup {NULL}]]
    <3>1. CASE next' = [next EXCEPT ![n] = NoEdges]
      BY <3>1, <1>t, <1>e
    <3>2. CASE next' = [next EXCEPT ![n] = NoEdges, ![cur][word[i + 1]] = n]
      BY <3>2, <1>n, <1>t, <1>e
    <3> QED
      BY <3>1, <3>2 DEF NewBeside
  <2>2. eow' = [eow EXCEPT ![n] = FALSE] /\ live' = live \cup {n}
    BY DEF NewBeside
  <2>3. eow' \in [Node -> BOOLEAN] /\ ~eow'[n] /\ \A m \in live : eow'[m] = eow[m]
    BY <2>2, <1>n, <1>t
  <2> QED
    BY <2>1, <2>2, <2>3, <1>n, <1>t
<1>2. /\ \A m \in live, l \in Letter :
           next'[m][l] = next[m][l] \/ (m \in Lost /\ next'[m][l] = n)
      /\ \A l \in Letter : next'[n][l] = NULL
      /\ \A m \in live : next'[m] = next[m] \/ (m \in Lost /\ ~Registered(m))
  <2>1. CASE next' = [next EXCEPT ![n] = NoEdges]
    BY <2>1, <1>n, <1>t, <1>e
  <2>2. CASE /\ cur \in Lost /\ ~Registered(cur)
             /\ next' = [next EXCEPT ![n] = NoEdges, ![cur][word[i + 1]] = n]
    <3>1. cur \in live /\ cur # n
      BY <2>2, <1>r, <1>n
    <3>2. /\ next'[n] = NoEdges
          /\ next'[cur] = [next[cur] EXCEPT ![word[i + 1]] = n]
          /\ \A m \in live : m # cur => next'[m] = next[m]
      BY <2>2, <3>1, <1>n, <1>t
    <3>3. \A l \in Letter : next'[cur][l] = next[cur][l] \/ next'[cur][l] = n
      BY <3>1, <3>2, <1>t
    <3> QED
      BY <2>2, <3>1, <3>2, <3>3, <1>e
  <2> QED
    BY <2>1, <2>2 DEF NewBeside
<1>3. RegistryValid'
  <2>1. UNCHANGED reg /\ live \subseteq live'
    BY DEF NewBeside
  <2>2. \A m \in live : Registered(m) => next'[m] = next[m] /\ eow'[m] = eow[m]
    BY <1>1, <1>2
  <2> QED
    BY <2>1, <2>2, RegistryKept
<1>4. Reached' = Reached /\ Lang' = Lang
  <2>1. Beside
    BY <1>1, <1>2, <1>r DEF Beside, NewBeside
  <2> QED
    BY <2>1, BesideKept
<1>5. Lost' = Lost \cup {n}
  BY <1>4, <1>n, <1>r DEF Lost, NewBeside
<1>6. \A m \in live', l \in Letter : next'[m][l] \in live' \cup {NULL}
  BY <1>2 DEF NoDangling, NewBeside
<1>7. \A m \in Lost', l \in Letter : next'[m][l] \in Lost' \cup {NULL}
  BY <1>2, <1>5, <1>r
<1>8. ~Registered(n)'
  BY <1>n DEF NewBeside, Registered, RegistryValid
<1> QED
  BY <1>n, <1>1, <1>3, <1>4, <1>5, <1>6, <1>7, <1>8

-----------------------------------------------------------------------------
(***************************************************************************)
(* The steps after an edge was lost                                        *)
(***************************************************************************)

(***************************************************************************)
(* The suffix goes on from a node beside the graph.                        *)
(***************************************************************************)
LEMMA NewNodeTorn ==
  ASSUME TypeOK, RegistryValid, NoDangling,
         \A m \in Lost, l \in Letter : next[m][l] \in Lost \cup {NULL},
         pc = "suffix", i < Len(word), state # "CLOSED",
         word \in Word, LessEq(prev_word, word), word \notin Lang,
         NEW n, NewBeside(n), cur' = n, i' = i + 1,
         UNCHANGED <<reg_ready, summary, ret, pc, caller, word, stack>>
  PROVE  Torn' /\ Lang' = Lang
<1>i. i \in Nat /\ i + 1 \in 1..Len(word) /\ i + 1 \in 0..Len(word)
  BY LenProperties DEF TypeOK
<1>1. /\ n \in Node /\ n \notin live /\ n # NULL
      /\ next' \in [Node -> [Letter -> Node \cup {NULL}]] /\ eow' \in [Node -> BOOLEAN]
      /\ live' \subseteq Node
      /\ RegistryValid' /\ Lang' = Lang
      /\ \A m \in live', l \in Letter : next'[m][l] \in live' \cup {NULL}
      /\ Lost' = Lost \cup {n}
      /\ \A m \in Lost', l \in Letter : next'[m][l] \in Lost' \cup {NULL}
      /\ ~Registered(n)' /\ ~eow'[n]
  BY <1>i, NewBesideKept
<1>2. live' = live \cup {n} /\ UNCHANGED <<q0, leaked, reg>>
  BY DEF NewBeside
<1>3. TypeOK'
  BY <1>1, <1>2, <1>i DEF TypeOK, summary
<1>4. NoDangling'
  BY <1>1, <1>2 DEF NoDangling
<1>5. LostOpen'
  <2>1. cur' \in Lost' /\ ~eow'[cur'] /\ ~Registered(cur)'
    BY <1>1 DEF Registered
  <2> QED
    BY <2>1, <1>1 DEF LostOpen, summary
<1>6. Torn'
  BY <1>1, <1>3, <1>4, <1>5 DEF Torn
<1> QED
  BY <1>1, <1>6

LEMMA NoEdgeTorn ==
  ASSUME Summarized \/ Torn, NoEdge
  PROVE  Torn' /\ Lang' = Lang
<1>1. PICK n : /\ NewBeside(n) /\ cur' = n
               /\ pc = "suffix" /\ i < Len(word) /\ i' = i + 1
               /\ UNCHANGED <<reg_ready, summary, ret, pc, caller, word, stack>>
  BY DEF NoEdge, NewBeside, registry
<1>2. CASE Summarized
  <2>1. Consistent /\ InOrder
    BY <1>2 DEF Summarized
  <2>2. /\ TypeOK /\ RegistryValid /\ NoDangling /\ Lost = {} /\ caller = "add"
    BY <2>1, <1>1 DEF Consistent, NoLeak, Lost, Reached, CallState
  <2>3. word \in Word /\ LessEq(prev_word, word) /\ state # "CLOSED" /\ word \notin Lang
    BY <2>1, <2>2, <1>1, SuffixIsNew DEF InOrder
  <2> QED
    BY <2>2, <2>3, <1>1, NewNodeTorn
<1>3. CASE Torn
  BY <1>1, <1>3, NewNodeTorn DEF Torn, LostOpen
<1> QED
  BY <1>2, <1>3

LEMMA AddSuffixTorn ==
  ASSUME Torn, AddSuffix
  PROVE  Torn' /\ Lang' = Lang
<1>1. /\ pc = "suffix" /\ i < Len(word) /\ i' = i + 1
      /\ UNCHANGED <<q0, leaked, reg_ready, summary, ret, pc, caller, word, stack>>
  BY DEF AddSuffix
<1>2. cur \in Lost /\ ~Registered(cur) /\ LostOpen
  BY <1>1 DEF Torn, LostOpen
<1>3. PICK n \in Fresh(live \cup leaked) :
        /\ reg' = Rekeyed(cur, [next EXCEPT ![n] = NoEdges, ![cur][word[i + 1]] = n])
        /\ next' = [next EXCEPT ![n] = NoEdges, ![cur][word[i + 1]] = n]
        /\ eow' = [eow EXCEPT ![n] = FALSE]
        /\ live' = live \cup {n}
        /\ cur' = n
  BY DEF AddSuffix
<1>4. Entry(cur, eow, next) \notin reg
  BY <1>2 DEF Registered, Entry
<1>5. reg' = reg
  BY <1>3, <1>4 DEF Rekeyed
<1>6. NewBeside(n)
  BY <1>1, <1>2, <1>3, <1>5 DEF NewBeside
<1> QED
  BY <1>1, <1>2, <1>3, <1>6, NewNodeTorn DEF Torn, LostOpen

(***************************************************************************)
(* The marker of the word goes to a lost node, so the word is not in.      *)
(***************************************************************************)
LEMMA MarkTorn ==
  ASSUME Torn, Marks, Return(ret'), ret' \in {0, 1, DAWG_NO_MEM},
         state' = "ACTIVE", prev_word' \in {word, <<>>},
         longest_word' = IF Len(word) > longest_word THEN Len(word) ELSE longest_word
  PROVE  Torn' /\ Lang' = Lang
<1>1. /\ pc = "suffix" /\ eow' = [eow EXCEPT ![cur] = TRUE]
      /\ count' = IF eow[cur] THEN count ELSE count + 1
      /\ UNCHANGED <<q0, next, live, leaked, reg, reg_ready>>
      /\ pc' = "idle" /\ caller' = "add" /\ word' = <<>> /\ i' = 0 /\ cur' = NULL
      /\ stack' = <<>>
  BY DEF Marks, Marked, Counted, Return, registry
<1>2. cur \in Lost /\ ~Registered(cur) /\ cur \notin Reached
  BY <1>1 DEF Torn, LostOpen, Lost
<1>t. TypeOK /\ RegistryValid /\ NoDangling
  BY DEF Torn
<1>3. \A n \in live : n # cur => eow'[n] = eow[n]
  BY <1>1, <1>t DEF TypeOK
<1>4. Reached' = Reached /\ Lang' = Lang
  <2>1. Beside
    BY <1>1, <1>2, <1>3 DEF Beside, Reached, Reachable
  <2> QED
    BY <2>1, <1>t, BesideKept
<1>5. TypeOK'
  <2>1. eow' \in [Node -> BOOLEAN]
    BY <1>1, <1>t DEF TypeOK
  <2>2. count' \in Nat
    <3>1. count' = count \/ count' = count + 1
      BY <1>1, Zenon
    <3> QED
      BY <3>1, <1>t DEF TypeOK
  <2>3. longest_word' \in Nat /\ prev_word' \in Seq(Letter)
    BY <1>t, LenProperties, EmptyLocals DEF TypeOK
  <2> QED
    BY <2>1, <2>2, <2>3, <1>1, <1>t, EmptyLocals DEF TypeOK
<1>6. RegistryValid'
  BY <1>1, <1>2, <1>3, <1>t, RegistryKept
<1>7. NoDangling'
  BY <1>1, <1>t, EmptyLocals DEF NoDangling
<1>8. Lost' = Lost
  BY <1>1, <1>4 DEF Lost
<1>9. Torn'
  BY <1>1, <1>5, <1>6, <1>7, <1>8 DEF Torn
<1> QED
  BY <1>4, <1>9

-----------------------------------------------------------------------------
(***************************************************************************)
(* The calls that fail                                                     *)
(***************************************************************************)

(***************************************************************************)
(* A call that gives up, at its start or in the middle of the suffix.      *)
(***************************************************************************)
GivesUp ==
  /\ UNCHANGED <<graph, registry, summary>>
  /\ Return(DAWG_NO_MEM)

LEMMA GivesUpKept ==
  ASSUME TypeOK, RegistryValid, NoDangling, GivesUp
  PROVE  /\ TypeOK' /\ RegistryValid' /\ NoDangling'
         /\ Lang' = Lang /\ Lost' = Lost /\ pc' = "idle"
<1> USE DEF graph, registry, summary
<1>1. /\ UNCHANGED <<q0, next, eow, live, leaked, reg, reg_ready>> /\ UNCHANGED summary
      /\ ret' = DAWG_NO_MEM /\ pc' = "idle" /\ caller' = "add" /\ word' = <<>>
      /\ i' = 0 /\ cur' = NULL /\ stack' = <<>>
  BY DEF GivesUp, Return
<1>2. TypeOK'
  BY <1>1, EmptyLocals DEF TypeOK
<1>3. RegistryValid'
  BY <1>1 DEF RegistryValid, Entry, Equivalent
<1>4. NoDangling'
  BY <1>1, EmptyLocals DEF NoDangling
<1>5. Lang' = Lang /\ Lost' = Lost
  BY <1>1, SameGraphLang DEF Lost, Reached
<1> QED
  BY <1>1, <1>2, <1>3, <1>4, <1>5

LEMMA GivesUpStopped ==
  ASSUME Summarized \/ Stopped, GivesUp
  PROVE  Stopped' /\ Lang' = Lang
<1>1. TypeOK /\ RegistryValid /\ NoDangling /\ NoLeak /\ CountIsExact
  BY DEF Summarized, Consistent, Stopped
<1>2. /\ TypeOK' /\ RegistryValid' /\ NoDangling'
      /\ Lang' = Lang /\ pc' = "idle"
  BY <1>1, GivesUpKept
<1>3. NoLeak' /\ CountIsExact'
  BY <1>1, <1>2 DEF GivesUp, graph, summary, NoLeak, CountIsExact
<1> QED
  BY <1>2, <1>3 DEF Stopped

LEMMA GivesUpTorn ==
  ASSUME Torn, GivesUp
  PROVE  Torn' /\ Lang' = Lang
<1>1. TypeOK /\ RegistryValid /\ NoDangling
  BY DEF Torn
<1>2. /\ TypeOK' /\ RegistryValid' /\ NoDangling'
      /\ Lang' = Lang /\ Lost' = Lost /\ pc' = "idle"
  BY <1>1, GivesUpKept
<1> QED
  BY <1>2 DEF Torn, GivesUp, graph

(***************************************************************************)
(* A call that gives up at its start changes nothing.                      *)
(***************************************************************************)
LEMMA GivesUpAtOnce ==
  ASSUME Summarized, pc = "idle", GivesUp
  PROVE  Summarized' /\ KeepsRest /\ Lang' = Lang
<1>1. Consistent /\ InOrder /\ PathsShort /\ LongestIsWord /\ CountIsExact
  BY DEF Summarized
<1>2. UNCHANGED <<graph, registry, summary, locals>> /\ ret' = DAWG_NO_MEM
  BY <1>1 DEF GivesUp, Return, Consistent, CallState, locals
<1>3. Consistent' /\ KeepsRest
  BY <1>1, <1>2, OnlyResult
<1>4. InOrder'
  BY <1>1, <1>2 DEF InOrder, graph, summary, locals
<1>5. PathsShort' /\ LongestIsWord' /\ CountIsExact' /\ Lang' = Lang
  BY <1>1, <1>2, ReturnSummary, SameGraphLang DEF graph, summary
<1> QED
  BY <1>3, <1>4, <1>5 DEF Summarized

LEMMA StartFails ==
  ASSUME NoListToFree \/ (\E w \in Word : NoRoot(w))
  PROVE  GivesUp /\ pc = "idle" /\ UNCHANGED faults
BY DEF NoListToFree, NoRoot, GivesUp

LEMMA NodeFails ==
  ASSUME NoNode
  PROVE  GivesUp /\ pc = "suffix" /\ gaps' = gaps
         /\ failed' = IF failed = "nothing" THEN "node" ELSE failed
BY DEF NoNode, GivesUp, summary, StateAfterFailure, CountAfterFailure

(***************************************************************************)
(* The word is in, and its copy is not: the empty word needs none.         *)
(***************************************************************************)
LEMMA CopyFails ==
  ASSUME NoPreviousWord
  PROVE  /\ Marks /\ Return(ret') /\ ret' = DAWG_NO_MEM
         /\ state' = "ACTIVE" /\ prev_word' = <<>>
         /\ longest_word' = IF Len(word) > longest_word THEN Len(word) ELSE longest_word
         /\ word = <<>> => Added
         /\ gaps' = gaps
         /\ failed' = IF failed = "nothing" /\ word # <<>> THEN "previous" ELSE failed
BY DEF NoPreviousWord, Marks, Added, Return, NoPrevious

LEMMA CopyFailsStopped ==
  ASSUME Summarized, NoPreviousWord
  PROVE  Stopped'
<1>1. Consistent /\ InOrder /\ CountIsExact
  BY DEF Summarized
<1>2. /\ Marks /\ ret' = DAWG_NO_MEM /\ state' = "ACTIVE" /\ prev_word' = <<>>
      /\ longest_word' = IF Len(word) > longest_word THEN Len(word) ELSE longest_word
      /\ pc' = "idle" /\ caller' = "add" /\ word' = <<>> /\ i' = 0 /\ cur' = NULL
      /\ stack' = <<>>
  BY CopyFails DEF Return
<1>3. /\ eow' \in [Node -> BOOLEAN] /\ count' \in Nat
      /\ RegistryValid' /\ NoLeak'
  BY <1>1, <1>2, MarksKept
<1>4. UNCHANGED <<q0, next, live, leaked, reg, reg_ready>>
  BY <1>2 DEF Marks, registry
<1>5. TypeOK'
  <2>1. longest_word' \in Nat
    BY <1>1, <1>2, LenProperties DEF Consistent, TypeOK
  <2> QED
    BY <2>1, <1>1, <1>2, <1>3, <1>4, EmptyLocals DEF Consistent, TypeOK
<1>6. NoDangling'
  BY <1>1, <1>2, <1>4, EmptyLocals DEF Consistent, NoDangling
<1>7. CountIsExact'
  BY <1>1, <1>2, MarkedCount
<1> QED
  BY <1>2, <1>3, <1>5, <1>6, <1>7 DEF Stopped

(***************************************************************************)
(* A node that is not registered is taken off the tail all the same.       *)
(***************************************************************************)
LEMMA NoRegistrationKept ==
  ASSUME Summarized, NoRegistration
  PROVE  Summarized' /\ Lang' = Lang
<1> DEFINE L == Len(TailWord)
<1>c. Consistent /\ InOrder /\ PathsShort /\ LongestIsWord /\ CountIsExact
  BY DEF Summarized
<1>p. /\ pc = "minimize" /\ stack # <<>> /\ stack' = Popped
      /\ UNCHANGED <<graph, registry, summary, ret, pc, caller, word, i, cur>>
  BY DEF NoRegistration
<1>s. /\ UNCHANGED <<q0, next, eow, live, leaked, reg, reg_ready>>
      /\ UNCHANGED <<count, longest_word, state, prev_word>>
  BY <1>p DEF graph, registry, summary
<1>1. /\ q0 # NULL /\ state # "CLOSED" /\ L \in Nat /\ L > 0
      /\ Popped \in Seq(StackItem) /\ Len(Popped) = Len(stack) - 1
      /\ \A k \in 1..(Len(stack) - 1) : Popped[k] = stack[k]
  BY <1>c, <1>p, TopOfStack
<1>2. /\ Len(TailWord') = L - 1 /\ BoundWord' = prev_word
      /\ \A k \in 1..(L - 1) : TailWord'[k] = TailWord[k]
      /\ \A k \in 0..(L - 1) : TailNode'[k] = TailNode[k]
  BY <1>c, <1>p, <1>s, PoppedTail
<1>3. TypeOK'
  BY <1>c, <1>p, <1>s, <1>1 DEF Consistent, TypeOK, StackItem
<1>4. ObjectState'
  BY <1>c, <1>p, <1>s DEF Consistent, ObjectState
<1>5. CallState'
  BY <1>c, <1>p, <1>s, <1>2, PoppedCall
<1>6. RegistryValid' /\ NoLeak'
      /\ \A n \in live', l \in Letter : next'[n][l] \in live' \cup {NULL}
  BY <1>c, <1>p, <1>s, SameGraph
<1> HIDE DEF L
<1>7. TailUnshared'
  <2>1. \A k \in 0..L : TailNode[k] \in live /\ ~Registered(TailNode[k])
    BY <1>c, <1>1 DEF L, Consistent, TailUnshared
  <2>2. \A n \in live, l \in Letter, k \in 0..L :
          next[n][l] = TailNode[k] => k > 0 /\ n = TailNode[k - 1] /\ l = TailWord[k]
    BY <1>c, <1>1 DEF L, Consistent, TailUnshared
  <2>3. \A k \in 0..(L - 1) : k \in 0..L /\ (k > 0 => k - 1 \in 0..(L - 1) /\ k \in 1..(L - 1))
    BY <1>1
  <2>4. \A k \in 0..(L - 1) : TailNode'[k] \in live /\ ~Registered(TailNode'[k])
    BY <2>1, <2>3, <1>2
  <2>5. \A n \in live, l \in Letter, k \in 0..(L - 1) :
          next[n][l] = TailNode'[k] => k > 0 /\ n = TailNode'[k - 1] /\ l = TailWord'[k]
    BY <2>2, <2>3, <1>2
  <2> QED
    BY <2>4, <2>5, <1>s, <1>2 DEF TailUnshared, Registered
<1>8. TailBounds'
  <2>1. \A k \in 0..(L - 1) : k \in 0..L
    BY <1>1
  <2>2. \A k \in 0..L, l \in Letter :
          next[TailNode[k]][l] # NULL => k < Len(prev_word) /\ l <= prev_word[k + 1]
    BY <1>c, <1>p, <1>1 DEF L, Consistent, TailBounds, BoundWord
  <2> QED
    BY <2>1, <2>2, <1>p, <1>s, <1>2 DEF TailBounds
<1>9. NoDangling'
  <2>1. \A k \in 1..Len(stack') : k \in 1..Len(stack) /\ stack'[k] = stack[k]
    BY <1>c, <1>p, <1>1, LenProperties DEF Consistent, TypeOK
  <2> QED
    BY <2>1, <1>c, <1>p, <1>s, <1>6 DEF Consistent, NoDangling
<1>10. Consistent'
  BY <1>3, <1>4, <1>5, <1>6, <1>7, <1>8, <1>9 DEF Consistent
<1>11. InOrder'
  BY <1>c, <1>p, <1>s DEF InOrder
<1>12. PathsShort' /\ LongestIsWord' /\ CountIsExact' /\ Lang' = Lang
  BY <1>c, <1>p, <1>s, ReturnSummary, SameGraphLang
<1> QED
  BY <1>10, <1>11, <1>12 DEF Summarized

-----------------------------------------------------------------------------
(***************************************************************************)
(* The invariant                                                           *)
(***************************************************************************)

LEMMA CallFails ==
  ASSUME ~AddsAfterFailure, OomCall
  PROVE  \/ failed = "nothing" /\ CallButClear /\ UNCHANGED faults
         \/ Clear /\ failed' = "nothing" /\ gaps' = FALSE /\ UNCHANGED severed
<1>1. Usable => failed = "nothing"
  BY DEF Usable
<1> QED
  BY <1>1, Zenon DEF OomCall, CallButClear

LEMMA StepNeedsCall ==
  ASSUME Step
  PROVE  pc # "idle" /\ (pc = "suffix" => AddSuffix \/ EndAdd)
BY DEF Step, SkipPrefix, EndOfPrefix, Replace, Register, Minimized, AddSuffix, EndAdd,
       EndClose

LEMMA SoundFromNothing ==
  ASSUME Summarized, gaps \in BOOLEAN, gaps = FALSE => RestRegistered,
         Next, UNCHANGED faults, failed = "nothing"
  PROVE  Sound'
<1>1. Summarized'
  BY NextSummarized
<1>2. Consistent' /\ KeepsRest
  BY NextConsistent DEF Summarized
<1>3. failed' = "nothing" /\ gaps' = gaps
  BY DEF faults
<1>4. gaps' = FALSE => RestRegistered'
  BY <1>2, <1>3 DEF KeepsRest
<1> QED
  BY <1>1, <1>3, <1>4 DEF Sound

(***************************************************************************)
(* DAWG_clear makes up for all of it.                                      *)
(***************************************************************************)
LEMMA SoundAfterClear ==
  ASSUME Sound, Clear, failed' = "nothing", gaps' = FALSE
  PROVE  Sound'
<1>1. TypeOK
  BY DEF Sound, Stopped, Torn, Summarized, Consistent
<1>2. Consistent' /\ RestRegistered'
  BY <1>1, ClearConsistent
<1>3. /\ q0' = NULL /\ count' = 0 /\ longest_word' = 0
      /\ pc' = "idle" /\ caller' = "add"
  BY DEF Clear, Return
<1>4. PathsShort' /\ LongestIsWord' /\ CountIsExact' /\ InOrder'
  BY <1>3, EmptySummary DEF InOrder
<1>5. Summarized'
  BY <1>2, <1>4 DEF Summarized
<1> QED
  BY <1>2, <1>5 DEF Sound

LEMMA EndAddTorn ==
  ASSUME Torn, EndAdd
  PROVE  Torn' /\ Lang' = Lang
<1>1. Added /\ Return(ret')
  BY EndAddIsAdded DEF EndAdd, Return
<1> QED
  BY <1>1, MarkTorn DEF Added

LEMMA CopyFailsTorn ==
  ASSUME Torn, NoPreviousWord
  PROVE  Torn' /\ Lang' = Lang
BY CopyFails, MarkTorn

LEMMA SoundAfterStep ==
  ASSUME Sound, Step, UNCHANGED faults
  PROVE  Sound'
<1>s. pc # "idle" /\ (pc = "suffix" => AddSuffix \/ EndAdd)
  BY StepNeedsCall
<1>1. CASE failed = "nothing"
  BY <1>1, SoundFromNothing DEF Sound, Next
<1>2. CASE failed \in {"node", "previous"}
  BY <1>2, <1>s DEF Sound, Stopped
<1>3. CASE failed = "edge"
  <2>1. Torn /\ (AddSuffix \/ EndAdd)
    BY <1>3, <1>s DEF Sound, Torn
  <2>2. Torn'
    BY <2>1, AddSuffixTorn, EndAddTorn
  <2> QED
    BY <2>2, <1>3 DEF Sound, faults
<1> QED
  BY <1>1, <1>2, <1>3 DEF Sound

LEMMA SoundAfterFault ==
  ASSUME Sound, Fault
  PROVE  Sound'
<1>1. CASE NoListToFree \/ (\E w \in Word : NoRoot(w))
  <2>1. GivesUp /\ pc = "idle" /\ failed' = failed /\ gaps' = gaps
    BY <1>1, StartFails DEF faults
  <2>2. failed = "nothing" => Summarized' /\ (gaps' = FALSE => RestRegistered')
    BY <2>1, GivesUpAtOnce DEF Sound, KeepsRest
  <2>3. failed \in {"node", "previous"} => Stopped'
    BY <2>1, GivesUpStopped DEF Sound
  <2>4. failed = "edge" => Torn'
    BY <2>1, GivesUpTorn DEF Sound
  <2> QED
    BY <2>1, <2>2, <2>3, <2>4 DEF Sound
<1>2. CASE NoNode
  <2>1. GivesUp /\ pc = "suffix" /\ gaps' = gaps
        /\ failed' = IF failed = "nothing" THEN "node" ELSE failed
    BY <1>2, NodeFails
  <2>2. failed # "edge" => Stopped'
    BY <2>1, GivesUpStopped DEF Sound
  <2>3. failed = "edge" => Torn'
    BY <2>1, GivesUpTorn DEF Sound
  <2> QED
    BY <2>1, <2>2, <2>3 DEF Sound
<1>3. CASE NoEdge
  <2>1. failed' = "edge" /\ gaps' = gaps /\ pc = "suffix"
    BY <1>3 DEF NoEdge
  <2>2. Summarized \/ Torn
    BY <2>1 DEF Sound, Stopped
  <2>3. Torn'
    BY <1>3, <2>2, NoEdgeTorn
  <2> QED
    BY <2>1, <2>3 DEF Sound
<1>4. CASE NoPreviousWord
  <2>1. /\ gaps' = gaps /\ pc = "suffix"
        /\ failed' = IF failed = "nothing" /\ word # <<>> THEN "previous" ELSE failed
    BY <1>4, CopyFails DEF Marks
  <2>2. CASE failed = "nothing" /\ word = <<>>
    <3>1. Summarized /\ (gaps = FALSE => RestRegistered) /\ Added
      BY <1>4, <2>2, CopyFails DEF Sound
    <3>2. Consistent' /\ KeepsRest /\ InOrder'
      BY <3>1, AddedConsistent, AddedInOrder DEF Summarized
    <3>3. PathsShort' /\ LongestIsWord' /\ CountIsExact'
      BY <3>1, AddedSummary DEF Summarized
    <3> QED
      BY <2>1, <2>2, <3>1, <3>2, <3>3 DEF Sound, Summarized, KeepsRest
  <2>3. CASE failed = "nothing" /\ word # <<>>
    BY <1>4, <2>1, <2>3, CopyFailsStopped DEF Sound
  <2>4. CASE failed \in {"node", "previous"}
    BY <2>1, <2>4 DEF Sound, Stopped
  <2>5. CASE failed = "edge"
    BY <1>4, <2>1, <2>5, CopyFailsTorn DEF Sound
  <2> QED
    BY <2>2, <2>3, <2>4, <2>5 DEF Sound
<1>5. CASE NoRegistration
  <2>1. pc = "minimize" /\ failed' = failed /\ gaps' = TRUE
    BY <1>5 DEF NoRegistration
  <2>2. failed = "nothing" /\ Summarized
    BY <2>1 DEF Sound, Stopped, Torn
  <2>3. Summarized'
    BY <1>5, <2>2, NoRegistrationKept
  <2> QED
    BY <2>1, <2>2, <2>3 DEF Sound
<1> QED
  BY <1>1, <1>2, <1>3, <1>4, <1>5 DEF Fault

LEMMA SoundKept ==
  ASSUME Sound, UNCHANGED oomVars
  PROVE  Sound'
<1>1. UNCHANGED vars /\ failed' = failed /\ gaps' = gaps
  BY DEF oomVars, faults
<1>2. UNCHANGED <<q0, next, eow, live, leaked, reg, reg_ready>>
      /\ UNCHANGED <<count, longest_word, state, prev_word, ret>>
      /\ UNCHANGED <<pc, caller, word, i, cur, stack>>
  BY <1>1 DEF vars, graph, registry, summary, locals
<1>3. failed = "nothing" => Summarized' /\ (gaps' = FALSE => RestRegistered')
  <2>1. Summarized => Summarized' /\ KeepsRest
    BY <1>1, NextSummarized, NextConsistent DEF Summarized
  <2> QED
    BY <2>1, <1>1 DEF Sound, KeepsRest
<1>4. Lang' = Lang /\ Lost' = Lost
  BY <1>2, SameGraphLang DEF Lost, Reached
<1>5. TypeOK /\ RegistryValid /\ NoDangling => TypeOK' /\ RegistryValid' /\ NoDangling'
  BY <1>2 DEF TypeOK, RegistryValid, NoDangling, Entry, Equivalent
<1>6. Stopped => Stopped'
  BY <1>2, <1>4, <1>5 DEF Stopped, NoLeak, CountIsExact
<1>7. Torn => Torn'
  BY <1>2, <1>4, <1>5 DEF Torn, LostOpen, Registered
<1> QED
  BY <1>1, <1>3, <1>6, <1>7 DEF Sound

LEMMA NextSound ==
  ASSUME ~AddsAfterFailure, Sound, [OomNext]_oomVars
  PROVE  Sound'
<1>1. CASE OomCall
  <2>1. CASE failed = "nothing" /\ CallButClear /\ UNCHANGED faults
    <3>1. Next
      BY <2>1 DEF CallButClear, Next, Call
    <3> QED
      BY <2>1, <3>1, SoundFromNothing DEF Sound
  <2>2. CASE Clear /\ failed' = "nothing" /\ gaps' = FALSE /\ UNCHANGED severed
    BY <2>2, SoundAfterClear
  <2> QED
    BY <1>1, <2>1, <2>2, CallFails
<1>2. CASE Step /\ UNCHANGED faults
  BY <1>2, SoundAfterStep
<1>3. CASE Fault
  BY <1>3, SoundAfterFault
<1>4. CASE UNCHANGED oomVars
  BY <1>4, SoundKept
<1> QED
  BY <1>1, <1>2, <1>3, <1>4, Zenon DEF OomNext

LEMMA InitSound ==
  ASSUME OomInit
  PROVE  Sound
<1>1. Summarized
  BY InitSummarized DEF OomInit
<1>2. RestRegistered
  BY DEF OomInit, Init, RestRegistered
<1> QED
  BY <1>1, <1>2 DEF OomInit, Sound

LEMMA AlwaysSound ==
  ASSUME ~AddsAfterFailure
  PROVE  OomSpec => []Sound
<1>1. OomInit => Sound
  BY InitSound
<1>2. Sound /\ [OomNext]_oomVars => Sound'
  BY NextSound
<1> QED
  BY <1>1, <1>2, PTL DEF OomSpec

(***************************************************************************)
(* Only DAWG_clear makes nodes leak, and it finds all that no edge lost.   *)
(***************************************************************************)
LEMMA LeakedKept ==
  ASSUME Step \/ Fault \/ CallButClear
  PROVE  UNCHANGED leaked
<1> USE DEF graph
<1>1. CASE Step
  <2>1. CASE SkipPrefix \/ EndOfPrefix \/ Minimized
    BY <2>1 DEF SkipPrefix, EndOfPrefix, Minimized
  <2>2. CASE Replace \/ Register
    BY <2>2 DEF Replace, Register
  <2>3. CASE AddSuffix \/ EndAdd \/ EndClose
    BY <2>3 DEF AddSuffix, EndAdd, EndClose
  <2> QED
    BY <1>1, <2>1, <2>2, <2>3, Zenon DEF Step
<1>2. CASE Fault
  BY <1>2 DEF Fault, NoListToFree, NoRoot, NoNode, NoEdge, NoPreviousWord, NoRegistration
<1>3. CASE CallButClear
  <2>1. ASSUME NEW w \in Word, AddWord(w)
        PROVE  UNCHANGED leaked
    BY <2>1 DEF AddWord
  <2>2. CASE Close \/ CloseNothing \/ \E w \in Word : RejectLess(w) \/ RejectFrozen(w)
    BY <2>2 DEF Close, CloseNothing, RejectLess, RejectFrozen
  <2> QED
    BY <1>3, <2>1, <2>2, Zenon DEF CallButClear
<1> QED
  BY <1>1, <1>2, <1>3

LEMMA FaultSevers ==
  ASSUME Fault
  PROVE  \/ UNCHANGED severed /\ (failed' = "edge" => failed = "edge")
         \/ severed' = TRUE
BY DEF Fault, NoListToFree, NoRoot, NoNode, NoEdge, NoPreviousWord, NoRegistration, faults

LEMMA NextLeaksSevered ==
  ASSUME ~AddsAfterFailure, Sound, LeaksSevered, [OomNext]_oomVars
  PROVE  LeaksSevered'
<1>1. CASE (Step \/ CallButClear) /\ UNCHANGED faults
  BY <1>1, LeakedKept DEF LeaksSevered, faults
<1>2. CASE Fault
  BY <1>2, LeakedKept, FaultSevers DEF LeaksSevered
<1>3. CASE Clear /\ failed' = "nothing" /\ gaps' = FALSE /\ UNCHANGED severed
  <2>1. leaked' = leaked \cup (live \ Reachable(next, q0, live))
    BY <1>3 DEF Clear
  <2>2. ASSUME severed = FALSE
        PROVE  leaked' = {}
    <3>1. failed # "edge" /\ leaked = {}
      BY <2>2 DEF LeaksSevered
    <3>2. NoLeak
      BY <3>1 DEF Sound, Stopped, Summarized, Consistent
    <3> QED
      BY <3>1, <3>2, <2>1 DEF NoLeak
  <2> QED
    BY <1>3, <2>2 DEF LeaksSevered
<1>4. CASE UNCHANGED oomVars
  BY <1>4 DEF LeaksSevered, oomVars, faults, vars, graph
<1> QED
  BY <1>1, <1>2, <1>3, <1>4, CallFails, Zenon DEF OomNext

LEMMA AlwaysLeaksSevered ==
  ASSUME ~AddsAfterFailure
  PROVE  OomSpec => []LeaksSevered
<1>1. OomInit => LeaksSevered
  BY DEF OomInit, Init, LeaksSevered
<1>2. Sound /\ LeaksSevered /\ [OomNext]_oomVars => LeaksSevered'
  BY NextLeaksSevered
<1> QED
  BY <1>1, <1>2, AlwaysSound, PTL DEF OomSpec

-----------------------------------------------------------------------------
(***************************************************************************)
(* The theorems                                                            *)
(***************************************************************************)

(***************************************************************************)
(* Whatever malloc refused, DAWG_exists, an iterator and DAWG_clear find   *)
(* no pointer to a freed node and no stale item in the registry, and only  *)
(* a failed edge makes nodes leak.                                         *)
(***************************************************************************)
THEOREM AlwaysReadable ==
  ASSUME ~AddsAfterFailure
  PROVE  OomSpec => []ReadableAfterFailure
<1>1. Sound /\ LeaksSevered => ReadableAfterFailure
  BY DEF Sound, Stopped, Torn, Summarized, Consistent, LeaksSevered, ReadableAfterFailure
<1> QED
  BY <1>1, AlwaysSound, AlwaysLeaksSevered, PTL

(***************************************************************************)
(* After any failure, also one nobody noticed, and DAWG_clear all that the *)
(* construction relies on holds again, and goes on to hold.                *)
(***************************************************************************)
THEOREM ClearRecovers ==
  ASSUME ~AddsAfterFailure
  PROVE  OomSpec => []RecoveredByClear
<1>1. Sound => RecoveredByClear
  BY DEF Sound, Summarized, Consistent, RecoveredByClear, UnsharedTail
<1> QED
  BY <1>1, AlwaysSound, PTL

(***************************************************************************)
(* count is the number of words after every failure that is reported.      *)
(***************************************************************************)
THEOREM CountSurvives ==
  ASSUME ~AddsAfterFailure
  PROVE  OomSpec => []CountExact
<1>1. Sound => CountExact
  BY DEF Sound, Stopped, Summarized, CountIsExact, CountExact
<1> QED
  BY <1>1, AlwaysSound, PTL

-----------------------------------------------------------------------------
(***************************************************************************)
(* The set a client sees                                                   *)
(***************************************************************************)

LEMMA ClientIsFallible ==
  ASSUME Client!Operate
  PROVE  FallibleClient!Operate
BY DEF Client!Operate, Client!Add, Client!RejectLess, Client!RejectFrozen, Client!Close,
       Client!CloseNothing, Client!LessEq, Client!Less, Client!AgreeBelow,
       FallibleClient!Operate, FallibleClient!Add, FallibleClient!RejectLess,
       FallibleClient!RejectFrozen, FallibleClient!Close, FallibleClient!CloseNothing,
       FallibleClient!LessEq, FallibleClient!Less, FallibleClient!AgreeBelow

LEMMA SameOrder ==
  ASSUME NEW s, NEW t, LessEq(s, t)
  PROVE  FallibleClient!LessEq(s, t)
BY DEF LessEq, Less, AgreeBelow, FallibleClient!LessEq, FallibleClient!Less,
       FallibleClient!AgreeBelow

(***************************************************************************)
(* What the client does not see.                                           *)
(***************************************************************************)
Unnoticed ==
  /\ UNCHANGED <<state, prev_word, ret>> /\ Lang' = Lang
  /\ failed' = "edge" <=> failed = "edge"

LEMMA FaultIsClient ==
  ASSUME Sound, Fault
  PROVE  FallibleClient!FallibleNext \/ Unnoticed
<1>1. ASSUME GivesUp, Lang' = Lang, failed' = "edge" <=> failed = "edge"
      PROVE  FallibleClient!FallibleNext
  <2>1. ret' = -1 /\ UNCHANGED <<state, prev_word>>
    BY <1>1 DEF GivesUp, Return, DAWG_NO_MEM, summary
  <2>2. (failed' = "edge") = (failed = "edge")
    BY <1>1
  <2>3. FallibleClient!Fail
    BY <1>1, <2>1, <2>2 DEF FallibleClient!Fail
  <2> QED
    BY <2>3 DEF FallibleClient!FallibleNext
<1>2. CASE NoListToFree \/ (\E w \in Word : NoRoot(w))
  <2>1. GivesUp /\ failed' = failed
    BY <1>2, StartFails DEF faults
  <2>2. Lang' = Lang
    BY <2>1, SameGraphLang DEF GivesUp, graph
  <2> QED
    BY <2>1, <2>2, <1>1
<1>3. CASE NoNode
  <2>1. GivesUp /\ failed' = IF failed = "nothing" THEN "node" ELSE failed
    BY <1>3, NodeFails
  <2>2. Lang' = Lang
    BY <2>1, SameGraphLang DEF GivesUp, graph
  <2> QED
    BY <2>1, <2>2, <1>1
<1>4. CASE NoEdge
  <2>1. failed' = "edge" /\ pc = "suffix" /\ UNCHANGED <<state, prev_word, ret>>
    BY <1>4 DEF NoEdge, summary
  <2>2. Summarized \/ Torn
    BY <2>1 DEF Sound, Stopped
  <2>3. Lang' = Lang
    BY <1>4, <2>2, NoEdgeTorn
  <2>4. FallibleClient!Lose
    BY <2>1, <2>3 DEF FallibleClient!Lose, FallibleClient!vars
  <2> QED
    BY <2>4 DEF FallibleClient!FallibleNext
<1>5. CASE NoPreviousWord
  <2>1. /\ Marks /\ ret' = -1 /\ state' = "ACTIVE" /\ prev_word' = <<>> /\ pc = "suffix"
        /\ failed' = IF failed = "nothing" /\ word # <<>> THEN "previous" ELSE failed
    BY <1>5, CopyFails DEF DAWG_NO_MEM, Marks
  <2>2. failed \in {"nothing", "edge"}
    BY <2>1 DEF Sound, Stopped
  <2>3. CASE failed = "nothing"
    <3>1. /\ word \in Word /\ LessEq(prev_word, word) /\ state # "CLOSED"
          /\ Lang' = Lang \cup {word}
      BY <2>1, <2>3, MarkedLang DEF Sound, Summarized
    <3>2. (failed' = "edge") = (failed = "edge")
      BY <2>1, <2>3
    <3>3. FallibleClient!FailButAdd(word)
      BY <2>1, <3>1, <3>2, SameOrder DEF FallibleClient!FailButAdd
    <3> QED
      BY <3>1, <3>3 DEF FallibleClient!FallibleNext
  <2>4. CASE failed = "edge"
    <3>1. /\ word \in Word /\ LessEq(prev_word, word) /\ state # "CLOSED"
          /\ word \notin Lang /\ Lang' = Lang
      BY <1>5, <2>1, <2>4, CopyFailsTorn DEF Sound, Torn, LostOpen
    <3>2. failed' = "edge"
      BY <2>1, <2>4
    <3>3. FallibleClient!AddNothing(word)
      BY <2>1, <2>4, <3>1, <3>2, SameOrder DEF FallibleClient!AddNothing
    <3> QED
      BY <3>1, <3>3 DEF FallibleClient!FallibleNext
  <2> QED
    BY <2>2, <2>3, <2>4
<1>6. CASE NoRegistration
  <2>1. UNCHANGED <<graph, summary, ret, failed>>
    BY <1>6 DEF NoRegistration
  <2> QED
    BY <2>1, SameGraphLang DEF Unnoticed, graph, summary
<1> QED
  BY <1>2, <1>3, <1>4, <1>5, <1>6 DEF Fault

LEMMA StepIsOperation ==
  ASSUME Summarized, CallButClear \/ Step, failed' = "edge" <=> failed = "edge"
  PROVE  FallibleClient!FallibleNext \/ Unnoticed
<1>1. Client!Operate \/ UNCHANGED <<Lang, state, prev_word, ret>>
  BY StepOperates DEF Summarized
<1>2. (failed' = "edge") = (failed = "edge")
  OBVIOUS
<1>3. CASE Client!Operate
  <2>1. FallibleClient!Operate
    BY <1>3, ClientIsFallible
  <2> QED
    BY <2>1, <1>2, Zenon DEF FallibleClient!FallibleNext
<1>4. CASE UNCHANGED <<Lang, state, prev_word, ret>>
  BY <1>4 DEF Unnoticed
<1> QED
  BY <1>1, <1>3, <1>4

LEMMA StepIsFallible ==
  ASSUME Sound, Step, UNCHANGED faults
  PROVE  FallibleClient!FallibleNext \/ Unnoticed
<1>1. pc # "idle" /\ (pc = "suffix" => AddSuffix \/ EndAdd) /\ failed' = failed
  BY StepNeedsCall DEF faults
<1>2. failed \in {"nothing", "edge"}
  BY <1>1 DEF Sound, Stopped
<1>3. CASE failed = "nothing"
  BY <1>1, <1>3, StepIsOperation DEF Sound
<1>4. ASSUME failed = "edge", AddSuffix
      PROVE  Unnoticed
  <2>1. Lang' = Lang
    BY <1>4, AddSuffixTorn DEF Sound
  <2> QED
    BY <2>1, <1>1, <1>4 DEF AddSuffix, summary, Unnoticed
<1>5. ASSUME failed = "edge", EndAdd
      PROVE  FallibleClient!FallibleNext
  <2>1. /\ word \in Word /\ LessEq(prev_word, word) /\ state # "CLOSED"
        /\ word \notin Lang /\ Lang' = Lang /\ ~eow[cur]
    <3>1. Torn /\ pc = "suffix"
      BY <1>5 DEF Sound, EndAdd
    <3> QED
      BY <3>1, <1>5, EndAddTorn DEF Torn, LostOpen
  <2>2. ret' = 1 /\ prev_word' = word /\ state' = "ACTIVE"
    BY <2>1, <1>5 DEF EndAdd, Return
  <2>3. FallibleClient!AddNothing(word)
    BY <2>1, <2>2, <1>1, <1>5, SameOrder DEF FallibleClient!AddNothing
  <2> QED
    BY <2>1, <2>3 DEF FallibleClient!FallibleNext
<1> QED
  BY <1>1, <1>2, <1>3, <1>4, <1>5 DEF Sound, Torn

LEMMA OomStepIsClient ==
  ASSUME ~AddsAfterFailure, Sound, [OomNext]_oomVars
  PROVE  FallibleClient!FallibleNext \/ Unnoticed
<1>1. CASE OomCall
  <2>1. CASE failed = "nothing" /\ CallButClear /\ UNCHANGED faults
    <3>1. Summarized /\ failed' = failed
      BY <2>1 DEF Sound, faults
    <3> QED
      BY <2>1, <3>1, StepIsOperation
  <2>2. CASE Clear /\ failed' = "nothing" /\ gaps' = FALSE /\ UNCHANGED severed
    <3>1. (failed' = "edge") = FALSE
      BY <2>2
    <3>2. FallibleClient!Clear
      BY <2>2, NoRootLang DEF Clear, Return, NoPrevious, FallibleClient!Clear
    <3> QED
      BY <3>1, <3>2, Zenon DEF FallibleClient!FallibleNext
  <2> QED
    BY <1>1, <2>1, <2>2, CallFails
<1>2. CASE Step /\ UNCHANGED faults
  BY <1>2, StepIsFallible
<1>3. CASE Fault
  BY <1>3, FaultIsClient
<1>4. CASE UNCHANGED oomVars
  <2>1. UNCHANGED <<q0, next, eow, state, prev_word, ret, failed>>
    BY <1>4 DEF oomVars, faults, vars, graph, summary
  <2> QED
    BY <2>1, SameGraphLang DEF Unnoticed
<1> QED
  BY <1>1, <1>2, <1>3, <1>4, Zenon DEF OomNext

(***************************************************************************)
(* A call that returns DAWG_NO_MEM has left the words as they were, but    *)
(* for the one that could not copy its word; and only an edge that was not *)
(* stored makes a call lie.                                                *)
(***************************************************************************)
THEOREM FallibleSetImplemented ==
  ASSUME ~AddsAfterFailure
  PROVE  OomSpec => ImplementsFallibleSet
<1>1. Sound /\ [OomNext]_oomVars
        => [FallibleClient!FallibleNext]_(<<<<Lang, state, prev_word, ret>>, failed = "edge">>)
  <2> SUFFICES ASSUME Sound, [OomNext]_oomVars
               PROVE  \/ FallibleClient!FallibleNext
                      \/ UNCHANGED <<<<Lang, state, prev_word, ret>>, failed = "edge">>
    OBVIOUS
  <2>1. FallibleClient!FallibleNext \/ Unnoticed
    BY OomStepIsClient
  <2>2. Unnoticed => UNCHANGED <<<<Lang, state, prev_word, ret>>, failed = "edge">>
    BY DEF Unnoticed
  <2> QED
    BY <2>1, <2>2, Zenon
<1>2. OomInit => FallibleClient!Init /\ (failed = "edge") = FALSE
  BY NoRootLang DEF OomInit, Init, FallibleClient!Init
<1> QED
  BY <1>1, <1>2, AlwaysSound, PTL
  DEF OomSpec, ImplementsFallibleSet, FallibleClient!FallibleSpec,
      FallibleClient!fallibleVars, FallibleClient!vars
=============================================================================
