----------------------------- MODULE FilesProof -----------------------------
(***************************************************************************)
(* Proofs about Files.  For every image, every set of paths, and any       *)
(* numbers of descriptors and processes: the path walk of fs/util.c finds  *)
(* what the tree of files has under that path, and descriptors are kept.   *)
(***************************************************************************)
EXTENDS Files, NaturalsLemmas, FiniteSetTheorems, SequenceTheorems, TLAPS

-----------------------------------------------------------------------------
(***************************************************************************)
(* The inductive invariant.                                                *)
(***************************************************************************)

\* What the data of a hash map may be.
Entries == UNION {[fds -> Nodes] : fds \in SUBSET (0..MaxFd)}
HashMaps == [data : Nat, num : Nat, cap : Nat \ {0}, next : 0..(MaxFd + 1)]

Types ==
  /\ pids \in 1..MaxPid
  /\ procs \in [DOMAIN procs -> HashMaps] /\ DOMAIN procs \subseteq 1..pids
  /\ data \in [DOMAIN data -> Entries] /\ IsFiniteSet(DOMAIN data)
  /\ opened \in [DOMAIN opened -> Entries] /\ DOMAIN opened \subseteq DOMAIN procs
  /\ stopped \in {"no", "halted", "freed data", "endless probe"}

\* The map of a process that may count on it: its data is there, and it has
\* as many entries as the process believes, at most half of its slots.
KeptBy(p) ==
  /\ procs[p].data \in DOMAIN data
  /\ data[procs[p].data] = opened[p]
  /\ procs[p].num = Cardinality(DOMAIN opened[p])
  /\ 2 * procs[p].num <= procs[p].cap

\* The first process numbers its descriptors upwards.
FirstCounts == 1 \in DOMAIN opened => \A fd \in DOMAIN opened[1] : fd < procs[1].next

IInv ==
  /\ Types
  /\ Running => (\A p \in DOMAIN opened : KeptBy(p)) /\ FirstCounts
  /\ NoWildCall

-----------------------------------------------------------------------------
(***************************************************************************)
(* The path walk.                                                          *)
(***************************************************************************)

Files(name) == {i \in 1..Len(Image) : Image[i].name = name}

\* The first file of a name.
LEMMA FirstFile ==
  ASSUME NEW name
  PROVE  \/ Files(name) = {} /\ initrd_lookup(name) = NoNode
         \/ \E i \in Files(name) : /\ \A j \in Files(name) : i <= j
                                   /\ initrd_lookup(name) = Node("initrd", i)
<1>1. CASE Files(name) = {}
  BY <1>1 DEF Files, initrd_lookup
<1>2. CASE Files(name) # {}
  <2>1. Files(name) \subseteq Nat
    BY DEF Files
  <2>2. \E i \in Files(name) : \A j \in Files(name) : i <= j
    BY <1>2, <2>1, LeastNatural
  <2>3. PICK i : i = CHOOSE k \in Files(name) : \A j \in Files(name) : k <= j
    OBVIOUS
  <2>4. i \in Files(name) /\ \A j \in Files(name) : i <= j
    BY <2>2, <2>3
  <2>5. initrd_lookup(name) = Node("initrd", i)
    BY <1>2, <2>3 DEF initrd_lookup, Files
  <2> QED
    BY <2>4, <2>5
<1> QED
  BY <1>1, <1>2

Leaves == {Screen, Keyboard, NoNode} \cup {Node("initrd", i) : i \in 1..Len(Image)}

\* Only directories have a lookup function.
LEMMA LookupFacts ==
  ASSUME NEW name
  PROVE  /\ vfs_lookup(Root, name) = vfs_root_lookup(name)
         /\ vfs_lookup(Node("dev", 0), name) = dev_lookup(name)
         /\ vfs_lookup(Node("initrd", 0), name) = initrd_lookup(name)
         /\ \A leaf \in Leaves : vfs_lookup(leaf, name) = NoNode
<1>1. vfs_lookup(Root, name) = vfs_root_lookup(name)
  BY DEF vfs_lookup, Root, Node
<1>2. vfs_lookup(Node("dev", 0), name) = dev_lookup(name)
  BY DEF vfs_lookup, Root, Node
<1>3. vfs_lookup(Node("initrd", 0), name) = initrd_lookup(name)
  BY DEF vfs_lookup, Root, Node
<1>4. ASSUME NEW leaf \in Leaves PROVE vfs_lookup(leaf, name) = NoNode
  <2>1. leaf # Root /\ leaf # Node("dev", 0) /\ leaf # Node("initrd", 0)
    BY DEF Leaves, Screen, Keyboard, NoNode, Root, Node
  <2> QED
    BY <2>1 DEF vfs_lookup
<1> QED
  BY <1>1, <1>2, <1>3, <1>4

\* Two names lead to what has no names below it.
LEMMA TwoDeep ==
  ASSUME NEW a, NEW b
  PROVE  vfs_lookup(vfs_lookup(Root, a), b) \in Leaves
<1>1. NoNode \in Leaves /\ Screen \in Leaves /\ Keyboard \in Leaves
  BY DEF Leaves
<1>2. vfs_lookup(Root, a) = IF a \in {"initrd", "dev"} THEN Node(a, 0) ELSE NoNode
  BY LookupFacts DEF vfs_root_lookup
<1>3. CASE a = "dev"
  <2>1. vfs_lookup(vfs_lookup(Root, a), b) = dev_lookup(b)
    BY <1>2, <1>3, LookupFacts
  <2> QED
    BY <1>1, <2>1 DEF dev_lookup
<1>4. CASE a = "initrd"
  <2>1. vfs_lookup(vfs_lookup(Root, a), b) = initrd_lookup(b)
    BY <1>2, <1>4, LookupFacts
  <2> QED
    BY <1>1, <2>1, FirstFile DEF Leaves, Files
<1>5. CASE a \notin {"initrd", "dev"}
  BY <1>1, <1>2, <1>5, LookupFacts
<1> QED
  BY <1>3, <1>4, <1>5

\* Where n names lead, of which a is the first and b the second.
Reached(n, a, b) ==
  IF n = 0 THEN Root
  ELSE IF n = 1 THEN vfs_lookup(Root, a)
  ELSE IF n = 2 THEN vfs_lookup(vfs_lookup(Root, a), b)
  ELSE NoNode

\* Reached is a solution of the walk's equation, for the next name c.
LEMMA ReachedNext ==
  ASSUME NEW n \in Nat \ {0}, NEW a, NEW b, NEW c, n = 1 => c = a, n = 2 => c = b
  PROVE  Reached(n, a, b) = vfs_lookup(Reached(n - 1, a, b), c)
<1>1. CASE n = 1
  BY <1>1 DEF Reached
<1>2. CASE n = 2
  BY <1>2 DEF Reached
<1>3. CASE n = 3
  BY <1>3, TwoDeep, LookupFacts DEF Reached
<1>4. CASE n > 3
  <2>1. Reached(n, a, b) = NoNode /\ Reached(n - 1, a, b) = NoNode /\ NoNode \in Leaves
    BY <1>4 DEF Reached, Leaves
  <2> QED
    BY <2>1, LookupFacts
<1> QED
  BY <1>1, <1>2, <1>3, <1>4

\* The walk: it is what its recursive definition says, which has a solution,
\* and that is Reached.
LEMMA WalkFacts ==
  ASSUME NEW names \in Seq(STRING)
  PROVE  \A n \in 0..Len(names) : Walk(names)[n] = Reached(n, names[1], names[2])
<1> DEFINE L == Len(names)
           E(f) == [n \in 0..L |-> IF n = 0 THEN Root ELSE vfs_lookup(f[n - 1], names[n])]
           g == [n \in 0..L |-> Reached(n, names[1], names[2])]
           w == Walk(names)
<1>1. L \in Nat
  OBVIOUS
<1>2. g = E(g)
  <2>1. ASSUME NEW n \in 0..L
        PROVE  Reached(n, names[1], names[2]) = IF n = 0 THEN Root ELSE vfs_lookup(g[n - 1], names[n])
    <3>1. CASE n = 0
      BY <3>1 DEF Reached
    <3>2. CASE n # 0
      <4>1. n \in Nat \ {0} /\ n - 1 \in 0..L
        BY <1>1, <3>2
      <4>2. g[n - 1] = Reached(n - 1, names[1], names[2])
        BY <4>1
      <4>3. Reached(n, names[1], names[2]) = vfs_lookup(Reached(n - 1, names[1], names[2]), names[n])
        BY <4>1, ReachedNext
      <4> QED
        BY <3>2, <4>2, <4>3
    <3> QED
      BY <3>1, <3>2
  <2> QED
    BY <2>1
<1>3. w = CHOOSE f : f = E(f)
  BY DEF Walk
<1>4. w = E(w)
  <2> HIDE DEF E, g, w
  <2> QED
    BY <1>2, <1>3
<1>5. \A n \in 0..L : w[n] = IF n = 0 THEN Root ELSE vfs_lookup(w[n - 1], names[n])
  <2> HIDE DEF w
  <2> QED
    BY <1>4
<1> HIDE DEF w, g, E, L
<1> DEFINE S == {n \in Nat : n <= L => w[n] = Reached(n, names[1], names[2])}
<1>6. 0 \in S
  BY <1>1, <1>5 DEF Reached
<1>7. ASSUME NEW n \in Nat, n \in S PROVE n + 1 \in S
  <2> SUFFICES ASSUME n + 1 <= L PROVE w[n + 1] = Reached(n + 1, names[1], names[2])
    OBVIOUS
  <2>1. n + 1 \in 0..L /\ n + 1 # 0 /\ (n + 1) - 1 = n /\ n <= L /\ n + 1 \in Nat \ {0}
    BY <1>1
  <2>2. w[n + 1] = vfs_lookup(w[n], names[n + 1]) /\ w[n] = Reached(n, names[1], names[2])
    BY <1>5, <1>7, <2>1
  <2>3. Reached(n + 1, names[1], names[2])
          = vfs_lookup(Reached((n + 1) - 1, names[1], names[2]), names[n + 1])
    BY <2>1, ReachedNext
  <2> QED
    BY <2>1, <2>2, <2>3
<1>8. \A n \in Nat : n \in S
  <2> HIDE DEF S
  <2> QED
    BY <1>6, <1>7, SetInduction
<1> QED
  BY <1>1, <1>8 DEF w, L

\* Short sequences.
LEMMA ShortNames ==
  ASSUME NEW ns \in Seq(STRING)
  PROVE  /\ Len(ns) \in Nat
         /\ Len(ns) = 0 => ns = <<>>
         /\ Len(ns) = 1 => ns = <<ns[1]>>
         /\ Len(ns) = 2 => ns = <<ns[1], ns[2]>>
         /\ \A i \in 1..Len(ns) : ns[i] \in STRING
<1>1. Len(ns) \in Nat /\ \A i \in 1..Len(ns) : ns[i] \in STRING
  OBVIOUS
<1>2. Len(ns) = 0 => ns = <<>>
  BY EmptySeq
<1>3. ASSUME Len(ns) = 1 PROVE ns = <<ns[1]>>
  <2>1. ns[1] \in STRING
    BY <1>1, <1>3
  <2>2. <<ns[1]>> \in Seq(STRING) /\ Len(<<ns[1]>>) = 1 /\ <<ns[1]>>[1] = ns[1]
    BY <2>1
  <2>3. \A i \in 1..Len(ns) : ns[i] = <<ns[1]>>[i]
    BY <1>3, <2>2
  <2> QED
    BY <1>3, <2>2, <2>3, SeqEqual
<1>4. ASSUME Len(ns) = 2 PROVE ns = <<ns[1], ns[2]>>
  <2>1. ns[1] \in STRING /\ ns[2] \in STRING
    BY <1>1, <1>4
  <2> DEFINE t == <<ns[1], ns[2]>>
  <2>2. t \in Seq(STRING) /\ Len(t) = 2 /\ t[1] = ns[1] /\ t[2] = ns[2]
    BY <2>1
  <2> HIDE DEF t
  <2>3. \A i \in 1..Len(ns) : ns[i] = t[i]
    BY <1>4, <2>2
  <2>4. ns = t
    BY <1>4, <2>2, <2>3, SeqEqual
  <2> QED
    BY <2>4 DEF t
<1> QED
  BY <1>1, <1>2, <1>3, <1>4

\* File i is the one its name leads to.
First(i) == \A j \in 1..i - 1 : Image[j].name # Image[i].name

\* The entries of the tree, by length.
LEMMA TreeEntries ==
  ASSUME NEW e
  PROVE  e \in Tree <=>
           \/ e = <<<<>>, Root>>
           \/ e = <<<<"initrd">>, Node("initrd", 0)>>
           \/ e = <<<<"dev">>, Node("dev", 0)>>
           \/ e = <<<<"dev", "screen">>, Screen>>
           \/ e = <<<<"dev", "keyboard">>, Keyboard>>
           \/ \E i \in 1..Len(Image) : First(i) /\ e = <<<<"initrd", Image[i].name>>, Node("initrd", i)>>
BY DEF Tree, First

\* The entries for some names.
Under(ns) == {e \in Tree : e[1] = ns}

\* The reference tree has under the names what they lead to, and nothing when
\* they lead nowhere.
LEMMA TreeIsReached ==
  ASSUME NEW ns \in Seq(STRING), NEW x, x = Reached(Len(ns), ns[1], ns[2])
  PROVE  Under(ns) = IF x = NoNode THEN {} ELSE {<<ns, x>>}
<1> USE ShortNames, TreeEntries, LookupFacts
<1>1. Root # NoNode /\ Screen # NoNode /\ Keyboard # NoNode /\ \A fs \in {"initrd", "dev"} : \A i \in Nat : Node(fs, i) # NoNode
  BY DEF Root, Screen, Keyboard, NoNode, Node
<1>2. CASE Len(ns) = 0
  <2>1. ns = <<>> /\ x = Root
    BY <1>2 DEF Reached
  <2>2. \A e : e \in Tree /\ e[1] = <<>> <=> e = <<<<>>, Root>>
    OBVIOUS
  <2> QED
    BY <1>1, <2>1, <2>2 DEF Under
<1>3. CASE Len(ns) = 1
  <2>1. ns = <<ns[1]>> /\ x = IF ns[1] \in {"initrd", "dev"} THEN Node(ns[1], 0) ELSE NoNode
    BY <1>3 DEF Reached, vfs_root_lookup
  <2>2. ASSUME NEW a
        PROVE \A e : e \in Tree /\ e[1] = <<a>> <=>
                  a \in {"initrd", "dev"} /\ e = <<<<a>>, Node(a, 0)>>
    <3> SUFFICES ASSUME NEW e
                 PROVE  e \in Tree /\ e[1] = <<a>> <=>
                          a \in {"initrd", "dev"} /\ e = <<<<a>>, Node(a, 0)>>
      OBVIOUS
    <3>1. ASSUME a \in {"initrd", "dev"}, e = <<<<a>>, Node(a, 0)>>
          PROVE  e \in Tree /\ e[1] = <<a>>
      BY <3>1, TreeEntries
    <3>2. ASSUME e \in Tree, e[1] = <<a>>
          PROVE  a \in {"initrd", "dev"} /\ e = <<<<a>>, Node(a, 0)>>
      <4>1. Len(e[1]) = 1 /\ e[1][1] = a
        BY ONLY <3>2
      <4>2. CASE e = <<<<>>, Root>>
        BY ONLY <4>1, <4>2
      <4>3. CASE e = <<<<"initrd">>, Node("initrd", 0)>>
        BY ONLY <4>1, <4>3
      <4>4. CASE e = <<<<"dev">>, Node("dev", 0)>>
        BY ONLY <4>1, <4>4
      <4>5. CASE e = <<<<"dev", "screen">>, Screen>>
        BY ONLY <4>1, <4>5
      <4>6. CASE e = <<<<"dev", "keyboard">>, Keyboard>>
        BY ONLY <4>1, <4>6
      <4>7. ASSUME NEW i \in 1..Len(Image), e = <<<<"initrd", Image[i].name>>, Node("initrd", i)>>
            PROVE  FALSE
        BY ONLY <4>1, <4>7
      <4> QED
        BY ONLY <3>2, <4>2, <4>3, <4>4, <4>5, <4>6, <4>7, TreeEntries
    <3> QED
      BY ONLY <3>1, <3>2
  <2>3. \A e : e \in Tree /\ e[1] = ns <=> ns[1] \in {"initrd", "dev"} /\ e = <<ns, Node(ns[1], 0)>>
    BY <2>1, <2>2
  <2>4. 0 \in Nat
    OBVIOUS
  <2> QED
    BY <1>1, <2>1, <2>3, <2>4 DEF Under
<1>4. CASE Len(ns) = 2
  <2>1. PICK a, b : a = ns[1] /\ b = ns[2]
    OBVIOUS
  <2>2. ns = <<a, b>> /\ x = vfs_lookup(vfs_lookup(Root, a), b)
    BY <1>4, <2>1 DEF Reached
  <2>3. \A e : e \in Tree /\ e[1] = <<a, b>> <=>
          \/ a = "dev" /\ b = "screen" /\ e = <<<<a, b>>, Screen>>
          \/ a = "dev" /\ b = "keyboard" /\ e = <<<<a, b>>, Keyboard>>
          \/ a = "initrd" /\ \E i \in Files(b) : First(i) /\ e = <<<<a, b>>, Node("initrd", i)>>
    BY DEF Files
  <2>4. CASE a = "dev"
    <3>1. x = dev_lookup(b)
      BY <2>2, <2>4 DEF vfs_root_lookup
    <3> QED
      BY <1>1, <2>2, <2>3, <2>4, <3>1 DEF dev_lookup, Under
  <2>5. CASE a = "initrd"
    <3>1. x = initrd_lookup(b)
      BY <2>2, <2>5 DEF vfs_root_lookup
    <3>2. CASE Files(b) = {}
      <4>1. x = NoNode
        BY <3>1, <3>2, FirstFile
      <4> QED
        BY <2>2, <2>3, <2>5, <3>2, <4>1 DEF Under
    <3>3. CASE Files(b) # {}
      <4>1. PICK i \in Files(b) : (\A j \in Files(b) : i <= j) /\ x = Node("initrd", i)
        BY <3>1, <3>3, FirstFile
      <4>2. i \in Nat /\ i \in 1..Len(Image) /\ Image[i].name = b /\ Len(Image) \in Nat
        BY <4>1, FilesAssumption DEF Files
      <4>3. First(i)
        <5> SUFFICES ASSUME NEW j \in 1..i - 1 PROVE Image[j].name # b
          BY <4>2 DEF First
        <5>1. j \in 1..Len(Image) /\ ~(i <= j)
          BY <4>2
        <5> QED
          BY <4>1, <5>1 DEF Files
      <4>4. ASSUME NEW k \in Files(b), First(k) PROVE k = i
        <5>1. k \in Nat /\ Image[k].name = b /\ i <= k
          BY <4>1, <4>4 DEF Files
        <5>2. ~(i \in 1..k - 1)
          BY <4>2, <4>4, <5>1 DEF First
        <5> QED
          BY <4>2, <5>1, <5>2
      <4>5. \A e : e \in Tree /\ e[1] = ns <=> e = <<ns, x>>
        BY <2>2, <2>3, <2>5, <4>1, <4>3, <4>4
      <4>6. x # NoNode
        BY <1>1, <4>1, <4>2
      <4> QED
        BY <4>5, <4>6 DEF Under
    <3> QED
      BY <3>2, <3>3
  <2>6. CASE a \notin {"dev", "initrd"}
    <3>1. x = NoNode
      <4>1. NoNode \in Leaves
        BY DEF Leaves
      <4> QED
        BY <2>2, <2>6, <4>1 DEF vfs_root_lookup
    <3> QED
      BY <2>2, <2>3, <2>6, <3>1 DEF Under
  <2> QED
    BY <2>4, <2>5, <2>6
<1>5. CASE Len(ns) > 2
  <2>1. x = NoNode
    BY <1>5 DEF Reached
  <2>2. \A e \in Tree : Len(e[1]) \in {0, 1, 2}
    OBVIOUS
  <2> QED
    BY <1>5, <2>1, <2>2 DEF Under
<1>6. PICK n \in Nat : n = Len(ns)
  OBVIOUS
<1>7. n = 0 \/ n = 1 \/ n = 2 \/ n > 2
  BY ONLY n \in Nat
<1> QED
  BY ONLY <1>2, <1>3, <1>4, <1>5, <1>6, <1>7

\* The walk of fs/util.c finds what the tree of files has under the path, the
\* slash at the end of a directory's path included, and it is a node or nothing.
LEMMA PathWalk ==
  ASSUME NEW path \in Paths
  PROVE  /\ fs_util_get_node_by_path(path) = Named(path)
         /\ Named(path) \in Nodes \cup {NoNode}
<1>1. path.absolute \in BOOLEAN /\ path.names \in Seq(STRING) /\ path.names # <<>>
  BY FilesAssumption
<1>2. PICK ns, L : ns = path.names /\ L = Len(ns)
  OBVIOUS
<1>3. ns \in Seq(STRING) /\ L \in Nat \ {0} /\ L - 1 \in 0..L /\ L \in 0..L
  <2>1. ns \in Seq(STRING) /\ L \in Nat
    BY <1>1, <1>2
  <2>2. L # 0
    BY <1>1, <1>2, EmptySeq
  <2> QED
    BY <2>1, <2>2
<1>4. PICK above : above = Walk(ns)[L - 1]
  OBVIOUS
<1>5. above = Reached(L - 1, ns[1], ns[2])
  BY <1>2, <1>3, <1>4, WalkFacts
<1>6. Reached(L, ns[1], ns[2]) = vfs_lookup(above, ns[L])
  BY <1>3, <1>5, ReachedNext
<1>7. PICK last : last = ns[L]
  OBVIOUS
<1>8. PICK ms : ms = IF last = "" THEN Front(ns) ELSE ns
  OBVIOUS
<1>9. PICK x : x = IF last = "" THEN above ELSE vfs_lookup(above, last)
  OBVIOUS
<1>10. ms \in Seq(STRING) /\ x = Reached(Len(ms), ms[1], ms[2])
  <2>1. CASE last # ""
    BY <1>2, <1>3, <1>6, <1>7, <1>8, <1>9, <2>1
  <2>2. CASE last = ""
    <3>1. ms = SubSeq(ns, 1, L - 1) /\ x = above
      BY <1>2, <1>8, <1>9, <2>2 DEF Front
    <3>2. ms \in Seq(STRING) /\ Len(ms) = L - 1 /\ \A i \in 1..L - 1 : ms[i] = ns[i]
      BY <1>2, <1>3, <3>1
    <3>3. Reached(L - 1, ns[1], ns[2]) = Reached(L - 1, ms[1], ms[2])
      <4>1. PICK k : k = L - 1
        OBVIOUS
      <4>2. k \in Nat
        BY ONLY <1>3, <4>1
      <4>3. k = 0 \/ k = 1 \/ k > 1
        BY ONLY <4>2
      <4>4. (k # 0 => 1 \in 1..k) /\ (k > 1 => 2 \in 1..k)
        BY ONLY <4>2
      <4>5. (k # 0 => ms[1] = ns[1]) /\ (k > 1 => ms[2] = ns[2])
        BY ONLY <3>2, <4>1, <4>4
      <4> QED
        BY ONLY <4>1, <4>2, <4>3, <4>5 DEF Reached
    <3> QED
      BY <1>5, <3>1, <3>2, <3>3
  <2> QED
    BY <2>1, <2>2
<1>11. Under(ms) = IF x = NoNode THEN {} ELSE {<<ms, x>>}
  BY <1>10, TreeIsReached
<1>12. fs_util_get_node_by_path(path) = IF path.absolute THEN x ELSE NoNode
  <2>1. Walk(path.names)[Len(path.names) - 1] = above /\ Last(path.names) = last
    BY ONLY <1>2, <1>4, <1>7 DEF Last
  <2> QED
    BY ONLY <1>9, <2>1, Zenon DEF fs_util_get_node_by_path
<1>13. Named(path) = IF path.absolute THEN x ELSE NoNode
  <2>1. PICK found : found = {entry \in Tree : path.absolute /\ entry[1] = ms}
    OBVIOUS
  <2>2. Named(path) = IF found = {} THEN NoNode ELSE (CHOOSE entry \in found : TRUE)[2]
    <3>1. (IF Last(path.names) = "" THEN Front(path.names) ELSE path.names) = ms
      BY ONLY <1>2, <1>7, <1>8 DEF Last
    <3>2. Found(path) = found
      BY ONLY <2>1, <3>1 DEF Found
    <3> QED
      BY ONLY <3>2 DEF Named
  <2>3. found = IF path.absolute THEN Under(ms) ELSE {}
    BY <1>1, <2>1 DEF Under
  <2>4. CASE ~path.absolute \/ x = NoNode
    BY <1>11, <2>2, <2>3, <2>4
  <2>5. CASE path.absolute /\ x # NoNode
    <3>1. found = {<<ms, x>>}
      BY <1>11, <2>3, <2>5
    <3>2. (CHOOSE entry \in found : TRUE) = <<ms, x>>
      BY <3>1
    <3> QED
      BY <2>2, <2>5, <3>1, <3>2
  <2> QED
    BY <2>4, <2>5
<1>14. x \in Nodes \cup {NoNode}
  <2>1. CASE x # NoNode
    <3>1. <<ms, x>> \in Tree
      BY <1>11, <2>1 DEF Under
    <3> QED
      BY <3>1 DEF Tree, Nodes
  <2> QED
    BY <2>1
<1> QED
  BY <1>12, <1>13, <1>14

-----------------------------------------------------------------------------
(***************************************************************************)
(* What the steps need of the operators.                                   *)
(***************************************************************************)

\* The entries of a map are finitely many.
LEMMA EntryFacts ==
  ASSUME NEW f \in Entries
  PROVE  /\ f = [x \in DOMAIN f |-> f[x]]
         /\ DOMAIN f \subseteq 0..MaxFd
         /\ \A x \in DOMAIN f : f[x] \in Nodes
         /\ IsFiniteSet(DOMAIN f)
         /\ Cardinality(DOMAIN f) \in Nat
<1>1. PICK S \in SUBSET (0..MaxFd) : f \in [S -> Nodes]
  BY DEF Entries
<1>2. IsFiniteSet(0..MaxFd)
  BY FS_Interval, FilesAssumption
<1>3. IsFiniteSet(S)
  BY <1>2, FS_Subset
<1>4. Cardinality(S) \in Nat
  BY <1>3, FS_CardinalityType
<1> QED
  BY <1>1, <1>3, <1>4

\* One descriptor more.
LEMMA WithFacts ==
  ASSUME NEW f \in Entries, NEW fd \in 0..MaxFd, NEW node \in Nodes
  PROVE  /\ With(f, fd, node) \in Entries
         /\ DOMAIN With(f, fd, node) = DOMAIN f \cup {fd}
         /\ Cardinality(DOMAIN f \cup {fd})
              = Cardinality(DOMAIN f) + (IF fd \in DOMAIN f THEN 0 ELSE 1)
<1>1. DOMAIN f \subseteq 0..MaxFd /\ (\A x \in DOMAIN f : f[x] \in Nodes) /\ IsFiniteSet(DOMAIN f)
      /\ Cardinality(DOMAIN f) \in Nat
  BY EntryFacts
<1>2. With(f, fd, node) \in [DOMAIN f \cup {fd} -> Nodes] /\ DOMAIN f \cup {fd} \in SUBSET (0..MaxFd)
  BY <1>1 DEF With
<1>3. PICK S : S = DOMAIN f
  OBVIOUS
<1>4. Cardinality(S \cup {fd}) = IF fd \in S THEN Cardinality(S) ELSE Cardinality(S) + 1
  BY <1>1, <1>3, FS_AddElement
<1>5. Cardinality(S \cup {fd}) = Cardinality(S) + (IF fd \in S THEN 0 ELSE 1)
  BY <1>1, <1>3, <1>4
<1> QED
  BY <1>2, <1>3, <1>5 DEF Entries

\* There is data that no map has, which hash_map_grow allocates.
LEMMA NewIdFresh ==
  ASSUME Types
  PROVE  /\ NewId \in Nat
         /\ NewId \notin DOMAIN data
         /\ \A p \in DOMAIN procs : procs[p].data # NewId
<1>1. PICK D, P, B, n : /\ D = DOMAIN data /\ P = DOMAIN procs
                        /\ B = {procs[p].data : p \in DOMAIN procs} /\ n = Cardinality(D)
  OBVIOUS
<1>2. IsFiniteSet(D) /\ P \subseteq 1..pids /\ pids \in 1..MaxPid /\ MaxPid \in Nat
  BY <1>1, FilesAssumption DEF Types
<1>3. n \in Nat
  BY <1>1, <1>2, FS_CardinalityType
<1>4. IsFiniteSet(1..pids) /\ Cardinality(1..pids) = pids /\ pids \in Nat
  <2>1. pids \in Nat /\ ~(1 > pids) /\ 1 \in Int /\ pids \in Int /\ pids - 1 + 1 = pids
    BY <1>2
  <2> QED
    BY <2>1, FS_Interval
<1>5. IsFiniteSet(P) /\ Cardinality(P) <= Cardinality(1..pids) /\ Cardinality(P) \in Nat
  <2>1. P \in SUBSET (1..pids)
    BY <1>2
  <2>2. IsFiniteSet(P) /\ Cardinality(P) <= Cardinality(1..pids)
    BY <1>4, <2>1, FS_Subset
  <2> QED
    BY <2>2, FS_CardinalityType
<1>6. IsFiniteSet(B) /\ Cardinality(B) <= Cardinality(P) /\ Cardinality(B) \in Nat
  <2>1. PICK f : f = [p \in P |-> procs[p].data]
    OBVIOUS
  <2>2. f \in Surjection(P, B)
    BY <1>1, <2>1 DEF Surjection
  <2>3. IsFiniteSet(B) /\ Cardinality(B) <= Cardinality(P)
    BY <1>5, <2>2, FS_Surjection
  <2> QED
    BY <2>3, FS_CardinalityType
<1>7. IsFiniteSet(D \cup B) /\ Cardinality(D \cup B) <= n + Cardinality(B) /\ Cardinality(D \cup B) \in Nat
  <2>1. IsFiniteSet(D \cup B)
        /\ Cardinality(D \cup B) = Cardinality(D) + Cardinality(B) - Cardinality(D \cap B)
    BY <1>2, <1>6, FS_Union
  <2>2. Cardinality(D \cup B) \in Nat
    BY <2>1, FS_CardinalityType
  <2>3. Cardinality(D \cap B) \in Nat
    BY <1>2, FS_Intersection, FS_CardinalityType
  <2> QED
    BY <1>1, <1>3, <1>6, <2>1, <2>2, <2>3
<1>8. \E d \in 1..(n + MaxPid + 1) : d \notin D \cup B
  <2> SUFFICES ASSUME 1..(n + MaxPid + 1) \subseteq D \cup B PROVE FALSE
    OBVIOUS
  <2>1. PICK m : m = n + MaxPid + 1
    OBVIOUS
  <2>2. m \in Nat /\ 1 \in Int /\ m \in Int /\ ~(1 > m) /\ m - 1 + 1 = m
    BY <1>2, <1>3, <2>1
  <2>3. Cardinality(1..m) = m
    BY <2>2, FS_Interval
  <2>4. Cardinality(1..m) <= Cardinality(D \cup B)
    <3>1. 1..m \in SUBSET (D \cup B)
      BY <2>1
    <3> QED
      BY <1>7, <3>1, FS_Subset
  <2> QED
    BY <1>2, <1>3, <1>4, <1>5, <1>6, <1>7, <2>1, <2>2, <2>3, <2>4
<1>9. NewId = CHOOSE d \in 1..(n + MaxPid + 1) : d \notin D \cup B
  BY <1>1 DEF NewId
<1>10. NewId \in 1..(n + MaxPid + 1) /\ NewId \notin D \cup B
  BY <1>8, <1>9
<1> QED
  BY <1>1, <1>2, <1>3, <1>10

-----------------------------------------------------------------------------
(***************************************************************************)
(* The steps.                                                              *)
(***************************************************************************)

\* The descriptors of a process that may count on them are few enough for
\* every probe to end.
LEMMA CallEnds ==
  ASSUME Types, NEW p \in DOMAIN opened, KeptBy(p), NEW fd
  PROVE  ~Dangling(p) /\ ~Endless(p, fd)
<1>1. ~Dangling(p)
  BY DEF KeptBy, Dangling
<1>2. PICK n, c : n = procs[p].num /\ c = procs[p].cap
  OBVIOUS
<1>3. n \in Nat /\ c \in Nat \ {0} /\ 2 * n <= c
  BY <1>2 DEF Types, HashMaps, KeptBy
<1>4. n # c
  BY <1>3
<1>5. Cardinality(DOMAIN Fds(p)) = n
  BY <1>2 DEF KeptBy, Fds
<1> QED
  BY <1>1, <1>2, <1>4, <1>5 DEF Endless

\* A step that changes no map.
LEMMA SameMaps ==
  ASSUME Types, UNCHANGED <<procs, pids, data, opened>>,
         stopped' \in {"no", "halted", "freed data", "endless probe"}
  PROVE  /\ Types'
         /\ \A p \in DOMAIN opened : KeptBy(p) => KeptBy(p)'
         /\ FirstCounts => FirstCounts'
BY DEF Types, KeptBy, FirstCounts

\* A call that does not come back is none of a process that may count on it.
LEMMA StopStep ==
  ASSUME IInv, Running, NEW p, NEW op, NEW fd, Dangling(p) \/ Endless(p, fd),
         Stop(p, op, fd), UNCHANGED opened
  PROVE  IInv'
<1>1. Types /\ \A q \in DOMAIN opened : KeptBy(q)
  BY DEF IInv
<1>2. p \notin DOMAIN opened
  BY <1>1, CallEnds
<1>3. stopped' \in {"freed data", "endless probe"} /\ ret'.pid = p
      /\ UNCHANGED <<procs, pids, data, opened>>
  BY DEF Stop, Return
<1>4. Types'
  BY <1>1, <1>3, SameMaps
<1>5. ~Running'
  BY <1>3 DEF Running
<1>6. NoWildCall'
  BY <1>2, <1>3 DEF NoWildCall
<1> QED
  BY <1>4, <1>5, <1>6 DEF IInv

\* A call that leaves every map as it is.
LEMMA QuietStep ==
  ASSUME IInv, Running, UNCHANGED <<procs, pids, data, opened, stopped>>
  PROVE  IInv'
<1>1. Types /\ FirstCounts /\ \A q \in DOMAIN opened : KeptBy(q)
  BY DEF IInv
<1>2. stopped' \in {"no", "halted", "freed data", "endless probe"} /\ DOMAIN opened' = DOMAIN opened
  BY <1>1 DEF Types
<1>3. Types' /\ FirstCounts' /\ \A q \in DOMAIN opened' : KeptBy(q)'
  BY <1>1, <1>2, SameMaps
<1>4. NoWildCall'
  BY DEF NoWildCall, Running
<1> QED
  BY <1>3, <1>4 DEF IInv

\* read, write and close.
LEMMA LookStep ==
  ASSUME IInv, NEW p, NEW op, NEW fd, NEW answer, Look(p, op, fd, answer)
  PROVE  IInv'
<1>1. CASE Dangling(p) \/ Endless(p, fd)
  BY <1>1, StopStep DEF Look
<1>2. CASE ~(Dangling(p) \/ Endless(p, fd))
  BY <1>2, QuietStep DEF Look
<1> QED
  BY <1>1, <1>2

\* hash_map_put and hash_map_grow: the map afterwards, its entries under data
\* that is its own or is new, and their number.
Added(p, fd, node, h, entries) ==
  /\ entries = With(Fds(p), fd, node)
  /\ procs' = [procs EXCEPT ![p] = h]
  /\ data' = [d \in (DOMAIN data \ {procs[p].data}) \cup {h.data} |->
                IF d = h.data THEN entries ELSE data[d]]
  /\ h.data = procs[p].data \/ h.data \notin DOMAIN data
  /\ h.next = fd + 1
  /\ \/ /\ h.num = procs[p].num + (IF fd \in DOMAIN Fds(p) THEN 0 ELSE 1)
        /\ h.cap = procs[p].cap /\ 2 * h.num <= h.cap
     \/ /\ h.num = Cardinality(DOMAIN entries)
        /\ h.cap = 2 * procs[p].cap

\* That is what process_add_fd_to_active_process does.
LEMMA AddFdFacts ==
  ASSUME Types, NEW p \in DOMAIN procs, ~Dangling(p),
         NEW fd \in 0..MaxFd, NEW node \in Nodes, AddFd(p, fd, node)
  PROVE  \E h \in HashMaps, entries \in Entries : Added(p, fd, node, h, entries)
<1>1. PICK r, entries, num : /\ r = procs[p] /\ entries = With(Fds(p), fd, node)
                             /\ num = r.num + (IF fd \in DOMAIN Fds(p) THEN 0 ELSE 1)
  OBVIOUS
<1>2. PICK hm : hm = IF 2 * num > r.cap THEN Grown(p, entries) ELSE [r EXCEPT !.num = num]
  OBVIOUS
<1>3. /\ data' = [d \in (DOMAIN data \ {procs[p].data}) \cup {hm.data} |->
                    IF d = hm.data THEN entries ELSE data[d]]
      /\ procs' = [procs EXCEPT ![p] = [hm EXCEPT !.next = fd + 1]]
  BY <1>1, <1>2 DEF AddFd
<1>4. r \in HashMaps /\ Fds(p) \in Entries
  BY <1>1 DEF Types, Fds, Dangling
<1>5. entries \in Entries
  BY <1>1, <1>4, WithFacts
<1>6. Cardinality(DOMAIN entries) \in Nat
  BY <1>5, EntryFacts
<1>7. num \in Nat /\ r.num \in Nat /\ r.cap \in Nat \ {0}
  BY <1>1, <1>4 DEF HashMaps
<1>8. NewId \in Nat /\ NewId \notin DOMAIN data
  BY NewIdFresh
<1>9. hm \in HashMaps /\ (hm.data = r.data \/ hm.data \notin DOMAIN data)
      /\ \/ hm.num = num /\ hm.cap = r.cap /\ 2 * hm.num <= hm.cap
         \/ hm.num = Cardinality(DOMAIN entries) /\ hm.cap = 2 * r.cap
  <2>1. CASE 2 * num > r.cap
    <3>1. hm = [r EXCEPT !.data = NewId, !.num = Cardinality(DOMAIN entries), !.cap = 2 * @]
      BY <1>1, <1>2, <2>1 DEF Grown
    <3>2. 2 * r.cap \in Nat \ {0}
      BY <1>7
    <3> QED
      BY <1>4, <1>6, <1>8, <3>1, <3>2 DEF HashMaps
  <2>2. CASE ~(2 * num > r.cap)
    <3>1. hm = [r EXCEPT !.num = num] /\ 2 * num <= r.cap
      BY <1>2, <1>7, <2>2
    <3> QED
      BY <1>4, <1>7, <3>1 DEF HashMaps
  <2> QED
    BY <2>1, <2>2
<1>10. PICK h : h = [hm EXCEPT !.next = fd + 1]
  OBVIOUS
<1>11. fd + 1 \in 0..(MaxFd + 1)
  BY FilesAssumption
<1>12. h \in HashMaps /\ h.data = hm.data /\ h.num = hm.num /\ h.cap = hm.cap /\ h.next = fd + 1
  BY <1>9, <1>10, <1>11 DEF HashMaps
<1> QED
  BY <1>1, <1>3, <1>5, <1>9, <1>10, <1>12 DEF Added

\* The file is opened.
LEMMA AddStep ==
  ASSUME IInv, Running, NEW p \in DOMAIN procs, NEW fd \in 0..MaxFd, fd = procs[p].next,
         NEW node \in Nodes, ~Dangling(p), AddFd(p, fd, node),
         opened' = Relied(p, fd, node), UNCHANGED <<pids, stopped>>
  PROVE  IInv'
<1>1. Types /\ FirstCounts /\ \A q \in DOMAIN opened : KeptBy(q)
  BY DEF IInv
<1>2. PICK h \in HashMaps, entries \in Entries : Added(p, fd, node, h, entries)
  BY <1>1, AddFdFacts
<1>2a.
      /\ entries = With(Fds(p), fd, node)
      /\ procs' = [procs EXCEPT ![p] = h]
      /\ data' = [d \in (DOMAIN data \ {procs[p].data}) \cup {h.data} |->
                    IF d = h.data THEN entries ELSE data[d]]
      /\ h.data = procs[p].data \/ h.data \notin DOMAIN data
      /\ h.next = fd + 1
      /\ \/ /\ h.num = procs[p].num + (IF fd \in DOMAIN Fds(p) THEN 0 ELSE 1)
            /\ h.cap = procs[p].cap /\ 2 * h.num <= h.cap
         \/ /\ h.num = Cardinality(DOMAIN entries)
            /\ h.cap = 2 * procs[p].cap
  BY <1>2, Zenon DEF Added
<1>3. PICK O : O = opened'
  OBVIOUS
<1>4. PICK P : P = procs'
  OBVIOUS
<1>5. PICK D : D = data'
  OBVIOUS
<1>6. /\ DOMAIN O \subseteq DOMAIN opened
      /\ \A q \in DOMAIN O \ {p} : O[q] = opened[q] /\ procs[q].data # procs[p].data
      /\ p \in DOMAIN O => p = 1 \/ fd \notin DOMAIN opened[p]
      /\ p \in DOMAIN O => O[p] = IF fd \notin DOMAIN opened[p]
                                  THEN With(opened[p], fd, node) ELSE opened[p]
      /\ O = [q \in DOMAIN O |-> O[q]]
  <2>1. PICK sharing, used :
           /\ sharing = {q \in DOMAIN opened \ {p} : procs[q].data = procs[p].data}
           /\ used = {q \in DOMAIN opened \ {1} : q = p /\ fd \in DOMAIN opened[q]}
    OBVIOUS
  <2>2. O = [q \in DOMAIN opened \ (sharing \cup used) |->
               IF q = p /\ fd \notin DOMAIN opened[p] THEN With(opened[p], fd, node) ELSE opened[q]]
    BY <1>3, <2>1, Zenon DEF Relied
  <2>3. DOMAIN O = DOMAIN opened \ (sharing \cup used) /\ O = [q \in DOMAIN O |-> O[q]]
    BY ONLY <2>2
  <2>4. \A q \in DOMAIN O \ {p} : O[q] = opened[q] /\ procs[q].data # procs[p].data
    BY ONLY <2>1, <2>2
  <2>5. p \in DOMAIN O => p = 1 \/ fd \notin DOMAIN opened[p]
    BY ONLY <2>1, <2>3
  <2>6. p \in DOMAIN O => O[p] = IF fd \notin DOMAIN opened[p]
                                 THEN With(opened[p], fd, node) ELSE opened[p]
    BY ONLY <2>2
  <2> QED
    BY <2>3, <2>4, <2>5, <2>6
<1>7. \A q \in DOMAIN O : q = p => fd \notin DOMAIN opened[p] /\ O[p] = With(opened[p], fd, node)
  <2> SUFFICES ASSUME p \in DOMAIN O
               PROVE  fd \notin DOMAIN opened[p] /\ O[p] = With(opened[p], fd, node)
    OBVIOUS
  <2>1. CASE p = 1
    <3>1. p \in DOMAIN opened /\ opened[p] \in Entries
      BY <1>1, <1>6 DEF Types
    <3>2. \A x \in DOMAIN opened[p] : x < fd
      BY <1>1, <2>1, <3>1 DEF FirstCounts
    <3>3. ~(fd < fd)
      OBVIOUS
    <3>4. fd \notin DOMAIN opened[p]
      BY <3>2, <3>3
    <3> QED
      BY <1>6, <3>4
  <2>2. CASE p # 1
    BY <1>6, <2>2
  <2> QED
    BY <2>1, <2>2
<1>8. P \in [DOMAIN P -> HashMaps] /\ DOMAIN P = DOMAIN procs /\ P[p] = h
      /\ \A q \in DOMAIN procs \ {p} : P[q] = procs[q]
  BY <1>1, <1>2a, <1>4 DEF Types
<1>9. D \in [DOMAIN D -> Entries] /\ IsFiniteSet(DOMAIN D)
  <2>1. D \in [DOMAIN D -> Entries] /\ DOMAIN D = (DOMAIN data \ {procs[p].data}) \cup {h.data}
    BY <1>1, <1>2a, <1>5 DEF Types
  <2>2. IsFiniteSet(DOMAIN data)
    BY <1>1 DEF Types
  <2>3. IsFiniteSet(DOMAIN data \ {procs[p].data})
    BY <2>2, FS_RemoveElement
  <2>4. IsFiniteSet((DOMAIN data \ {procs[p].data}) \cup {h.data})
    BY <2>3, FS_AddElement
  <2> QED
    BY <2>1, <2>4
<1>10. O \in [DOMAIN O -> Entries]
  <2>1. ASSUME NEW q \in DOMAIN O PROVE O[q] \in Entries
    <3>1. opened[q] \in Entries
      BY <1>1, <1>6 DEF Types
    <3>2. q = p => With(opened[q], fd, node) \in Entries
      BY <3>1, WithFacts, Zenon
    <3> QED
      BY <1>6, <1>7, <3>1, <3>2
  <2> QED
    BY <1>6, <2>1
<1>11. Types'
  <2>1. pids' \in 1..MaxPid /\ DOMAIN O \subseteq DOMAIN P /\ DOMAIN P \subseteq 1..pids'
        /\ stopped' \in {"no", "halted", "freed data", "endless probe"}
    BY <1>1, <1>6, <1>8 DEF Types
  <2> QED
    BY <1>3, <1>4, <1>5, <1>8, <1>9, <1>10, <2>1 DEF Types
<1>12. ASSUME NEW q \in DOMAIN O PROVE KeptBy(q)'
  <2>1. q \in DOMAIN opened /\ q \in DOMAIN procs /\ KeptBy(q)
    BY <1>1, <1>6 DEF Types
  <2>2. CASE q # p
    <3>1. P[q] = procs[q] /\ O[q] = opened[q] /\ procs[q].data # procs[p].data
          /\ procs[q].data \in DOMAIN data /\ procs[q].data # h.data
      BY <1>2a, <1>6, <1>8, <2>1, <2>2 DEF KeptBy
    <3>2. procs[q].data \in DOMAIN D /\ D[procs[q].data] = data[procs[q].data]
      BY <1>2a, <1>5, <3>1
    <3> QED
      BY <1>3, <1>4, <1>5, <2>1, <3>1, <3>2 DEF KeptBy
  <2>3. CASE q = p
    <3>1. fd \notin DOMAIN opened[p] /\ O[p] = With(opened[p], fd, node)
          /\ Fds(p) = opened[p] /\ opened[p] \in Entries
      BY <1>1, <1>7, <2>1, <2>3 DEF KeptBy, Fds, Types
    <3>2. O[p] = entries /\ h.data \in DOMAIN D /\ D[h.data] = entries
      BY <1>2a, <1>5, <3>1
    <3>3. PICK n, c : n = procs[p].num /\ c = procs[p].cap
      OBVIOUS
    <3>4. n \in Nat /\ c \in Nat \ {0} /\ 2 * n <= c /\ n = Cardinality(DOMAIN opened[p])
      BY <1>1, <2>1, <2>3, <3>3 DEF KeptBy, Types, HashMaps
    <3>5. Cardinality(DOMAIN entries) = n + 1
      <4>1. PICK f : f = opened[p]
        OBVIOUS
      <4>2. f \in Entries /\ fd \notin DOMAIN f /\ entries = With(f, fd, node) /\ n = Cardinality(DOMAIN f)
        BY <1>2a, <3>1, <3>4, <4>1
      <4>3. /\ DOMAIN With(f, fd, node) = DOMAIN f \cup {fd}
            /\ Cardinality(DOMAIN f \cup {fd}) = Cardinality(DOMAIN f) + (IF fd \in DOMAIN f THEN 0 ELSE 1)
        BY <4>2, WithFacts, Zenon
      <4> QED
        BY ONLY <4>2, <4>3
    <3>6. h.num = n + 1 /\ ((h.cap = c /\ 2 * h.num <= h.cap) \/ h.cap = 2 * c)
      BY <1>2a, <3>1, <3>3, <3>5
    <3>7. 2 * (n + 1) <= 2 * c
      BY <3>4
    <3>8. h.num = Cardinality(DOMAIN O[p]) /\ 2 * h.num <= h.cap
      BY <3>2, <3>5, <3>6, <3>7
    <3>9. P[p] = h
      BY <1>8
    <3> QED
      BY <1>3, <1>4, <1>5, <2>3, <3>2, <3>8, <3>9 DEF KeptBy
  <2> QED
    BY <2>2, <2>3
<1>13. FirstCounts'
  <2> SUFFICES ASSUME 1 \in DOMAIN O PROVE \A x \in DOMAIN O[1] : x < P[1].next
    BY <1>3, <1>4 DEF FirstCounts
  <2>1. 1 \in DOMAIN opened /\ 1 \in DOMAIN procs /\ opened[1] \in Entries
        /\ \A x \in DOMAIN opened[1] : x < procs[1].next
    BY <1>1, <1>6 DEF Types, FirstCounts
  <2>2. CASE p # 1
    BY <1>6, <1>8, <2>1, <2>2
  <2>3. CASE p = 1
    <3>1. DOMAIN O[1] = DOMAIN opened[1] \cup {fd} /\ P[1].next = fd + 1
      <4>1. PICK f : f = opened[1]
        OBVIOUS
      <4>2. f \in Entries /\ O[1] = With(f, fd, node) /\ P[1].next = fd + 1
        BY <1>2a, <1>7, <1>8, <2>1, <2>3, <4>1
      <4>3. DOMAIN With(f, fd, node) = DOMAIN f \cup {fd}
        BY <4>2, WithFacts, Zenon
      <4> QED
        BY ONLY <4>1, <4>2, <4>3
    <3>2. DOMAIN opened[1] \subseteq 0..MaxFd /\ \A x \in DOMAIN opened[1] : x < fd
      BY <2>1, <2>3, EntryFacts
    <3> QED
      BY <3>1, <3>2
  <2> QED
    BY <2>2, <2>3
<1>14. NoWildCall'
  BY DEF NoWildCall, Running
<1> QED
  BY <1>3, <1>11, <1>12, <1>13, <1>14 DEF IInv

\* open, whatever comes of it.
LEMMA OpenStep ==
  ASSUME IInv, NEW p \in DOMAIN procs, NEW path \in Paths, Open(p, path)
  PROVE  IInv'
<1>1. PICK node : node = fs_util_get_node_by_path(path)
  OBVIOUS
<1>2. node = Named(path) /\ node \in Nodes \cup {NoNode}
  BY <1>1, PathWalk
<1>3. PICK fd : fd = procs[p].next
  OBVIOUS
<1>4. fd \in 0..MaxFd /\ Running
  <2>1. fd \in 0..(MaxFd + 1)
    BY <1>3 DEF IInv, Types, HashMaps
  <2>2. fd <= MaxFd /\ Running
    BY <1>3 DEF Open
  <2> QED
    BY <2>1, <2>2, FilesAssumption
<1>5. opened' = IF node = NoNode \/ stopped' # "no" THEN opened ELSE Relied(p, fd, node)
  BY <1>2, <1>3 DEF Open
<1>6. CASE node = NoNode
  <2>1. UNCHANGED <<procs, pids, data, stopped>>
    BY <1>1, <1>6 DEF Open
  <2> QED
    BY <1>4, <1>5, <1>6, <2>1, QuietStep
<1>7. CASE node # NoNode /\ (Dangling(p) \/ Endless(p, fd))
  <2>1. Stop(p, "open", fd)
    BY <1>1, <1>3, <1>7 DEF Open
  <2>2. stopped' # "no"
    BY <2>1 DEF Stop
  <2>3. UNCHANGED opened
    BY <1>5, <2>2
  <2> QED
    BY <1>4, <1>7, <2>1, <2>3, StopStep
<1>8. CASE node # NoNode /\ ~(Dangling(p) \/ Endless(p, fd))
  <2>1. AddFd(p, fd, node) /\ UNCHANGED <<pids, stopped>>
    BY <1>1, <1>3, <1>8 DEF Open
  <2>2. opened' = Relied(p, fd, node)
    BY <1>4, <1>5, <1>8, <2>1 DEF Running
  <2> QED
    BY <1>2, <1>3, <1>4, <1>8, <2>1, <2>2, AddStep
<1> QED
  BY <1>6, <1>7, <1>8

\* fork: the child counts on what its parent counts on.
LEMMA ForkStep ==
  ASSUME IInv, NEW p \in DOMAIN procs, NEW next \in 0..MaxFd, Fork(p, next)
  PROVE  IInv'
<1>1. Types /\ FirstCounts /\ (\A q \in DOMAIN opened : KeptBy(q)) /\ stopped' = "no"
  BY DEF IInv, Fork, Running
<1>2. PICK c : c = pids + 1
  OBVIOUS
<1>3. c \in 1..MaxPid /\ c # 1 /\ c \notin DOMAIN procs /\ c \notin DOMAIN opened
      /\ DOMAIN procs \cup {c} \subseteq 1..c
  <2>1. pids \in 1..MaxPid /\ pids < MaxPid /\ MaxPid \in Nat
        /\ DOMAIN procs \subseteq 1..pids /\ DOMAIN opened \subseteq DOMAIN procs
    BY <1>1, FilesAssumption DEF Types, Fork
  <2>2. c \in 1..MaxPid /\ c # 1 /\ c \notin 1..pids /\ 1..pids \subseteq 1..c /\ c \in 1..c
    BY <1>2, <2>1
  <2> QED
    BY <2>1, <2>2
<1>4. PICK P : P = procs'
  OBVIOUS
<1>5. PICK O : O = opened'
  OBVIOUS
<1>6. PICK r : r = [procs[p] EXCEPT !.next = next]
  OBVIOUS
<1>7. P = [q \in DOMAIN procs \cup {c} |-> IF q = c THEN r ELSE procs[q]]
      /\ data' = data /\ pids' = c
  BY <1>2, <1>4, <1>6 DEF Fork, ForkFds
<1>8. procs[p] \in HashMaps /\ r \in HashMaps
      /\ r.data = procs[p].data /\ r.num = procs[p].num /\ r.cap = procs[p].cap
  <2>1. procs[p] \in HashMaps
    BY <1>1 DEF Types
  <2>2. next \in 0..(MaxFd + 1)
    BY FilesAssumption
  <2> QED
    BY <1>6, <2>1, <2>2 DEF HashMaps
<1>9. O = IF p \in DOMAIN opened THEN With(opened, c, opened[p]) ELSE opened
  BY <1>2, <1>5 DEF Fork
<1>10. /\ DOMAIN O \subseteq DOMAIN opened \cup {c}
       /\ \A q \in DOMAIN O \ {c} : q \in DOMAIN opened /\ O[q] = opened[q]
       /\ c \in DOMAIN O => p \in DOMAIN opened /\ O[c] = opened[p]
       /\ O \in [DOMAIN O -> Entries]
  BY <1>1, <1>3, <1>9 DEF Types, With
<1>11. P \in [DOMAIN P -> HashMaps] /\ DOMAIN P = DOMAIN procs \cup {c} /\ P[c] = r
       /\ \A q \in DOMAIN procs : P[q] = procs[q]
  BY <1>1, <1>3, <1>7, <1>8 DEF Types
<1>12. Types'
  <2>1. DOMAIN O \subseteq DOMAIN P /\ DOMAIN P \subseteq 1..c
    BY <1>1, <1>3, <1>10, <1>11 DEF Types
  <2>2. data \in [DOMAIN data -> Entries] /\ IsFiniteSet(DOMAIN data)
    BY <1>1 DEF Types
  <2> QED
    BY <1>1, <1>3, <1>4, <1>5, <1>7, <1>10, <1>11, <2>1, <2>2 DEF Types
<1>13. ASSUME NEW q \in DOMAIN O PROVE KeptBy(q)'
  <2>1. CASE q = c
    <3>1. p \in DOMAIN opened /\ KeptBy(p) /\ O[q] = opened[p] /\ P[q] = r
      BY <1>1, <1>10, <1>11, <2>1
    <3> QED
      BY <1>4, <1>5, <1>7, <1>8, <3>1 DEF KeptBy
  <2>2. CASE q # c
    <3>1. q \in DOMAIN opened /\ q \in DOMAIN procs /\ KeptBy(q) /\ O[q] = opened[q] /\ P[q] = procs[q]
      BY <1>1, <1>10, <1>11, <2>2 DEF Types
    <3> QED
      BY <1>4, <1>5, <1>7, <3>1 DEF KeptBy
  <2> QED
    BY <2>1, <2>2
<1>14. FirstCounts'
  <2> SUFFICES ASSUME 1 \in DOMAIN O PROVE \A x \in DOMAIN O[1] : x < P[1].next
    BY <1>4, <1>5 DEF FirstCounts
  <2>1. 1 \in DOMAIN opened /\ 1 \in DOMAIN procs /\ O[1] = opened[1] /\ P[1] = procs[1]
    BY <1>1, <1>3, <1>10, <1>11 DEF Types
  <2> QED
    BY <1>1, <2>1 DEF FirstCounts
<1>15. NoWildCall'
  BY <1>1 DEF NoWildCall
<1> QED
  BY <1>5, <1>12, <1>13, <1>14, <1>15 DEF IInv

\* exit.
LEMMA ExitStep ==
  ASSUME IInv, NEW p \in DOMAIN procs, Exit(p)
  PROVE  IInv'
<1>1. Types /\ FirstCounts /\ \A q \in DOMAIN opened : KeptBy(q)
  BY DEF IInv, Exit
<1>2. PICK P : P = procs'
  OBVIOUS
<1>3. PICK O : O = opened'
  OBVIOUS
<1>4. /\ P = [q \in DOMAIN procs \ {p} |-> procs[q]]
      /\ O = [q \in DOMAIN opened \ {p} |-> opened[q]]
      /\ stopped' \in {"halted", "no"} /\ pids' = pids /\ data' = data
  BY <1>2, <1>3 DEF Exit
<1>5. Types'
  <2>1. P \in [DOMAIN P -> HashMaps] /\ O \in [DOMAIN O -> Entries]
        /\ DOMAIN O \subseteq DOMAIN P /\ DOMAIN P \subseteq DOMAIN procs
    BY <1>1, <1>4 DEF Types
  <2> QED
    BY <1>1, <1>2, <1>3, <1>4, <2>1 DEF Types
<1>6. ASSUME NEW q \in DOMAIN O PROVE KeptBy(q)'
  <2>1. q \in DOMAIN opened /\ KeptBy(q) /\ O[q] = opened[q] /\ P[q] = procs[q]
    BY <1>1, <1>4 DEF Types
  <2> QED
    BY <1>2, <1>3, <1>4, <2>1 DEF KeptBy
<1>7. FirstCounts'
  <2> SUFFICES ASSUME 1 \in DOMAIN O PROVE \A x \in DOMAIN O[1] : x < P[1].next
    BY <1>2, <1>3 DEF FirstCounts
  <2>1. 1 \in DOMAIN opened /\ O[1] = opened[1] /\ P[1] = procs[1]
    BY <1>1, <1>4 DEF Types
  <2> QED
    BY <1>1, <2>1 DEF FirstCounts
<1>8. NoWildCall'
  BY <1>4 DEF NoWildCall
<1> QED
  BY <1>3, <1>5, <1>6, <1>7, <1>8 DEF IInv

-----------------------------------------------------------------------------
(***************************************************************************)
(* The theorems.                                                           *)
(***************************************************************************)

\* At the start the first process has nothing open.
LEMMA InitHolds == Init => IInv
<1> SUFFICES ASSUME Init PROVE IInv
  OBVIOUS
<1>1. PICK none : none = [fd \in {} |-> Root]
  OBVIOUS
<1>2. none \in Entries /\ DOMAIN none = {} /\ Cardinality(DOMAIN none) = 0
  <2>1. {} \in SUBSET (0..MaxFd) /\ none \in [{} -> Nodes] /\ DOMAIN none = {}
    BY <1>1
  <2>2. none \in Entries
    BY <2>1 DEF Entries
  <2> QED
    BY <2>1, <2>2, FS_EmptySet
<1>3. PICK h : h = [data |-> 1, num |-> 0, cap |-> InitialCap, next |-> 0]
  OBVIOUS
<1>4. h \in HashMaps /\ h.data = 1 /\ h.num = 0 /\ h.cap = InitialCap
  BY <1>3, FilesAssumption DEF HashMaps
<1>5. /\ procs = [p \in {1} |-> h] /\ pids = 1 /\ data = [d \in {1} |-> none]
      /\ stopped = "no" /\ opened = [p \in {1} |-> none]
  BY <1>1, <1>3 DEF Init
<1>6. Types
  <2>1. IsFiniteSet({1})
    BY FS_Singleton
  <2>2. DOMAIN data = {1} /\ data \in [{1} -> Entries] /\ opened \in [{1} -> Entries] /\ DOMAIN opened = {1}
        /\ procs \in [{1} -> HashMaps] /\ DOMAIN procs = {1}
    BY <1>2, <1>4, <1>5
  <2>3. pids \in 1..MaxPid /\ {1} \subseteq 1..pids
    BY <1>5, FilesAssumption
  <2> QED
    BY <1>5, <2>1, <2>2, <2>3 DEF Types
<1>7. ASSUME NEW p \in DOMAIN opened PROVE KeptBy(p)
  <2>1. procs[p] = h /\ opened[p] = none /\ data[h.data] = none /\ h.data \in DOMAIN data
    BY <1>4, <1>5
  <2>2. 2 * h.num <= h.cap
    BY <1>4, FilesAssumption
  <2> QED
    BY <1>2, <1>4, <2>1, <2>2 DEF KeptBy
<1>8. FirstCounts
  BY <1>2, <1>5 DEF FirstCounts
<1>9. NoWildCall
  BY <1>5 DEF NoWildCall
<1> QED
  BY <1>6, <1>7, <1>8, <1>9 DEF IInv

\* Every step keeps the invariant.
LEMMA StepHolds == IInv /\ [Next]_vars => IInv'
<1> SUFFICES ASSUME IInv, [Next]_vars PROVE IInv'
  OBVIOUS
<1>1. ASSUME NEW p \in DOMAIN procs, NEW path \in Paths, Open(p, path) PROVE IInv'
  BY <1>1, OpenStep
<1>2. ASSUME NEW p \in DOMAIN procs, NEW fd \in 0..MaxFd, NEW count \in Counts, Read(p, fd, count)
      PROVE  IInv'
  BY <1>2, LookStep DEF Read
<1>3. ASSUME NEW p \in DOMAIN procs, NEW fd \in 0..MaxFd, Write(p, fd) PROVE IInv'
  BY <1>3, LookStep DEF Write
<1>4. ASSUME NEW p \in DOMAIN procs, NEW fd \in 0..MaxFd, Close(p, fd) PROVE IInv'
  BY <1>4, LookStep DEF Close
<1>5. ASSUME NEW p \in DOMAIN procs, NEW next \in 0..MaxFd, Fork(p, next) PROVE IInv'
  BY <1>5, ForkStep
<1>6. ASSUME NEW p \in DOMAIN procs, Exit(p) PROVE IInv'
  BY <1>6, ExitStep
<1>7. CASE UNCHANGED vars
  BY <1>7 DEF vars, IInv, Types, Running, KeptBy, FirstCounts, NoWildCall
<1> QED
  BY <1>1, <1>2, <1>3, <1>4, <1>5, <1>6, <1>7 DEF Next

\* The invariant holds throughout.
LEMMA AlwaysIInv == Spec => []IInv
BY InitHolds, StepHolds, PTL DEF Spec

\* Every descriptor that any hash map holds leads to a node that exists, also
\* in maps that fork shares and in those a sharing process grew (fs/vfs.c gives
\* out no other nodes, and the path walk of fs/util.c finds no other).
THEOREM NodesExist == Spec => []TypeOK
<1>1. ASSUME IInv PROVE TypeOK
  <2>1. Types
    BY <1>1 DEF IInv
  <2>2. ASSUME NEW d \in DOMAIN data
        PROVE  DOMAIN data[d] \subseteq 0..MaxFd /\ \A fd \in DOMAIN data[d] : data[d][fd] \in Nodes
    <3>1. data[d] \in Entries
      BY <2>1 DEF Types
    <3> QED
      BY <3>1, EntryFacts
  <2>3. ASSUME NEW p \in DOMAIN procs
        PROVE  /\ procs[p].data \in Nat /\ procs[p].num \in Nat
               /\ procs[p].cap \in Nat \ {0} /\ procs[p].next \in 0..MaxFd + 1
    BY <2>1 DEF Types, HashMaps
  <2> QED
    BY <2>1, <2>2, <2>3 DEF Types, TypeOK
<1> QED
  BY <1>1, AlwaysIInv, PTL

\* A process has open what it, or its parent before the fork, opened, for as
\* long as no process that shares the map's data opens another: through every
\* growth of the map (hash_map_grow) and every fork (process_fork).
THEOREM DescriptorsKept == Spec => []FdsKept
<1>1. IInv => FdsKept
  BY DEF IInv, FdsKept, KeptBy, Dangling, Fds
<1> QED
  BY <1>1, AlwaysIInv, PTL

\* No call of such a process reads freed data or probes for ever: half of its
\* map's slots are free, whatever fork and growth have done to it.
THEOREM CallsComeBack == Spec => []NoWildCall
<1>1. IInv => NoWildCall
  BY DEF IInv
<1> QED
  BY <1>1, AlwaysIInv, PTL

\* fs_util_get_node_by_path finds, for every path, what the tree of the files
\* has under it, and nothing where the tree has nothing: for every image, also
\* one with two files of a name, and whether or not the path ends in a slash.
THEOREM WalkFindsNamed ==
  \A path \in Paths : fs_util_get_node_by_path(path) = Named(path)
BY PathWalk

-----------------------------------------------------------------------------
(***************************************************************************)
(* The bytes of the files.                                                 *)
(***************************************************************************)

\* One level of FirstFiles and of initrd_files_data, given the one below.
FirstFilesStep(n, below) == IF n = 0 THEN <<>> ELSE below \o Image[n].bytes
StartStep(inode, below) == IF inode < 2 THEN 0 ELSE below + Len(Image[inode - 1].bytes)
FirstFilesRec == INSTANCE NaturalsLemmas WITH RecStep <- FirstFilesStep
StartRec == INSTANCE NaturalsLemmas WITH RecStep <- StartStep

\* The image grows by a file at a time.
LEMMA FirstFilesDef ==
  ASSUME NEW n \in Nat
  PROVE  FirstFiles[n] = IF n = 0 THEN <<>> ELSE FirstFiles[n - 1] \o Image[n].bytes
<1>1. \A u, v : FirstFilesStep(0, u) = FirstFilesStep(0, v)
  BY DEF FirstFilesStep
<1>2. \E f : f = [m \in Nat |-> FirstFilesStep(m, f[m - 1])]
  BY <1>1, FirstFilesRec!RecursionExists
<1>3. FirstFiles = [m \in Nat |-> FirstFilesStep(m, FirstFiles[m - 1])]
  BY <1>2 DEF FirstFiles, FirstFilesStep
<1>4. FirstFiles[n] = FirstFilesStep(n, FirstFiles[n - 1])
  BY <1>3
<1> QED
  BY <1>4 DEF FirstFilesStep

\* A file starts where the one before it ends.
LEMMA StartDef ==
  ASSUME NEW n \in Nat
  PROVE  initrd_files_data[n] =
           IF n < 2 THEN 0 ELSE initrd_files_data[n - 1] + Len(Image[n - 1].bytes)
<1>1. \A u, v : StartStep(0, u) = StartStep(0, v)
  BY DEF StartStep
<1>2. \E f : f = [m \in Nat |-> StartStep(m, f[m - 1])]
  BY <1>1, StartRec!RecursionExists
<1>3. initrd_files_data = [m \in Nat |-> StartStep(m, initrd_files_data[m - 1])]
  BY <1>2 DEF initrd_files_data, StartStep
<1>4. initrd_files_data[n] = StartStep(n, initrd_files_data[n - 1])
  BY <1>3
<1> QED
  BY <1>4 DEF StartStep

\* What the image is.
LEMMA ImageFacts ==
  /\ Len(Image) \in Nat
  /\ \A i \in 1..Len(Image) : Image[i].bytes \in Seq(STRING) /\ Len(Image[i].bytes) \in Nat
<1>1. Image \in Seq([name : STRING, bytes : Seq(STRING)])
  BY FilesAssumption
<1>2. Len(Image) \in Nat
  BY <1>1
<1>3. ASSUME NEW i \in 1..Len(Image) PROVE Image[i] \in [name : STRING, bytes : Seq(STRING)]
  BY <1>1, ElementOfSeq, Zenon
<1>4. ASSUME NEW i \in 1..Len(Image)
      PROVE  Image[i].bytes \in Seq(STRING) /\ Len(Image[i].bytes) \in Nat
  <2>1. Image[i].bytes \in Seq(STRING)
    BY <1>3
  <2> QED
    BY <2>1
<1> QED
  BY <1>2, <1>4

\* Putting one sequence after another.
LEMMA AppendFacts ==
  ASSUME NEW s \in Seq(STRING), NEW t \in Seq(STRING)
  PROVE  /\ s \o t \in Seq(STRING) /\ Len(s) \in Nat /\ Len(t) \in Nat
         /\ Len(s \o t) = Len(s) + Len(t)
         /\ \A j \in 1..Len(s) : (s \o t)[j] = s[j]
         /\ \A j \in 1..Len(t) : (s \o t)[Len(s) + j] = t[j]
OBVIOUS

\* File i lies in s from where initrd_init takes it to lie.
LiesIn(i, s) ==
  /\ initrd_files_data[i] \in Nat
  /\ initrd_files_data[i] + Len(Image[i].bytes) <= Len(s)
  /\ \A j \in 1..Len(Image[i].bytes) : s[initrd_files_data[i] + j] = Image[i].bytes[j]

\* The first n files end where the next one starts, and each of them lies
\* where it was found.
LEMMA FilesLie ==
  \A n \in Nat : n <= Len(Image) =>
    /\ FirstFiles[n] \in Seq(STRING)
    /\ Len(FirstFiles[n]) = initrd_files_data[n + 1]
    /\ \A i \in 1..n : LiesIn(i, FirstFiles[n])
<1> DEFINE P(n) == n <= Len(Image) =>
                     /\ FirstFiles[n] \in Seq(STRING)
                     /\ Len(FirstFiles[n]) = initrd_files_data[n + 1]
                     /\ \A i \in 1..n : LiesIn(i, FirstFiles[n])
           S == {n \in Nat : P(n)}
<1>1. 0 \in S
  <2>1. FirstFiles[0] = <<>> /\ initrd_files_data[0 + 1] = 0
    BY FirstFilesDef, StartDef
  <2>2. FirstFiles[0] \in Seq(STRING) /\ Len(FirstFiles[0]) = initrd_files_data[0 + 1]
    BY <2>1
  <2>3. \A i \in 1..0 : LiesIn(i, FirstFiles[0])
    OBVIOUS
  <2> QED
    BY <2>2, <2>3
<1>2. ASSUME NEW n \in Nat, n \in S PROVE n + 1 \in S
  <2>1. SUFFICES ASSUME n + 1 <= Len(Image)
                 PROVE  /\ FirstFiles[n + 1] \in Seq(STRING)
                        /\ Len(FirstFiles[n + 1]) = initrd_files_data[(n + 1) + 1]
                        /\ \A i \in 1..(n + 1) : LiesIn(i, FirstFiles[n + 1])
    OBVIOUS
  <2>2. n <= Len(Image) /\ n + 1 \in 1..Len(Image)
    BY <2>1, ImageFacts
  <2>3. PICK s, t, u : s = FirstFiles[n] /\ t = Image[n + 1].bytes /\ u = FirstFiles[n + 1]
    OBVIOUS
  <2>4. /\ s \in Seq(STRING) /\ Len(s) = initrd_files_data[n + 1]
        /\ \A i \in 1..n : LiesIn(i, s)
    BY <1>2, <2>2, <2>3
  <2>5. t \in Seq(STRING)
    BY <2>2, <2>3, ImageFacts
  <2>6. u = s \o t
    <3>1. n + 1 \in Nat /\ n + 1 # 0 /\ (n + 1) - 1 = n
      OBVIOUS
    <3> QED
      BY <2>3, <3>1, FirstFilesDef
  <2>7. /\ u \in Seq(STRING) /\ Len(s) \in Nat /\ Len(t) \in Nat /\ Len(u) = Len(s) + Len(t)
        /\ \A j \in 1..Len(s) : u[j] = s[j]
        /\ \A j \in 1..Len(t) : u[Len(s) + j] = t[j]
    BY <2>4, <2>5, <2>6, AppendFacts
  <2>8. initrd_files_data[(n + 1) + 1] = initrd_files_data[n + 1] + Len(t)
    <3>1. (n + 1) + 1 \in Nat /\ ~((n + 1) + 1 < 2) /\ ((n + 1) + 1) - 1 = n + 1
      OBVIOUS
    <3> QED
      BY <2>3, <3>1, StartDef
  <2>9. ASSUME NEW i \in 1..n PROVE LiesIn(i, u)
    <3>1. PICK k, f : k = initrd_files_data[i] /\ f = Image[i].bytes
      OBVIOUS
    <3>2. Len(f) \in Nat
      BY <2>2, <3>1, ImageFacts
    <3>3. k \in Nat /\ k + Len(f) <= Len(s) /\ \A j \in 1..Len(f) : s[k + j] = f[j]
      BY <2>4, <3>1 DEF LiesIn
    <3>4. ASSUME NEW j \in 1..Len(f) PROVE u[k + j] = f[j]
      <4>1. k + j \in 1..Len(s)
        BY <2>7, <3>2, <3>3
      <4> QED
        BY <2>7, <3>3, <4>1
    <3>5. k + Len(f) <= Len(u)
      BY <2>7, <3>2, <3>3
    <3> QED
      BY <3>1, <3>3, <3>4, <3>5 DEF LiesIn
  <2>10. LiesIn(n + 1, u)
    BY <2>3, <2>4, <2>7 DEF LiesIn
  <2>11. \A i \in 1..(n + 1) : i \in 1..n \/ i = n + 1
    OBVIOUS
  <2>12. \A i \in 1..(n + 1) : LiesIn(i, u)
    BY <2>9, <2>10, <2>11
  <2> QED
    BY <2>3, <2>4, <2>7, <2>8, <2>12
<1>3. \A n \in Nat : n \in S
  <2> HIDE DEF S
  <2> QED
    BY <1>1, <1>2, SetInduction
<1> QED
  BY <1>3

\* A part of a sequence, element by element.
LEMMA PartFacts ==
  ASSUME NEW s \in Seq(STRING), NEW k \in Nat, NEW n \in Nat, k + n <= Len(s)
  PROVE  /\ SubSeq(s, k + 1, k + n) \in Seq(STRING) /\ Len(SubSeq(s, k + 1, k + n)) = n
         /\ \A j \in 1..n : SubSeq(s, k + 1, k + n)[j] = s[k + j]
OBVIOUS

\* Two sequences that agree up to n have the same beginning of that length.
LEMMA SameBeginning ==
  ASSUME NEW s \in Seq(STRING), NEW t \in Seq(STRING), Len(s) <= Len(t),
         \A j \in 1..Len(s) : s[j] = t[j]
  PROVE  IsPrefix(s, t)
<1>1. Len(s) \in Nat /\ Len(t) \in Nat
  OBVIOUS
<1>2. SubSeq(s, 1, Len(s)) = [j \in 1..Len(s) |-> s[j]]
  BY <1>1
<1>3. SubSeq(t, 1, Len(s)) = [j \in 1..Len(s) |-> t[j]]
  BY <1>1
<1>4. [j \in 1..Len(s) |-> s[j]] = [j \in 1..Len(s) |-> t[j]]
  OBVIOUS
<1> QED
  BY <1>2, <1>3, <1>4 DEF IsPrefix

\* initrd_read gives the beginning of the file, as much as is asked for and
\* there is, however many files lie before it in the image.
LEMMA ReadFacts ==
  ASSUME NEW node, node.fs = "initrd", node.inode \in 1..Len(Image), NEW count \in Nat
  PROVE  /\ IsPrefix(initrd_read(node, count), Image[node.inode].bytes)
         /\ Len(initrd_read(node, count)) <= count
         /\ Len(initrd_read(node, count)) \in {count, Len(Image[node.inode].bytes)}
<1>1. PICK i, f, s, k : /\ i = node.inode /\ f = Image[i].bytes
                        /\ s = ImageBytes /\ k = initrd_files_data[i]
  OBVIOUS
<1>2. Len(Image) \in Nat /\ i \in 1..Len(Image) /\ i \in Nat /\ i > 0 /\ f \in Seq(STRING) /\ Len(f) \in Nat
  BY <1>1, ImageFacts
<1>3. s \in Seq(STRING) /\ LiesIn(i, s)
  <2>1. Len(Image) <= Len(Image)
    BY <1>2
  <2> QED
    BY <1>1, <1>2, <2>1, FilesLie DEF ImageBytes
<1>4. k \in Nat /\ k + Len(f) <= Len(s) /\ \A j \in 1..Len(f) : s[k + j] = f[j]
  BY <1>1, <1>3 DEF LiesIn
<1>5. PICK n : n = IF count < Len(f) THEN count ELSE Len(f)
  OBVIOUS
<1>6. n \in Nat /\ n <= Len(f) /\ n <= count /\ n \in {count, Len(f)} /\ k + n <= Len(s)
  <2>1. Len(s) \in Nat
    BY <1>3
  <2> QED
    BY <1>2, <1>4, <1>5, <2>1
<1>7. PICK r : r = SubSeq(s, k + 1, k + n)
  OBVIOUS
<1>8. r \in Seq(STRING) /\ Len(r) = n /\ \A j \in 1..n : r[j] = s[k + j]
  BY <1>3, <1>4, <1>6, <1>7, PartFacts
<1>9. \A j \in 1..Len(r) : r[j] = f[j]
  <2>1. SUFFICES ASSUME NEW j \in 1..Len(r) PROVE r[j] = f[j]
    OBVIOUS
  <2>2. j \in 1..n
    BY <1>8
  <2>3. j \in 1..Len(f)
    BY <1>2, <1>6, <2>2
  <2>4. r[j] = s[k + j]
    BY <1>8, <2>2
  <2>5. s[k + j] = f[j]
    BY <1>4, <2>3
  <2> QED
    BY <2>4, <2>5
<1>10. IsPrefix(r, f)
  BY <1>2, <1>6, <1>8, <1>9, SameBeginning
<1>11. initrd_read(node, count) = r
  <2>1. FileSize(node) = Len(f)
    BY <1>1, <1>2 DEF FileSize
  <2>2. FileStart(node.inode) = k
    BY <1>1 DEF FileStart
  <2> QED
    BY <1>1, <1>5, <1>7, <2>1, <2>2 DEF initrd_read
<1> QED
  BY <1>1, <1>6, <1>8, <1>10, <1>11

\* What a descriptor of a process that may count on it gives when it is read.
LEMMA ReadStep ==
  ASSUME IInv, NEW p \in DOMAIN opened, NEW fd, NEW count \in Nat, Read(p, fd, count)
  PROVE  IF fd \notin DOMAIN opened[p] THEN ret'.answer = Error
         ELSE LET node == opened[p][fd]
              IN  node.fs = "initrd" /\ node.inode > 0 =>
                    /\ IsPrefix(ret'.answer.bytes, Image[node.inode].bytes)
                    /\ Len(ret'.answer.bytes) <= count
                    /\ Len(ret'.answer.bytes) \in {count, Len(Image[node.inode].bytes)}
<1>1. Running /\ Look(p, "read", fd, Success(vfs_read(Fds(p)[fd], count)))
  BY DEF Read, Look
<1>2. Types /\ KeptBy(p)
  BY <1>1 DEF IInv
<1>3. Fds(p) = opened[p] /\ ~Dangling(p) /\ ~Endless(p, fd)
  BY <1>2, CallEnds DEF KeptBy, Fds
<1>4. ret' = Return("read", p, fd, IF fd \in DOMAIN opened[p]
                                   THEN Success(vfs_read(opened[p][fd], count)) ELSE Error)
  BY <1>1, <1>3, Zenon DEF Look
<1>5. ret'.answer = IF fd \in DOMAIN opened[p]
                    THEN Success(vfs_read(opened[p][fd], count)) ELSE Error
  BY <1>4 DEF Return
<1>6. CASE fd \notin DOMAIN opened[p]
  BY <1>5, <1>6
<1>7. CASE fd \in DOMAIN opened[p]
  <2>1. PICK node : node = opened[p][fd]
    OBVIOUS
  <2>2. SUFFICES ASSUME node.fs = "initrd", node.inode > 0
                 PROVE  /\ IsPrefix(ret'.answer.bytes, Image[node.inode].bytes)
                        /\ Len(ret'.answer.bytes) <= count
                        /\ Len(ret'.answer.bytes) \in {count, Len(Image[node.inode].bytes)}
    BY <1>7, <2>1
  <2>3. node \in Nodes
    <3>1. opened[p] \in Entries
      BY <1>2 DEF Types
    <3> QED
      BY <1>7, <2>1, <3>1, EntryFacts
  <2>4. node.inode \in 1..Len(Image)
    <3>1. Root.fs = "vfs" /\ Screen.fs = "dev" /\ Keyboard.fs = "dev"
      BY DEF Root, Screen, Keyboard, Node
    <3>2. \A fs : Node(fs, 0).inode = 0
      BY DEF Node
    <3>3. \A i : Node("initrd", i).inode = i
      BY DEF Node
    <3> QED
      BY <2>2, <2>3, <3>1, <3>2, <3>3 DEF Nodes
  <2>5. vfs_read(node, count) = initrd_read(node, count)
    <3>1. node # Keyboard
      BY <2>2 DEF Keyboard, Node
    <3> QED
      BY <2>2, <3>1 DEF vfs_read
  <2>6. ret'.answer.bytes = initrd_read(node, count)
    BY <1>5, <1>7, <2>1, <2>5 DEF Success
  <2> QED
    BY <2>2, <2>4, <2>6, ReadFacts
<1> QED
  BY <1>6, <1>7

\* What a read returns is the beginning of the file that the descriptor was
\* opened for (initrd_read), for every image: initrd_init finds each file
\* behind those before it, and no map of another process is read.
THEOREM ReadsReturnFile == Spec => ReadsFile
<1>1. IInv /\ [Next]_vars =>
        [\A p \in DOMAIN opened, fd \in 0..MaxFd, count \in Counts :
           Read(p, fd, count) =>
             IF fd \notin DOMAIN opened[p] THEN ret'.answer = Error
             ELSE LET node == opened[p][fd]
                  IN  node.fs = "initrd" /\ node.inode > 0 =>
                        /\ IsPrefix(ret'.answer.bytes, Image[node.inode].bytes)
                        /\ Len(ret'.answer.bytes) <= count
                        /\ Len(ret'.answer.bytes) \in {count, Len(Image[node.inode].bytes)}]_vars
  <2>1. Counts \subseteq Nat
    BY FilesAssumption
  <2> QED
    BY <2>1, ReadStep
<1> QED
  BY <1>1, AlwaysIInv, PTL DEF Spec, ReadsFile
=============================================================================
