-------------------------- MODULE ProtectionProofs --------------------------
(***************************************************************************)
(* The protect hook, for every tree of directories and links, every        *)
(* layout of checkouts and any number of sessions: what an allowed call    *)
(* was judged by, and that rescope and protect find the same checkout.     *)
(***************************************************************************)
EXTENDS Protection, WellFoundedInduction, SequenceTheorems, TLAPS

----------------------------------------------------------------------------
(* Induction along a path, and a longest one among some.                   *)

\* A set of numbers that holds 0 and goes on up to n holds all up to n.
LEMMA UpTo ==
  ASSUME NEW n \in Nat, NEW S, 0 \in S, \A i \in 1..n : i - 1 \in S => i \in S
  PROVE  \A i \in 0..n : i \in S
<1> DEFINE missing == {i \in 0..n : i \notin S}
<1> SUFFICES ASSUME missing # {} PROVE FALSE
  OBVIOUS
<1>1. PICK i \in missing : \A j \in missing : ~ (<<j, i>> \in OpToRel(<, Nat))
  <2>1. missing \subseteq Nat
    OBVIOUS
  <2> HIDE DEF missing
  <2> QED
    BY <2>1, NatLessThanWellFounded, WFMin
<1>2. i \in 1..n
  OBVIOUS
<1>3. i - 1 \in missing
  BY <1>2
<1>4. <<i - 1, i>> \in OpToRel(<, Nat)
  BY <1>2 DEF OpToRel
<1> QED
  BY <1>1, <1>3, <1>4

\* Among some sequences of bounded length there is a longest one.
LEMMA LongestExists ==
  ASSUME NEW S, NEW s0 \in S, NEW n \in Nat,
         \A s \in S : Len(s) \in Nat /\ Len(s) <= n
  PROVE  \E s \in S : \A t \in S : Len(t) <= Len(s)
<1> DEFINE gaps == {n - Len(s) : s \in S}
<1>1. gaps \subseteq Nat /\ gaps # {}
  OBVIOUS
<1>2. PICK g \in gaps : \A h \in gaps : ~ (<<h, g>> \in OpToRel(<, Nat))
  <2> HIDE DEF gaps
  <2> QED
    BY <1>1, NatLessThanWellFounded, WFMin
<1>3. PICK s \in S : g = n - Len(s)
  OBVIOUS
<1>4. ASSUME NEW t \in S PROVE Len(t) <= Len(s)
  <2> SUFFICES ASSUME ~ (Len(t) <= Len(s)) PROVE FALSE
    OBVIOUS
  <2>1. n - Len(t) \in gaps /\ n - Len(t) \in Nat /\ g \in Nat /\ n - Len(t) < g
    BY <1>3
  <2>2. <<n - Len(t), g>> \in OpToRel(<, Nat)
    BY <2>1 DEF OpToRel
  <2> QED
    BY <1>2, <2>1, <2>2
<1> QED
  BY <1>4

----------------------------------------------------------------------------
(* Paths, read lexically and followed.                                     *)

\* One name on from a path leads to a path.
LEMMA ClimbIsAPath ==
  ASSUME NEW path \in Paths, NEW name \in Names
  PROVE  Parent(path) \in Paths /\ Climb(path, name) \in Paths
<1>1. Parent(path) \in Paths
  BY DEF Parent, Front, Paths
<1>2. Append(path, name) \in Paths
  BY DEF Paths
<1> QED
  BY <1>1, <1>2 DEF Climb

\* And so does one name on through a link.
LEMMA EnterIsAPath ==
  ASSUME NEW path \in Paths, NEW name \in Names
  PROVE  Enter(path, name) \in Paths
<1>1. Climb(path, name) \in Paths
  BY ClimbIsAPath
<1> QED
  BY <1>1, ProtectionAssumption, DirectoriesAssumption DEF Enter

\* Any way of going one name on can be followed along a path.
LEMMA WalkExists ==
  ASSUME NEW names \in Paths, NEW step \in [Paths \X Names -> Paths]
  PROVE  \E walk \in [0..Len(names) -> Paths] :
           /\ walk[0] = <<>>
           /\ \A i \in 1..Len(names) : walk[i] = step[<<walk[i - 1], names[i]>>]
<1> DEFINE Follows(walk, n) == /\ walk \in [0..n -> Paths]
                               /\ walk[0] = <<>>
                               /\ \A i \in 1..n : walk[i] = step[<<walk[i - 1], names[i]>>]
           done == {n \in 0..Len(names) : \E walk \in [0..n -> Paths] : Follows(walk, n)}
<1>0. Len(names) \in Nat /\ \A i \in 1..Len(names) : names[i] \in Names
  BY DEF Paths
<1>1. 0 \in done
  <2> DEFINE none == [i \in 0..0 |-> <<>>]
  <2>1. none \in [0..0 -> Paths] /\ none[0] = <<>> /\ 1..0 = {}
    BY DEF Paths
  <2>2. \A i \in 1..0 : none[i] = step[<<none[i - 1], names[i]>>]
    BY <2>1
  <2> HIDE DEF none
  <2> QED
    BY <1>0, <2>1, <2>2
<1>2. ASSUME NEW n \in 1..Len(names), n - 1 \in done PROVE n \in done
  <2>1. PICK walk \in [0..(n - 1) -> Paths] : Follows(walk, n - 1)
    BY <1>2
  <2> DEFINE last == step[<<walk[n - 1], names[n]>>]
             longer == [i \in 0..n |-> IF i = n THEN last ELSE walk[i]]
  <2>2. walk[n - 1] \in Paths /\ n - 1 \in 0..(n - 1) /\ names[n] \in Names
    BY <1>0, <1>2, <2>1
  <2>3. last \in Paths
    BY <2>2
  <2>4. longer \in [0..n -> Paths] /\ longer[n] = last /\ n \in 1..n
    BY <1>0, <2>1, <2>3
  <2>5. \A i \in 0..(n - 1) : longer[i] = walk[i]
    BY <1>0
  <2>6. longer[0] = <<>>
    BY <2>1, <2>2, <2>5
  <2> HIDE DEF longer
  <2>7. ASSUME NEW i \in 1..n PROVE longer[i] = step[<<longer[i - 1], names[i]>>]
    <3>1. longer[i - 1] = walk[i - 1]
      BY <1>0, <2>5
    <3>2. CASE i = n
      BY <2>4, <3>1, <3>2
    <3>3. CASE i \in 1..(n - 1)
      <4>1. walk[i] = step[<<walk[i - 1], names[i]>>]
        BY <2>1, <3>3
      <4>2. longer[i] = walk[i]
        BY <2>5, <3>3
      <4> QED
        BY <3>1, <4>1, <4>2
    <3> QED
      BY <1>0, <3>2, <3>3
  <2> QED
    BY <1>0, <2>4, <2>6, <2>7
<1>3. \A n \in 0..Len(names) : n \in done
  <2> HIDE DEF done
  <2> QED
    BY <1>0, <1>1, <1>2, UpTo
<1>4. Len(names) \in done
  BY <1>0, <1>3
<1> QED
  BY <1>4

\* Path.resolve goes on by one name after the other.
LEMMA RealIsAWalk ==
  ASSUME NEW names \in Paths
  PROVE  \E walk \in [0..Len(names) -> Paths] :
           /\ walk[0] = <<>>
           /\ \A i \in 1..Len(names) : walk[i] = Enter(walk[i - 1], names[i])
           /\ Real(names) = walk[Len(names)]
<1> DEFINE Rule(walk) == [i \in 0..Len(names) |-> IF i = 0 THEN <<>>
                                                  ELSE Enter(walk[i - 1], names[i])]
           followed == CHOOSE walk : walk = Rule(walk)
           step == [x \in Paths \X Names |-> Enter(x[1], x[2])]
<1>0. Len(names) \in Nat /\ \A i \in 1..Len(names) : names[i] \in Names
  BY DEF Paths
<1>1. step \in [Paths \X Names -> Paths]
  BY EnterIsAPath
<1>2. PICK walk \in [0..Len(names) -> Paths] :
        /\ walk[0] = <<>>
        /\ \A i \in 1..Len(names) : walk[i] = step[<<walk[i - 1], names[i]>>]
  <2> HIDE DEF step
  <2> QED
    BY <1>1, WalkExists
<1>3. \A i \in 1..Len(names) : walk[i] = Enter(walk[i - 1], names[i])
  <2> SUFFICES ASSUME NEW i \in 1..Len(names) PROVE walk[i] = Enter(walk[i - 1], names[i])
    OBVIOUS
  <2>1. <<walk[i - 1], names[i]>> \in Paths \X Names
    BY <1>0, <1>2
  <2>2. walk[i] = step[<<walk[i - 1], names[i]>>]
    BY <1>2
  <2> QED
    BY <2>1, <2>2
<1>4. walk = Rule(walk)
  BY <1>0, <1>2, <1>3
<1>5. followed = Rule(followed)
  BY <1>4
<1> HIDE DEF followed
<1>6. \A i \in 0..Len(names) : followed[i] \in Paths
  <2> DEFINE typed == {j \in 0..Len(names) : followed[j] \in Paths}
  <2>1. 0 \in typed
    <3>1. <<>> \in Paths
      BY DEF Paths
    <3> QED
      BY <1>0, <1>5, <3>1
  <2>2. ASSUME NEW i \in 1..Len(names), i - 1 \in typed PROVE i \in typed
    <3>1. followed[i] = Enter(followed[i - 1], names[i])
      BY <1>0, <1>5
    <3>2. followed[i - 1] \in Paths /\ names[i] \in Names
      BY <1>0, <2>2
    <3>3. followed[i] \in Paths
      BY <3>1, <3>2, EnterIsAPath
    <3> QED
      BY <3>3
  <2>3. \A i \in 0..Len(names) : i \in typed
    <3> HIDE DEF typed
    <3> QED
      BY <1>0, <2>1, <2>2, UpTo
  <2> QED
    BY <2>3
<1>7. Real(names) = followed[Len(names)]
  BY DEF Real, followed
<1>8. followed \in [0..Len(names) -> Paths]
  BY <1>5, <1>6
<1>9. followed[0] = <<>> /\ \A i \in 1..Len(names) : followed[i] = Enter(followed[i - 1], names[i])
  BY <1>0, <1>5
<1> QED
  BY <1>7, <1>8, <1>9

\* os.path.normpath takes one name after the other.
LEMMA LexicalIsAWalk ==
  ASSUME NEW names \in Paths
  PROVE  \E walk \in [0..Len(names) -> Paths] :
           /\ walk[0] = <<>>
           /\ \A i \in 1..Len(names) : walk[i] = Climb(walk[i - 1], names[i])
           /\ Lexical(names) = walk[Len(names)]
<1> DEFINE Rule(walk) == [i \in 0..Len(names) |-> IF i = 0 THEN <<>>
                                                  ELSE Climb(walk[i - 1], names[i])]
           taken == CHOOSE walk : walk = Rule(walk)
           step == [x \in Paths \X Names |-> Climb(x[1], x[2])]
<1>0. Len(names) \in Nat /\ \A i \in 1..Len(names) : names[i] \in Names
  BY DEF Paths
<1>1. step \in [Paths \X Names -> Paths]
  BY ClimbIsAPath
<1>2. PICK walk \in [0..Len(names) -> Paths] :
        /\ walk[0] = <<>>
        /\ \A i \in 1..Len(names) : walk[i] = step[<<walk[i - 1], names[i]>>]
  <2> HIDE DEF step
  <2> QED
    BY <1>1, WalkExists
<1>3. \A i \in 1..Len(names) : walk[i] = Climb(walk[i - 1], names[i])
  <2> SUFFICES ASSUME NEW i \in 1..Len(names) PROVE walk[i] = Climb(walk[i - 1], names[i])
    OBVIOUS
  <2>1. <<walk[i - 1], names[i]>> \in Paths \X Names
    BY <1>0, <1>2
  <2>2. walk[i] = step[<<walk[i - 1], names[i]>>]
    BY <1>2
  <2> QED
    BY <2>1, <2>2
<1>4. walk = Rule(walk)
  BY <1>0, <1>2, <1>3
<1>5. taken = Rule(taken)
  BY <1>4
<1> HIDE DEF taken
<1>6. \A i \in 0..Len(names) : taken[i] \in Paths
  <2> DEFINE typed == {j \in 0..Len(names) : taken[j] \in Paths}
  <2>1. 0 \in typed
    <3>1. <<>> \in Paths
      BY DEF Paths
    <3> QED
      BY <1>0, <1>5, <3>1
  <2>2. ASSUME NEW i \in 1..Len(names), i - 1 \in typed PROVE i \in typed
    <3>1. taken[i] = Climb(taken[i - 1], names[i])
      BY <1>0, <1>5
    <3>2. taken[i - 1] \in Paths /\ names[i] \in Names
      BY <1>0, <2>2
    <3>3. taken[i] \in Paths
      BY <3>1, <3>2, ClimbIsAPath
    <3> QED
      BY <3>3
  <2>3. \A i \in 0..Len(names) : i \in typed
    <3> HIDE DEF typed
    <3> QED
      BY <1>0, <2>1, <2>2, UpTo
  <2> QED
    BY <2>3
<1>7. Lexical(names) = taken[Len(names)]
  BY DEF Lexical, taken
<1>8. taken \in [0..Len(names) -> Paths]
  BY <1>5, <1>6
<1>9. taken[0] = <<>> /\ \A i \in 1..Len(names) : taken[i] = Climb(taken[i - 1], names[i])
  BY <1>0, <1>5
<1> QED
  BY <1>7, <1>8, <1>9

\* Both readings of a path are paths.
LEMMA ReadingsArePaths ==
  ASSUME NEW names \in Paths
  PROVE  Real(names) \in Paths /\ Lexical(names) \in Paths
<1>1. Len(names) \in 0..Len(names)
  BY DEF Paths
<1> QED
  BY <1>1, RealIsAWalk, LexicalIsAWalk

\* What a directory's real path goes through are directories.
LEMMA WayIsDirectories ==
  ASSUME NEW d \in Directories, NEW i \in 0..Len(d)
  PROVE  SubSeq(d, 1, i) \in Directories
<1> DEFINE lead(k) == SubSeq(d, 1, k)
           back == {j \in 0..Len(d) : lead(Len(d) - j) \in Directories}
<1>0. d \in Paths /\ Len(d) \in Nat
  BY DirectoriesAssumption DEF Paths
<1>1. lead(Len(d)) = d
  BY <1>0 DEF Paths
<1>2. ASSUME NEW k \in 1..Len(d), lead(k) \in Directories PROVE lead(k - 1) \in Directories
  <2>1. Len(lead(k)) = k /\ lead(k) # <<>>
    BY <1>0 DEF Paths
  <2>2. Front(lead(k)) \in Directories
    BY <1>2, <2>1, DirectoriesAssumption
  <2>3. Front(lead(k)) = lead(k - 1)
    BY <1>0, <2>1 DEF Front, Paths
  <2> QED
    BY <2>2, <2>3
<1>3. Len(d) - i \in back
  <2> HIDE DEF lead
  <2>1. 0 \in back
    <3>1. Len(d) - 0 = Len(d)
      BY <1>0
    <3> QED
      BY <1>0, <1>1, <3>1
  <2>2. ASSUME NEW j \in 1..Len(d), j - 1 \in back PROVE j \in back
    <3> DEFINE k == Len(d) - (j - 1)
    <3>1. k \in 1..Len(d) /\ k - 1 = Len(d) - j
      BY <1>0
    <3>2. lead(k) \in Directories
      BY <2>2
    <3>3. lead(k - 1) \in Directories
      BY <1>2, <3>1, <3>2
    <3> QED
      BY <1>0, <3>1, <3>3
  <2>3. \A j \in 0..Len(d) : j \in back
    <3> HIDE DEF back
    <3> QED
      BY <1>0, <2>1, <2>2, UpTo
  <2>4. Len(d) - i \in 0..Len(d)
    BY <1>0
  <2> HIDE DEF back
  <2> QED
    BY <2>3, <2>4
<1>4. Len(d) - (Len(d) - i) = i
  BY <1>0
<1>5. lead(Len(d) - (Len(d) - i)) \in Directories
  <2> HIDE DEF lead
  <2> QED
    BY <1>3
<1> QED
  BY <1>4, <1>5

\* A directory's real path leads to itself.
LEMMA RealOfDirectory ==
  ASSUME NEW d \in Directories
  PROVE  Real(d) = d
<1>0. d \in Paths /\ Len(d) \in Nat
  BY DirectoriesAssumption DEF Paths
<1>1. PICK walk \in [0..Len(d) -> Paths] :
        /\ walk[0] = <<>>
        /\ \A i \in 1..Len(d) : walk[i] = Enter(walk[i - 1], d[i])
        /\ Real(d) = walk[Len(d)]
  BY <1>0, RealIsAWalk
<1> DEFINE onTheWay == {i \in 0..Len(d) : walk[i] = SubSeq(d, 1, i)}
<1>2. 0 \in onTheWay
  BY <1>0, <1>1 DEF Paths
<1>3. ASSUME NEW i \in 1..Len(d), i - 1 \in onTheWay PROVE i \in onTheWay
  <2> DEFINE e == SubSeq(d, 1, i)
  <2>1. e \in Directories
    BY <1>0, WayIsDirectories
  <2>2. Len(e) = i /\ e # <<>> /\ e[Len(e)] = d[i]
    BY <1>0 DEF Paths
  <2>3. e \notin DOMAIN Links /\ d[i] # ".."
    BY <2>1, <2>2, DirectoriesAssumption DEF Last
  <2>4. walk[i] = Enter(SubSeq(d, 1, i - 1), d[i])
    BY <1>1, <1>3
  <2>5. Append(SubSeq(d, 1, i - 1), d[i]) = e
    BY <1>0 DEF Paths
  <2>6. Enter(SubSeq(d, 1, i - 1), d[i]) = e
    BY <2>3, <2>5 DEF Enter, Climb
  <2> QED
    BY <2>4, <2>6
<1>4. Len(d) \in onTheWay
  <2>1. \A i \in 0..Len(d) : i \in onTheWay
    <3> HIDE DEF onTheWay
    <3> QED
      BY <1>0, <1>2, <1>3, UpTo
  <2>2. Len(d) \in 0..Len(d)
    BY <1>0
  <2> HIDE DEF onTheWay
  <2> QED
    BY <2>1, <2>2
<1>5. SubSeq(d, 1, Len(d)) = d
  BY <1>0 DEF Paths
<1> QED
  BY <1>1, <1>4, <1>5

----------------------------------------------------------------------------
(* The checkouts around a path.                                            *)

PayloadPath == [absolute : BOOLEAN, names : Paths]

\* git finds a checkout whenever one lies around a directory, and it is the
\* innermost one.
LEMMA InnermostAround ==
  ASSUME NEW directory \in Paths
  PROVE  /\ ResolvePathCheckout(directory) \in Roots \cup {NoCheckout}
         /\ ResolvePathCheckout(directory) # NoCheckout =>
              /\ IsDir(directory)
              /\ IsPrefix(ResolvePathCheckout(directory), Real(directory))
         /\ IsDir(directory) => \A s \in Roots :
              IsPrefix(s, Real(directory)) =>
                /\ ResolvePathCheckout(directory) # NoCheckout
                /\ Len(s) <= Len(ResolvePathCheckout(directory))
<1> DEFINE around == {r \in Roots : IsPrefix(r, Real(directory))}
           found == ResolvePathCheckout(directory)
<1>1. CASE ~IsDir(directory) \/ around = {}
  <2>1. found = NoCheckout
    BY <1>1 DEF ResolvePathCheckout
  <2> QED
    BY <1>1, <2>1
<1>2. CASE IsDir(directory) /\ around # {}
  <2>1. found = CHOOSE r \in around : \A s \in around : Len(s) <= Len(r)
    BY <1>2 DEF ResolvePathCheckout
  <2>2. Real(directory) \in Paths
    BY ReadingsArePaths
  <2>3. \A s \in around : Len(s) \in Nat /\ Len(s) <= Len(Real(directory))
    BY <2>2, ProtectionAssumption, DirectoriesAssumption DEF IsPrefix, Paths
  <2>4. Len(Real(directory)) \in Nat
    BY <2>2 DEF Paths
  <2>5. \E r \in around : \A s \in around : Len(s) <= Len(r)
    <3> HIDE DEF around
    <3>1. PICK s0 \in around : TRUE
      BY <1>2
    <3> QED
      BY <2>3, <2>4, <3>1, LongestExists
  <2>6. found \in around /\ \A s \in around : Len(s) <= Len(found)
    <3> HIDE DEF around, found
    <3> QED
      BY <2>1, <2>5
  <2> QED
    BY <1>2, <2>6, ProtectionAssumption, DirectoriesAssumption
<1> QED
  BY <1>1, <1>2

\* Two spellings of one directory are in the same checkout.
LEMMA SameDirectorySameCheckout ==
  ASSUME NEW one, NEW two, Real(one) = Real(two)
  PROVE  ResolvePathCheckout(one) = ResolvePathCheckout(two)
BY DEF ResolvePathCheckout, IsDir

\* What is left of a path under a checkout, put after it, is the path again.
LEMMA EntryCompletesRoot ==
  ASSUME NEW path \in PayloadPath, NEW root \in Roots,
         RelativeScopeEntry(path, root) # NoPath
  PROVE  /\ IsStrictPrefix(root, Real(path.names))
         /\ RelativeScopeEntry(path, root) \in Paths \ {<<>>}
         /\ root \o RelativeScopeEntry(path, root) = Real(path.names)
<1> DEFINE real == Real(path.names)
           entry == SubSeq(real, Len(root) + 1, Len(real))
<1>1. real \in Seq(Names) /\ root \in Seq(Names)
  BY ReadingsArePaths, ProtectionAssumption, DirectoriesAssumption DEF PayloadPath, Paths
<1>2. IsStrictPrefix(root, real) /\ RelativeScopeEntry(path, root) = entry
  BY DEF RelativeScopeEntry
<1> HIDE DEF real
<1>3. /\ Len(root) \in Nat /\ Len(real) \in Nat /\ Len(root) <= Len(real)
      /\ \A i \in 1..Len(root) : root[i] = real[i]
  <2>1. Len(root) <= Len(real) /\ SubSeq(root, 1, Len(root)) = SubSeq(real, 1, Len(root))
    BY <1>2 DEF IsStrictPrefix, IsPrefix
  <2>2. Len(root) \in Nat /\ Len(real) \in Nat
    BY <1>1
  <2>3. ASSUME NEW i \in 1..Len(root) PROVE root[i] = real[i]
    <3>1. SubSeq(root, 1, Len(root))[i] = root[i] /\ SubSeq(real, 1, Len(root))[i] = real[i]
      BY <1>1, <2>1, <2>2
    <3> QED
      BY <2>1, <3>1
  <2> QED
    BY <2>1, <2>2, <2>3
<1>4. Len(root) # Len(real)
  <2> SUFFICES ASSUME Len(root) = Len(real) PROVE FALSE
    OBVIOUS
  <2>1. root = real
    BY <1>1, <1>3, SeqEqual
  <2> QED
    BY <1>2, <2>1 DEF IsStrictPrefix
<1>5. entry \in Seq(Names) /\ Len(entry) = Len(real) - Len(root)
      /\ \A i \in 1..(Len(real) - Len(root)) : entry[i] = real[Len(root) + i]
  BY <1>1, <1>3
<1>6. root \o entry = real
  <2>1. root \o entry \in Seq(Names) /\ Len(root \o entry) = Len(real)
    BY <1>1, <1>3, <1>5
  <2>2. ASSUME NEW i \in 1..Len(real) PROVE (root \o entry)[i] = real[i]
    <3>1. CASE i \in 1..Len(root)
      BY <1>1, <1>3, <1>5, <3>1
    <3>2. CASE i \in (Len(root) + 1)..Len(real)
      <4>1. (root \o entry)[i] = entry[i - Len(root)]
        BY <1>1, <1>3, <1>5, <3>2
      <4>2. i - Len(root) \in 1..(Len(real) - Len(root))
        BY <1>3, <3>2
      <4> QED
        BY <1>3, <1>5, <4>1, <4>2
    <3> QED
      BY <1>3, <3>1, <3>2
  <2> HIDE DEF entry
  <2> QED
    BY <1>1, <2>1, <2>2, SeqEqual
<1>7. entry # <<>>
  BY <1>3, <1>4, <1>5
<1> QED
  BY <1>2, <1>5, <1>6, <1>7 DEF real, Paths


\* The checkout that weighs a path is one, when there is one.
LEMMA WeighedByACheckout ==
  ASSUME NEW path \in PayloadPath
  PROVE  CheckoutOf(path) \in Roots \cup {NoCheckout}
<1>1. Lexical(path.names) \in Paths
  BY ReadingsArePaths DEF PayloadPath
<1>2. Parent(Lexical(path.names)) \in Paths
  BY <1>1 DEF Parent, Front, Paths
<1> QED
  BY <1>1, <1>2, InnermostAround DEF CheckoutOf, OrElse

\* A prefix of a sequence with one more name is a prefix of it, or all of it.
LEMMA PrefixOfAppend ==
  ASSUME NEW s \in Paths, NEW t \in Paths, NEW name \in Names, IsPrefix(s, Append(t, name))
  PROVE  IsPrefix(s, t) \/ s = Append(t, name)
<1> DEFINE longer == Append(t, name)
<1>1. /\ longer \in Seq(Names) /\ Len(longer) = Len(t) + 1 /\ Len(t) \in Nat /\ Len(s) \in Nat
      /\ \A i \in 1..Len(t) : longer[i] = t[i]
  BY DEF Paths
<1>2. Len(s) <= Len(longer) /\ SubSeq(s, 1, Len(s)) = SubSeq(longer, 1, Len(s))
  BY DEF IsPrefix
<1>3. SubSeq(s, 1, Len(s)) = s
  BY DEF Paths
<1>4. CASE Len(s) = Len(longer)
  <2>1. SubSeq(longer, 1, Len(s)) = longer
    BY <1>1, <1>4
  <2> QED
    BY <1>2, <1>3, <2>1
<1>5. CASE Len(s) <= Len(t)
  <2> DEFINE left == SubSeq(longer, 1, Len(s))
             right == SubSeq(t, 1, Len(s))
  <2>1. left \in Seq(Names) /\ right \in Seq(Names) /\ Len(left) = Len(s) /\ Len(right) = Len(s)
    BY <1>1, <1>5 DEF Paths
  <2>2. \A i \in 1..Len(s) : left[i] = right[i]
    BY <1>1, <1>5 DEF Paths
  <2>3. left = right
    <3> HIDE DEF left, right
    <3> QED
      BY <2>1, <2>2, SeqEqual
  <2> QED
    BY <1>2, <1>5, <2>3 DEF IsPrefix
<1> QED
  BY <1>1, <1>2, <1>4, <1>5

\* A root is a prefix of itself.
LEMMA RootIsAPrefix ==
  ASSUME NEW s \in Paths
  PROVE  IsPrefix(s, s)
BY DEF IsPrefix, Paths

\* protect's checkout for a plainly spelled path is the innermost one around
\* the place it leads to.
LEMMA PlainPathIsWeighedInside ==
  ASSUME NEW path \in PayloadPath, PlainlySpelled(path.names),
         CheckoutOf(path) # NoCheckout,
         NEW s \in Roots, IsPrefix(s, Real(path.names))
  PROVE  Len(s) <= Len(CheckoutOf(path))
<1> DEFINE lexical == Lexical(path.names)
           parent == Parent(lexical)
           self == ResolvePathCheckout(lexical)
           outer == ResolvePathCheckout(parent)
<1>1. lexical \in Paths /\ Real(lexical) \in Paths /\ s \in Paths
  BY ReadingsArePaths, ProtectionAssumption, DirectoriesAssumption DEF PayloadPath
<1>2. parent \in Paths
  BY <1>1 DEF Parent, Front, Paths
<1>3. IsPrefix(s, Real(lexical))
  BY DEF PlainlySpelled
<1>4. CASE CheckoutOf(path) = self
  <2>1. IsDir(lexical)
    BY <1>1, <1>4, InnermostAround
  <2> QED
    BY <1>1, <1>3, <1>4, <2>1, InnermostAround
<1>5. CASE CheckoutOf(path) = outer /\ outer # NoCheckout /\ CheckoutOf(path) # self
  <2>1. Real(lexical) = Append(Real(parent), Last(lexical)) /\ Real(parent) \in Paths
    BY <1>2, ReadingsArePaths DEF PlainlySpelled
  <2>2. lexical # <<>>
    <3> SUFFICES ASSUME lexical = <<>> PROVE FALSE
      OBVIOUS
    <3>1. parent = lexical
      BY DEF Parent
    <3> QED
      BY <1>5, <3>1
  <2>3. Last(lexical) \in Names
    BY <1>1, <2>2 DEF Last, Paths
  <2>4. CASE IsPrefix(s, Real(parent))
    BY <1>2, <1>5, <2>4, InnermostAround
  <2>5. CASE s = Real(lexical)
    <3>1. lexical = s
      BY <2>5 DEF PlainlySpelled
    <3>2. IsDir(lexical)
      BY <2>5, ProtectionAssumption DEF IsDir
    <3>3. self # NoCheckout /\ Len(s) <= Len(self) /\ IsPrefix(self, s) /\ self \in Roots
      BY <1>1, <1>3, <2>5, <3>2, InnermostAround
    <3>4. self = s
      <4>1. self \in Paths
        BY <3>3, ProtectionAssumption, DirectoriesAssumption
      <4>2. Len(self) = Len(s)
        BY <1>1, <3>3, <4>1 DEF IsPrefix, Paths
      <4>3. SubSeq(self, 1, Len(self)) = self /\ SubSeq(s, 1, Len(s)) = s
        BY <1>1, <4>1 DEF Paths
      <4> QED
        BY <3>3, <4>2, <4>3 DEF IsPrefix
    <3>5. CheckoutOf(path) = self
      BY <3>1, <3>2, <3>4 DEF CheckoutOf
    <3> QED
      BY <1>5, <3>5
  <2> QED
    BY <1>1, <1>3, <2>1, <2>3, <2>4, <2>5, PrefixOfAppend
<1> QED
  BY <1>4, <1>5 DEF CheckoutOf, OrElse

\* rescope and protect ask git about the same directory when both readings of
\* a path and of its parent lead to the same places.
LEMMA BothFindTheCheckout ==
  ASSUME NEW path \in PayloadPath, LexicallyRead(path.names),
         Real(path.names) \notin Roots, RescopeCheckout(path) # NoCheckout
  PROVE  CheckoutOf(path) = RescopeCheckout(path)
<1> DEFINE lexical == Lexical(path.names)
           self == ResolvePathCheckout(lexical)
<1>1. lexical \in Paths
  BY ReadingsArePaths DEF PayloadPath
<1>2. self # lexical
  <2> SUFFICES ASSUME self = lexical PROVE FALSE
    OBVIOUS
  <2>1. lexical \in Roots \/ lexical = NoCheckout
    BY <1>1, InnermostAround
  <2>2. CASE lexical \in Roots
    <3>1. Real(lexical) = lexical
      BY <2>2, RealOfDirectory, ProtectionAssumption
    <3> QED
      BY <2>2, <3>1 DEF LexicallyRead
  <2>3. CASE lexical = NoCheckout
    BY <1>1, <2>3, ProtectionAssumption
  <2> QED
    BY <2>1, <2>2, <2>3
<1>3. ResolvePathCheckout(Parent(lexical)) = ResolvePathCheckout(Parent(path.names))
  BY SameDirectorySameCheckout DEF LexicallyRead
<1> QED
  BY <1>2, <1>3 DEF CheckoutOf, RescopeCheckout, OrElse


----------------------------------------------------------------------------
(* The invariants of a call.                                               *)

ClaimRecord == [agent : Agents, branch : Branches, scope : SUBSET Paths]
Judgement == [names : Paths, root : Roots, branch : Branches, entry : Paths \ {<<>>}]

WorldTypeOK ==
    /\ branch \in [Roots -> Branches] /\ born \subseteq Roots
    /\ originHead \in [Repositories -> Branches \cup {NoBranch}]
    /\ claims \in [Repositories -> SUBSET ClaimRecord]
    /\ stood \in [Repositories -> SUBSET (SUBSET ClaimRecord)]
    /\ rescoped \in PayloadPath \cup {NoPath}
    /\ moves \in Nat

CallTypeOK ==
    /\ agent \in Agents \cup {NoAgent} /\ call \in Calls
    /\ at \in 0..Len(call.paths)
    /\ pc \in {"start", "path", "default", "state", "scope", "done"}
    /\ judging \in [root : Roots, branch : Branches] \cup {NoCheckout}
    /\ cache = [k \in DOMAIN cache |-> cache[k]] /\ DOMAIN cache \subseteq Repositories
    /\ judged \in Seq(Judgement)

\* The path a call has come to, its checkout, its entry and its snapshot.
Position ==
    /\ pc \in {"path", "default", "state", "scope"} => at \in 1..Len(call.paths)
    /\ pc \in {"default", "state", "scope"} =>
           judging.root = CheckoutOf(Payload) /\ judging \in [root : Roots, branch : Branches]
    /\ pc \in {"state", "scope"} => RelativeScopeEntry(Payload, judging.root) # NoPath
    /\ pc = "scope" => Repository[judging.root] \in DOMAIN cache

\* The claims a ref holds, and the snapshots of it, are states it has held.
StatesStood ==
    /\ \A r \in Repositories : claims[r] \in stood[r]
    /\ \A r \in DOMAIN cache : cache[r] \in stood[r]

\* What was judged and not denied fits the snapshot of its repository.
JudgedBySnapshot ==
    pc # "done" \/ verdict = "allow" =>
        \A i \in DOMAIN judged :
            /\ Repository[judged[i].root] \in DOMAIN cache
            /\ OverlappingClaimExists(cache[Repository[judged[i].root]], agent,
                                      judged[i].branch, judged[i].entry)

\* What was judged was judged by the checkout it lies in.
JudgedInside ==
    \A i \in DOMAIN judged :
        /\ judged[i].root \o judged[i].entry = Real(judged[i].names)
        /\ PlainlySpelled(judged[i].names) =>
               \A s \in Roots : IsPrefix(s, Real(judged[i].names)) => Len(s) <= Len(judged[i].root)

CallInv ==
    /\ WorldTypeOK /\ CallTypeOK /\ Position
    /\ StatesStood /\ JudgedBySnapshot /\ JudgedInside /\ RescopedPathIsWritable

CallStep == Judge \/ ResolveCheckout \/ RefuseMain \/ CachedClaimState \/ ScopeDenial

WorldStep == \/ StoreMoves \/ SwitchBranch \/ RecordOriginHead
             \/ \E i \in DOMAIN call.paths : Rescope(call.paths[i])

\* A step of a call leaves the world and the call's own words alone.
LEMMA CallStepKeepsWorld ==
  ASSUME CallStep
  PROVE  UNCHANGED <<world, agent, call, stood, rescoped, moves>>
BY DEF CallStep, Judge, ResolveCheckout, RefuseMain, CachedClaimState, ScopeDenial

\* A step of the world leaves the call alone.
LEMMA WorldStepKeepsCall ==
  ASSUME WorldStep
  PROVE  UNCHANGED <<agent, call, at, pc, judging, cache, verdict, judged>>
BY DEF WorldStep, StoreMoves, SwitchBranch, RecordOriginHead, Rescope, CallUnchanged

\* Every path of a call is a payload path.
LEMMA PathsArePaths ==
  ASSUME CallTypeOK, NEW i \in DOMAIN call.paths
  PROVE  call.paths[i] \in PayloadPath
<1>1. call.paths \in Seq(PayloadPath)
  BY ProtectionAssumption DEF CallTypeOK, PayloadPath
<1> QED
  BY <1>1

\* And so is the one it has come to.
LEMMA PayloadIsAPath ==
  ASSUME CallTypeOK, at \in 1..Len(call.paths)
  PROVE  Payload \in PayloadPath
<1>1. call.paths \in Seq(PayloadPath)
  BY ProtectionAssumption DEF CallTypeOK, PayloadPath
<1> QED
  BY <1>1 DEF Payload

\* A ref that takes another state stays well typed, and has held that state.
LEMMA StoreHoldsState ==
  ASSUME WorldTypeOK, StatesStood, NEW r \in Repositories, NEW state \in SUBSET ClaimRecord,
         StoreHolds(r, state), cache' = cache, DOMAIN cache \subseteq Repositories
  PROVE  /\ claims' \in [Repositories -> SUBSET ClaimRecord]
         /\ stood' \in [Repositories -> SUBSET (SUBSET ClaimRecord)]
         /\ StatesStood'
         /\ claims'[r] = state
<1>1. claims' \in [Repositories -> SUBSET ClaimRecord] /\ claims'[r] = state
  BY DEF WorldTypeOK, StoreHolds
<1>2. stood[r] \cup {state} \in SUBSET (SUBSET ClaimRecord)
  BY DEF WorldTypeOK
<1>3. stood' \in [Repositories -> SUBSET (SUBSET ClaimRecord)]
  BY <1>2 DEF WorldTypeOK, StoreHolds
<1>4. \A q \in Repositories : stood[q] \subseteq stood'[q]
  BY DEF WorldTypeOK, StoreHolds
<1>5. ASSUME NEW q \in Repositories PROVE claims'[q] \in stood'[q]
  <2>1. CASE q = r
    BY <1>1, <2>1 DEF WorldTypeOK, StoreHolds
  <2>2. CASE q # r
    <3>1. claims'[q] = claims[q] /\ claims[q] \in stood[q]
      BY <2>2 DEF WorldTypeOK, StoreHolds, StatesStood
    <3> QED
      BY <1>4, <3>1
  <2> QED
    BY <2>1, <2>2
<1>6. \A q \in DOMAIN cache' : cache'[q] \in stood'[q]
  BY <1>4 DEF StatesStood
<1> QED
  BY <1>1, <1>3, <1>5, <1>6 DEF StatesStood

\* The world keeps its types, and what a call has fetched stays a state its
\* ref has held.
LEMMA WorldStepKeepsTypes ==
  ASSUME WorldTypeOK, CallTypeOK, StatesStood, WorldStep
  PROVE  WorldTypeOK' /\ StatesStood'
<1>0. cache' = cache /\ DOMAIN cache \subseteq Repositories
  BY WorldStepKeepsCall DEF CallTypeOK
<1>0a. Claim \subseteq ClaimRecord
  BY ProtectionAssumption DEF Claim, ClaimRecord
<1>1. ASSUME StoreMoves PROVE WorldTypeOK' /\ StatesStood'
  <2>1. PICK r \in Repositories, c \in Claim :
          StoreHolds(r, IF c \in claims[r] THEN claims[r] \ {c}
                        ELSE {d \in claims[r] : d.branch # c.branch} \cup {c})
    BY <1>1 DEF StoreMoves
  <2>2. (IF c \in claims[r] THEN claims[r] \ {c}
         ELSE {d \in claims[r] : d.branch # c.branch} \cup {c}) \in SUBSET ClaimRecord
    BY <1>0a DEF WorldTypeOK
  <2>3. /\ claims' \in [Repositories -> SUBSET ClaimRecord]
        /\ stood' \in [Repositories -> SUBSET (SUBSET ClaimRecord)] /\ StatesStood'
    BY <1>0, <2>1, <2>2, StoreHoldsState
  <2>4. moves' \in Nat
    BY <1>1 DEF StoreMoves, Move, WorldTypeOK
  <2> QED
    BY <1>1, <2>3, <2>4 DEF StoreMoves, WorldTypeOK
<1>2. ASSUME SwitchBranch PROVE WorldTypeOK' /\ StatesStood'
  <2>1. moves' \in Nat
    BY <1>2 DEF SwitchBranch, Move, WorldTypeOK
  <2>2. branch' \in [Roots -> Branches] /\ born' \subseteq Roots
    BY <1>2 DEF SwitchBranch, WorldTypeOK
  <2>3. StatesStood'
    BY <1>0, <1>2 DEF SwitchBranch, StatesStood
  <2> QED
    BY <1>2, <2>1, <2>2, <2>3 DEF SwitchBranch, WorldTypeOK
<1>3. ASSUME RecordOriginHead PROVE WorldTypeOK' /\ StatesStood'
  <2>1. moves' \in Nat
    BY <1>3 DEF RecordOriginHead, Move, WorldTypeOK
  <2>2. originHead' \in [Repositories -> Branches \cup {NoBranch}]
    BY <1>3 DEF RecordOriginHead, WorldTypeOK
  <2>3. StatesStood'
    BY <1>0, <1>3 DEF RecordOriginHead, StatesStood
  <2> QED
    BY <1>3, <2>1, <2>2, <2>3 DEF RecordOriginHead, WorldTypeOK
<1>4. ASSUME NEW i \in DOMAIN call.paths, Rescope(call.paths[i]) PROVE WorldTypeOK' /\ StatesStood'
  <2> DEFINE path == call.paths[i]
             root == RescopeCheckout(path)
             entry == RelativeScopeEntry(path, root)
  <2>1. path \in PayloadPath
    BY PathsArePaths
  <2>2. RescopeAdmits(path, root)
    BY <1>4 DEF Rescope
  <2>3. root \in Roots
    BY <2>2, ProtectionAssumption DEF RescopeAdmits, WorldTypeOK
  <2>4. Repository[root] \in Repositories
    BY <2>3, ProtectionAssumption
  <2>5. entry \in Paths
    BY <2>1, <2>2, <2>3, EntryCompletesRoot DEF RescopeAdmits
  <2>6. PICK c \in claims[Repository[root]] :
          StoreHolds(Repository[root], (claims[Repository[root]] \ {c})
                                       \cup {[c EXCEPT !.scope = @ \cup {entry}]})
    BY <1>4 DEF Rescope
  <2>7. c \in ClaimRecord /\ claims[Repository[root]] \in SUBSET ClaimRecord
    BY <2>4, <2>6 DEF WorldTypeOK
  <2>8. [c EXCEPT !.scope = @ \cup {entry}] \in ClaimRecord
    BY <2>5, <2>7 DEF ClaimRecord
  <2>9. /\ claims' \in [Repositories -> SUBSET ClaimRecord]
        /\ stood' \in [Repositories -> SUBSET (SUBSET ClaimRecord)] /\ StatesStood'
    BY <1>0, <2>4, <2>6, <2>7, <2>8, StoreHoldsState
  <2>10. moves' \in Nat
    BY <1>4 DEF Rescope, Move, WorldTypeOK
  <2>11. UNCHANGED <<branch, born, originHead>> /\ rescoped' \in PayloadPath
    BY <1>4, <2>1 DEF Rescope
  <2> QED
    BY <2>9, <2>10, <2>11 DEF WorldTypeOK
<1> QED
  BY <1>1, <1>2, <1>3, <1>4 DEF WorldStep


\* Going on to the next path, or allowing the call at its last.
LEMMA ContinueGoesOn ==
  ASSUME CallTypeOK, Continue
  PROVE  /\ at' \in 0..Len(call.paths) /\ pc' \in {"path", "done"}
         /\ pc' = "path" => at' \in 1..Len(call.paths)
<1>1. Len(call.paths) \in Nat
  BY ProtectionAssumption DEF CallTypeOK
<1> QED
  BY <1>1 DEF Continue, CallTypeOK

\* The reasons a call is denied with.
LEMMA DenyEnds ==
  ASSUME NEW reason, Deny(reason)
  PROVE  pc' = "done" /\ verdict' = reason
BY DEF Deny

\* A call keeps its types, and knows where it is.
LEMMA CallStepKeepsPosition ==
  ASSUME WorldTypeOK, CallTypeOK, Position, CallStep
  PROVE  CallTypeOK' /\ Position'
<1>0. UNCHANGED <<agent, call>>
  BY CallStepKeepsWorld
<1>1. ASSUME Judge PROVE CallTypeOK' /\ Position'
  <2>1. /\ at' \in 0..Len(call.paths) /\ pc' \in {"path", "done"}
        /\ pc' = "path" => at' \in 1..Len(call.paths)
    <3>1. CASE Continue
      BY <3>1, ContinueGoesOn
    <3>2. CASE pc' = "done" /\ at' = at
      BY <3>2 DEF CallTypeOK
    <3> QED
      BY <1>1, <3>1, <3>2 DEF Judge, Deny
  <2> QED
    BY <1>0, <1>1, <2>1 DEF Judge, CallTypeOK, Position
<1>2. ASSUME ResolveCheckout PROVE CallTypeOK' /\ Position'
  <2> DEFINE root == CheckoutOf(Payload)
  <2>1. CASE Continue /\ judging' = judging
    <3>1. /\ at' \in 0..Len(call.paths) /\ pc' \in {"path", "done"}
          /\ pc' = "path" => at' \in 1..Len(call.paths)
      BY <2>1, ContinueGoesOn
    <3> QED
      BY <1>0, <1>2, <2>1, <3>1 DEF ResolveCheckout, CallTypeOK, Position
  <2>2. CASE pc' = "done" /\ at' = at /\ judging' = judging
    BY <1>0, <1>2, <2>2 DEF ResolveCheckout, CallTypeOK, Position
  <2>3. CASE /\ judging' = [root |-> root, branch |-> branch[root]]
             /\ pc' = "default" /\ at' = at /\ root # NoCheckout
    <3>1. at \in 1..Len(call.paths)
      BY <1>2 DEF ResolveCheckout, Position
    <3>2. root \in Roots
      BY <2>3, <3>1, PayloadIsAPath, WeighedByACheckout
    <3>3. judging' \in [root : Roots, branch : Branches] /\ judging'.root = root
      BY <2>3, <3>2 DEF WorldTypeOK
    <3>5. Payload' = Payload
      BY <1>0, <2>3 DEF Payload
    <3> QED
      BY <1>0, <1>2, <2>3, <3>1, <3>3, <3>5 DEF ResolveCheckout, CallTypeOK, Position
  <2> QED
    BY <1>2, <2>1, <2>2, <2>3 DEF ResolveCheckout, Deny
<1>3. ASSUME RefuseMain PROVE CallTypeOK' /\ Position'
  <2>1. CASE pc' = "done"
    BY <1>0, <1>3, <2>1 DEF RefuseMain, CallTypeOK, Position
  <2>2. CASE pc' = "state" /\ RelativeScopeEntry(Payload, judging.root) # NoPath
    <3>1. Payload' = Payload
      BY <1>0, <1>3 DEF RefuseMain, Payload
    <3> QED
      BY <1>0, <1>3, <2>2, <3>1 DEF RefuseMain, CallTypeOK, Position
  <2> QED
    BY <1>3, <2>1, <2>2 DEF RefuseMain, Deny
<1>4. ASSUME CachedClaimState PROVE CallTypeOK' /\ Position'
  <2> DEFINE key == CacheKey(judging.root)
  <2>1. Payload' = Payload
    BY <1>0, <1>4 DEF CachedClaimState, Payload
  <2>2. judging.root \in Roots /\ Repository[judging.root] \in Repositories
    BY <1>4, ProtectionAssumption DEF CachedClaimState, Position
  <2>3. CASE /\ cache' = [k \in DOMAIN cache \cup {key} |->
                             IF k \in DOMAIN cache THEN cache[k]
                             ELSE claims[Repository[judging.root]]]
             /\ pc' = "scope"
    <3>1. DOMAIN cache' = DOMAIN cache \cup {Repository[judging.root]}
      BY <2>3 DEF CacheKey
    <3>2. cache' = [k \in DOMAIN cache' |-> cache'[k]]
      BY <2>3
    <3>3. pc = "state" /\ pc' = "scope" /\ UNCHANGED <<at, judging, judged>>
      BY <1>4, <2>3 DEF CachedClaimState
    <3>4. DOMAIN cache' \subseteq Repositories
      BY <2>2, <3>1 DEF CallTypeOK
    <3>5. CallTypeOK'
      BY <1>0, <3>2, <3>3, <3>4 DEF CallTypeOK
    <3>6. Repository[judging.root] \in DOMAIN cache'
      BY <3>1
    <3> QED
      BY <1>0, <2>1, <3>3, <3>5, <3>6 DEF Position
  <2>4. CASE pc' = "done" /\ cache' = cache
    BY <1>0, <1>4, <2>4 DEF CachedClaimState, CallTypeOK, Position
  <2>5. CASE pc' = "scope" /\ cache' = cache /\ key \in DOMAIN cache
    BY <1>0, <1>4, <2>1, <2>5 DEF CachedClaimState, CallTypeOK, Position, CacheKey
  <2> QED
    BY <1>4, <2>3, <2>4, <2>5 DEF CachedClaimState, Deny
<1>5. ASSUME ScopeDenial PROVE CallTypeOK' /\ Position'
  <2> DEFINE entry == RelativeScopeEntry(Payload, judging.root)
             this == [names |-> Payload.names, root |-> judging.root,
                      branch |-> judging.branch, entry |-> entry]
  <2>1. Payload \in PayloadPath /\ judging \in [root : Roots, branch : Branches] /\ entry # NoPath
    BY <1>5, PayloadIsAPath DEF ScopeDenial, Position
  <2>2. entry \in Paths \ {<<>>}
    BY <2>1, EntryCompletesRoot
  <2>3. this \in Judgement
    BY <2>1, <2>2 DEF Judgement, PayloadPath
  <2>4. judged' = Append(judged, this)
    BY <1>5 DEF ScopeDenial
  <2>5. judged' \in Seq(Judgement)
    <3> HIDE DEF this
    <3> QED
      BY <2>3, <2>4 DEF CallTypeOK
  <2>6. /\ at' \in 0..Len(call.paths) /\ pc' \in {"path", "done"}
        /\ pc' = "path" => at' \in 1..Len(call.paths)
    <3>1. CASE Continue
      BY <3>1, ContinueGoesOn
    <3>2. CASE pc' = "done" /\ at' = at
      BY <3>2 DEF CallTypeOK
    <3> QED
      BY <1>5, <3>1, <3>2 DEF ScopeDenial, Deny
  <2>7. CallTypeOK'
    BY <1>0, <1>5, <2>5, <2>6 DEF ScopeDenial, CallTypeOK
  <2>8. Position'
    BY <1>0, <2>6 DEF Position
  <2> QED
    BY <2>7, <2>8
<1> QED
  BY <1>1, <1>2, <1>3, <1>4, <1>5 DEF CallStep

\* What a call fetches is what the ref holds then.
LEMMA CallStepKeepsStates ==
  ASSUME WorldTypeOK, CallTypeOK, Position, StatesStood, CallStep
  PROVE  StatesStood' /\ \A r \in DOMAIN cache : r \in DOMAIN cache' /\ cache'[r] = cache[r]
<1>0. UNCHANGED <<claims, stood>>
  BY CallStepKeepsWorld DEF world
<1>1. CASE cache' = cache
  BY <1>0, <1>1 DEF StatesStood
<1>2. CASE cache' # cache
  <2> DEFINE key == Repository[judging.root]
  <2>1. CachedClaimState
    BY <1>2 DEF CallStep, Judge, ResolveCheckout, RefuseMain, ScopeDenial
  <2>2. /\ pc = "state"
        /\ cache' = [k \in DOMAIN cache \cup {key} |->
                       IF k \in DOMAIN cache THEN cache[k] ELSE claims[key]]
    BY <1>2, <2>1 DEF CachedClaimState, CacheKey
  <2>3. key \in Repositories
    BY <2>2, ProtectionAssumption DEF Position
  <2>4. /\ DOMAIN cache' = DOMAIN cache \cup {key}
        /\ \A k \in DOMAIN cache : cache'[k] = cache[k]
        /\ key \notin DOMAIN cache => cache'[key] = claims[key]
    BY <2>2
  <2> QED
    BY <1>0, <2>3, <2>4 DEF StatesStood
<1> QED
  BY <1>1, <1>2

\* What was judged and not denied goes on fitting the call's snapshots.
LEMMA StepKeepsJudgedBySnapshot ==
  ASSUME CallInv, CallStep \/ WorldStep
  PROVE  JudgedBySnapshot'
<1> USE DEF CallInv
<1>1. CASE WorldStep
  BY <1>1, WorldStepKeepsCall DEF JudgedBySnapshot
<1>2. CASE CallStep
  <2>0. agent' = agent /\ pc # "done"
    <3>1. pc # "done"
      BY <1>2 DEF CallStep, Judge, ResolveCheckout, RefuseMain, CachedClaimState, ScopeDenial
    <3> QED
      BY <1>2, <3>1, CallStepKeepsWorld
  <2>1. \A r \in DOMAIN cache : r \in DOMAIN cache' /\ cache'[r] = cache[r]
    BY <1>2, CallStepKeepsStates
  <2>2. \A i \in DOMAIN judged :
          /\ Repository[judged[i].root] \in DOMAIN cache
          /\ OverlappingClaimExists(cache[Repository[judged[i].root]], agent,
                                    judged[i].branch, judged[i].entry)
    BY <2>0 DEF JudgedBySnapshot
  <2>3. CASE judged' = judged
    BY <2>0, <2>1, <2>2, <2>3 DEF JudgedBySnapshot
  <2>4. CASE judged' # judged
    <3>1. ScopeDenial
      BY <1>2, <2>4 DEF CallStep, Judge, ResolveCheckout, RefuseMain, CachedClaimState
    <3> DEFINE entry == RelativeScopeEntry(Payload, judging.root)
               this == [names |-> Payload.names, root |-> judging.root,
                        branch |-> judging.branch, entry |-> entry]
               state == cache[Repository[judging.root]]
    <3>2. judged' = Append(judged, this) /\ cache' = cache /\ pc = "scope"
      BY <3>1 DEF ScopeDenial
    <3>3. Repository[this.root] \in DOMAIN cache
      BY <3>2 DEF Position
    <3>4. CASE OverlappingClaimExists(state, agent, judging.branch, entry)
      <4>1. ASSUME NEW i \in DOMAIN judged'
            PROVE  /\ Repository[judged'[i].root] \in DOMAIN cache
                   /\ OverlappingClaimExists(cache[Repository[judged'[i].root]], agent,
                                             judged'[i].branch, judged'[i].entry)
        <5>1. CASE i \in DOMAIN judged
          <6>1. judged'[i] = judged[i]
            BY <3>2, <5>1 DEF CallTypeOK
          <6> QED
            BY <2>2, <5>1, <6>1
        <5>2. CASE i = Len(judged) + 1
          <6>1. judged'[i] = this
            BY <3>2, <5>2 DEF CallTypeOK
          <6> QED
            BY <3>3, <3>4, <6>1
        <5>3. i \in DOMAIN judged \/ i = Len(judged) + 1
          BY <3>2 DEF CallTypeOK
        <5> QED
          BY <5>1, <5>2, <5>3
      <4> QED
        BY <2>0, <3>2, <4>1 DEF JudgedBySnapshot
    <3>5. CASE ~ OverlappingClaimExists(state, agent, judging.branch, entry)
      <4>1. pc' = "done" /\ verdict' # "allow"
        BY <3>1, <3>5 DEF ScopeDenial, Deny, MissDenial, CacheKey
      <4> QED
        BY <4>1 DEF JudgedBySnapshot
    <3> QED
      BY <3>4, <3>5
  <2> QED
    BY <2>3, <2>4
<1> QED
  BY <1>1, <1>2

\* Whatever is judged is judged by the checkout it lies in.
LEMMA StepKeepsJudgedInside ==
  ASSUME CallInv, CallStep \/ WorldStep
  PROVE  JudgedInside'
<1> USE DEF CallInv
<1>1. CASE judged' = judged
  BY <1>1 DEF JudgedInside
<1>2. CASE judged' # judged
  <2>1. ScopeDenial
    BY <1>2, WorldStepKeepsCall
    DEF CallStep, Judge, ResolveCheckout, RefuseMain, CachedClaimState
  <2> DEFINE root == judging.root
             entry == RelativeScopeEntry(Payload, root)
             this == [names |-> Payload.names, root |-> root,
                      branch |-> judging.branch, entry |-> entry]
  <2>2. judged' = Append(judged, this) /\ pc = "scope"
    BY <2>1 DEF ScopeDenial
  <2>3. /\ Payload \in PayloadPath /\ root = CheckoutOf(Payload) /\ root \in Roots
        /\ entry # NoPath
    BY <2>2, PayloadIsAPath DEF Position
  <2>4. root \o entry = Real(Payload.names)
    BY <2>3, EntryCompletesRoot
  <2>5. root # NoCheckout
    BY <2>3, ProtectionAssumption, DirectoriesAssumption
  <2>6. ASSUME PlainlySpelled(Payload.names), NEW s \in Roots, IsPrefix(s, Real(Payload.names))
        PROVE  Len(s) <= Len(root)
    BY <2>3, <2>5, <2>6, PlainPathIsWeighedInside
  <2>7. ASSUME NEW i \in DOMAIN judged'
        PROVE  \/ judged'[i] = this
               \/ i \in DOMAIN judged /\ judged'[i] = judged[i]
    BY <2>2 DEF CallTypeOK
  <2>8. /\ this.root \o this.entry = Real(this.names)
        /\ PlainlySpelled(this.names) =>
             \A s \in Roots : IsPrefix(s, Real(this.names)) => Len(s) <= Len(this.root)
    BY <2>4, <2>6
  <2> HIDE DEF this
  <2> QED
    BY <2>7, <2>8 DEF JudgedInside
<1> QED
  BY <1>1, <1>2


\* A path just added to a claim by rescope is one protect allows, and stays so
\* until somebody changes something.
LEMMA StepKeepsRescopedWritable ==
  ASSUME CallInv, CallStep \/ WorldStep
  PROVE  RescopedPathIsWritable'
<1> USE DEF CallInv
<1>1. CASE CallStep
  <2>1. UNCHANGED <<branch, born, originHead, claims, agent, rescoped>>
    BY <1>1, CallStepKeepsWorld DEF world
  <2> QED
    BY <2>1 DEF RescopedPathIsWritable, Allowed, RescopeAdmits
<1>2. CASE StoreMoves \/ SwitchBranch \/ RecordOriginHead
  <2>1. rescoped' = NoPath
    BY <1>2 DEF StoreMoves, SwitchBranch, RecordOriginHead
  <2> QED
    BY <2>1 DEF RescopedPathIsWritable
<1>3. ASSUME NEW path \in PayloadPath, Rescope(path) PROVE RescopedPathIsWritable'
  <2> DEFINE root == RescopeCheckout(path)
             entry == RelativeScopeEntry(path, root)
  <2> SUFFICES ASSUME Real(path.names) \notin Roots, LexicallyRead(path.names)
               PROVE  RescopedPathIsWritable'
    BY <1>3 DEF RescopedPathIsWritable, Rescope
  <2>1. RescopeAdmits(path, root)
    BY <1>3 DEF Rescope
  <2>2. root \in Roots /\ root # NoCheckout /\ Repository[root] \in Repositories
    BY <2>1, ProtectionAssumption DEF RescopeAdmits, WorldTypeOK
  <2>3. CheckoutOf(path) = root
    BY <2>2, BothFindTheCheckout
  <2>4. UNCHANGED <<branch, born, originHead, agent>> /\ rescoped' = path
    BY <1>3 DEF Rescope, CallUnchanged
  <2>5. PICK c \in claims[Repository[root]] :
          /\ c.agent = agent /\ c.branch = branch[root]
          /\ StoreHolds(Repository[root], (claims[Repository[root]] \ {c})
                                       \cup {[c EXCEPT !.scope = @ \cup {entry}]})
    BY <1>3 DEF Rescope
  <2> DEFINE wider == [c EXCEPT !.scope = @ \cup {entry}]
  <2>6. wider \in claims'[Repository[root]]
    BY <2>2, <2>5 DEF StoreHolds, WorldTypeOK
  <2>7. c \in ClaimRecord
    BY <2>2, <2>5 DEF WorldTypeOK
  <2>8. wider.agent = agent /\ wider.branch = branch[root] /\ entry \in wider.scope
    BY <2>5, <2>7 DEF ClaimRecord
  <2>9. entry \in Paths
    BY <2>1, <2>2, EntryCompletesRoot DEF RescopeAdmits
  <2>10. Meet(entry, entry)
    BY <2>9, RootIsAPrefix DEF Meet
  <2>11. OverlappingClaimExists(claims'[Repository[root]], agent, branch[root], entry)
    <3> HIDE DEF wider
    <3> QED
      BY <2>6, <2>8, <2>10 DEF OverlappingClaimExists, ScopesOverlap
  <2> QED
    BY <2>1, <2>3, <2>4, <2>11 DEF RescopedPathIsWritable, Allowed, RescopeAdmits
<1>4. CallTypeOK
  OBVIOUS
<1> QED
  BY <1>1, <1>2, <1>3, <1>4, PathsArePaths DEF WorldStep

----------------------------------------------------------------------------
(* The theorems.                                                           *)

\* The invariant holds of every behaviour of a call.
LEMMA CallInvariant ==
  CallSpec => []CallInv
<1>1. CallBegins => CallInv
  <2> SUFFICES ASSUME CallBegins PROVE CallInv
    OBVIOUS
  <2>1. \A r \in Repositories : claims[r] \in SUBSET ClaimRecord
    BY DEF CallBegins, ClaimRecord
  <2>2. WorldTypeOK
    BY <2>1 DEF CallBegins, WorldTypeOK, ClaimRecord
  <2>3. Len(call.paths) \in Nat
    BY ProtectionAssumption DEF CallBegins
  <2>4. CallTypeOK
    BY <2>3 DEF CallBegins, CallTypeOK
  <2>5. Position /\ StatesStood /\ JudgedBySnapshot /\ JudgedInside
    BY DEF CallBegins, Position, StatesStood, JudgedBySnapshot, JudgedInside
  <2>6. RescopedPathIsWritable
    BY DEF CallBegins, RescopedPathIsWritable
  <2> QED
    BY <2>2, <2>4, <2>5, <2>6 DEF CallInv
<1>2. CallInv /\ [Next]_vars => CallInv'
  <2> SUFFICES ASSUME CallInv, [Next]_vars PROVE CallInv'
    OBVIOUS
  <2>1. CASE CallStep
    <3>1. CallTypeOK' /\ Position' /\ StatesStood'
      BY <2>1, CallStepKeepsPosition, CallStepKeepsStates DEF CallInv
    <3>2. WorldTypeOK'
      BY <2>1, CallStepKeepsWorld DEF CallInv, WorldTypeOK, world
    <3> QED
      BY <2>1, <3>1, <3>2, StepKeepsJudgedBySnapshot, StepKeepsJudgedInside,
         StepKeepsRescopedWritable DEF CallInv
  <2>2. CASE WorldStep
    <3>1. WorldTypeOK' /\ StatesStood'
      BY <2>2, WorldStepKeepsTypes DEF CallInv
    <3>2. CallTypeOK' /\ Position'
      BY <2>2, WorldStepKeepsCall DEF CallInv, CallTypeOK, Position, Payload
    <3> QED
      BY <2>2, <3>1, <3>2, StepKeepsJudgedBySnapshot, StepKeepsJudgedInside,
         StepKeepsRescopedWritable DEF CallInv
  <2>3. CASE UNCHANGED vars
    BY <2>3 DEF vars, world, CallInv, WorldTypeOK, CallTypeOK, Position, Payload, StatesStood,
                JudgedBySnapshot, JudgedInside, RescopedPathIsWritable, Allowed, RescopeAdmits
  <2>4. Next => CallStep \/ WorldStep
    BY DEF Next, CallStep, WorldStep
  <2> QED
    BY <2>1, <2>2, <2>3, <2>4
<1> QED
  BY <1>1, <1>2, PTL DEF CallSpec

\* An allowed patch fits, in each repository, one set of claims the ref really
\* held during the call, whatever other sessions did meanwhile: protect.py
\* fetches each repository's claims once a call and judges all paths by them.
THEOREM PatchIsJudgedByOneState ==
  CallSpec => []PatchFitsOneState
<1>1. CallInv => PatchFitsOneState
  <2> SUFFICES ASSUME CallInv, verdict = "allow", NEW r \in Repositories
               PROVE  \E state \in stood[r] :
                        \A i \in DOMAIN judged :
                          Repository[judged[i].root] = r =>
                          OverlappingClaimExists(state, agent, judged[i].branch, judged[i].entry)
    BY DEF PatchFitsOneState
  <2>1. \A i \in DOMAIN judged :
          /\ Repository[judged[i].root] \in DOMAIN cache
          /\ OverlappingClaimExists(cache[Repository[judged[i].root]], agent,
                                    judged[i].branch, judged[i].entry)
    BY DEF CallInv, JudgedBySnapshot
  <2>2. CASE r \in DOMAIN cache
    <3>1. cache[r] \in stood[r]
      BY <2>2 DEF CallInv, StatesStood
    <3> QED
      BY <2>1, <3>1
  <2>3. CASE r \notin DOMAIN cache
    <3>1. claims[r] \in stood[r]
      BY DEF CallInv, StatesStood
    <3> QED
      BY <2>1, <2>3, <3>1
  <2> QED
    BY <2>2, <2>3
<1> QED
  BY <1>1, CallInvariant, PTL

\* Every path of an allowed call was judged by the innermost checkout around
\* the place it leads to, for any layout of checkouts, links and "..", and is
\* no checkout's root itself (protect.py, _protect_checkout_denial).
THEOREM AllowedPathsAreJudgedInside ==
  CallSpec => []InnermostCheckoutJudges
<1>1. CallInv => InnermostCheckoutJudges
  <2> SUFFICES ASSUME CallInv, NEW i \in DOMAIN judged
               PROVE  LET lands == judged[i].root \o judged[i].entry
                      IN  /\ lands = Real(judged[i].names) /\ judged[i].entry # <<>>
                          /\ PlainlySpelled(judged[i].names) =>
                               \A s \in Roots : IsPrefix(s, lands) => Len(s) <= Len(judged[i].root)
    BY DEF InnermostCheckoutJudges
  <2>1. judged[i] \in Judgement
    BY DEF CallInv, CallTypeOK
  <2>2. judged[i].entry # <<>>
    BY <2>1 DEF Judgement
  <2> QED
    BY <2>2 DEF CallInv, JudgedInside
<1> QED
  BY <1>1, CallInvariant, PTL

\* rescope and protect agree: what a session has just added to its claim by
\* its path protect lets it write (cli.py, _rescope_checkout).
THEOREM RescopeAndProtectAgree ==
  CallSpec => []RescopedPathIsWritable
<1>1. CallInv => RescopedPathIsWritable
  BY DEF CallInv
<1> QED
  BY <1>1, CallInvariant, PTL
=============================================================================
