---------------------------- MODULE HostFsProofs ----------------------------
(***************************************************************************)
(* HostFS, for any leaves, types, bytes, lengths of files and number of    *)
(* handles: its tree and its handles always, and, when the guest saves no  *)
(* file over one of another type, that names are unique, that listings are *)
(* complete, and the steps by which it implements a filing system.         *)
(***************************************************************************)
EXTENDS HostFs, WellFoundedInduction, FiniteSetTheorems, SequenceTheorems, TLAPS

(* Induction over the natural numbers, for a set instead of a predicate: the *)
(* intervals 1 .. n of the numbers outside the set would have a smallest.    *)
LEMMA SetInduction ==
    ASSUME NEW S, 0 \in S, \A n \in Nat : n \in S => n + 1 \in S
    PROVE  \A n \in Nat : n \in S
<1> DEFINE R == StrictSubsetOrdering(Nat)
           T == {1 .. n : n \in Nat \ S}
<1> SUFFICES ASSUME NEW n \in Nat, n \notin S PROVE FALSE
  OBVIOUS
<1>1. \A m \in Nat : 1 .. m \in FiniteSubsetsOf(Nat)
  BY FS_Interval DEF FiniteSubsetsOf
<1>2. T \subseteq FiniteSubsetsOf(Nat) /\ T # {}
  BY <1>1
<1>3. PICK x \in T : \A y \in T : ~(<<y, x>> \in R)
  <2> HIDE DEF T, R
  <2>1. IsWellFoundedOn(R, FiniteSubsetsOf(Nat))
    BY FS_StrictSubsetOrderingWellFounded DEF R
  <2> QED BY <1>2, <2>1, WFMin
<1>4. PICK m \in Nat \ S : x = 1 .. m
  OBVIOUS
<1>5. m # 0 /\ m - 1 \in Nat
  BY <1>4
<1>6. 1 .. m - 1 \in SUBSET Nat /\ 1 .. m \in SUBSET Nat /\ 1 .. m - 1 \subseteq 1 .. m /\ 1 .. m - 1 # 1 .. m
  BY <1>5
<1>7. <<1 .. m - 1, x>> \in R
  BY <1>4, <1>6 DEF StrictSubsetOrdering
<1>8. m - 1 \in S
  BY <1>3, <1>5, <1>7
<1> QED BY <1>4, <1>5, <1>8

\* A host name that HostFS makes.
Made == {HostName(leaf, t) : leaf \in Leaves, t \in Types}
Characters == {ToHost(c) : c \in Chars} \cup TypeSuffixes

LEMMA PathFacts ==
    ASSUME NEW ro \in Paths
    PROVE  /\ ro \in Seq(Leaves) /\ ro # <<>> /\ Len(ro) \in Nat \ {0} /\ Last(ro) \in Leaves
           /\ ro = Append(Front(ro), Last(ro)) /\ Front(ro) \in Seq(Leaves)
           /\ Len(Front(ro)) = Len(ro) - 1
<1>1. ro \in Seq(Leaves) /\ ro # <<>>
  BY HostFsAssumption
<1>2. Len(ro) \in Nat \ {0}
  BY <1>1, EmptySeq
<1>3. Front(ro) \in Seq(Leaves) /\ Len(Front(ro)) = Len(ro) - 1 /\ Last(ro) \in Leaves
  <2>1. DOMAIN ro = 1 .. Len(ro) /\ \A i \in 1 .. Len(ro) : ro[i] \in Leaves
    BY <1>1
  <2>2. Front(ro) \in Seq(Leaves) /\ Len(Front(ro)) = Len(ro) - 1
    BY <1>2, <2>1, SubSeqProperties DEF Front
  <2> QED BY <1>2, <2>1, <2>2 DEF Last
<1>4. ro = Append(Front(ro), Last(ro))
  BY <1>1, <1>2, <1>3 DEF Front, Last
<1> QED BY <1>1, <1>2, <1>3, <1>4

LEMMA CharsBack ==
    ASSUME NEW c \in Chars
    PROVE  ToRiscos(ToHost(c)) = c
<1>1. c \notin {"$", "#", "^", " "}
  BY LeavesAssumption
<1>2. CASE c \in {"/", ".", "?", "<", ">"}
  BY <1>2 DEF ToHost, ToRiscos
<1>3. CASE c \notin {"/", ".", "?", "<", ">"}
  <2>1. ToHost(c) = c
    BY <1>3 DEF ToHost
  <2>2. ToRiscos(c) = c
    BY <1>1, <1>3 DEF ToRiscos
  <2> QED BY <2>1, <2>2
<1> QED BY <1>2, <1>3

(* A leaf written as a host name of a type is read back as that leaf, and    *)
(* of that type.                                                             *)
LEMMA NameBack ==
    ASSUME NEW leaf \in Leaves, NEW t \in Types
    PROVE  LET n == HostName(leaf, t)
           IN n \in Made /\ n \in Seq(Characters) /\ n # <<>> /\ RoLeaf(n) = leaf /\ TypeOf(n) = t
<1> DEFINE n == HostName(leaf, t)
           h == riscos_path_to_host(leaf)
<1>1. leaf \in Seq(Chars) /\ leaf # <<>> /\ Len(leaf) \in Nat \ {0} /\ DOMAIN leaf = 1 .. Len(leaf)
  BY HostFsAssumption, EmptySeq
<1>2. h \in Seq(Characters) /\ Len(h) = Len(leaf) /\ \A i \in 1 .. Len(leaf) : h[i] = ToHost(leaf[i])
  <2>1. h = [i \in 1 .. Len(leaf) |-> ToHost(leaf[i])]
    BY <1>1 DEF riscos_path_to_host
  <2>2. \A i \in 1 .. Len(leaf) : ToHost(leaf[i]) \in Characters
    BY <1>1 DEF Characters
  <2> QED BY <1>1, <2>1, <2>2
<1>3. name_host_to_riscos(h) = leaf
  <2>1. \A i \in 1 .. Len(leaf) : ToRiscos(h[i]) = leaf[i]
    BY <1>1, <1>2, CharsBack
  <2>2. name_host_to_riscos(h) = [i \in 1 .. Len(leaf) |-> leaf[i]]
    BY <1>1, <1>2, <2>1 DEF name_host_to_riscos
  <2> QED BY <1>1, <2>2
<1>4. n \in Made
  BY DEF Made
<1>5. CASE t = DEFAULT
  <2>1. n = h
    BY <1>2, <1>5, ConcatEmptySeq DEF HostName
  <2>2. ~HasSuffix(h)
    BY LeavesAssumption
  <2>3. h # <<>>
    BY <1>1, <1>2
  <2> QED BY <1>2, <1>3, <1>4, <1>5, <2>1, <2>2, <2>3 DEF RoLeaf, TypeOf, HasSuffix
<1>6. CASE t # DEFAULT
  <2>1. t \in TypeSuffixes
    BY <1>6 DEF Types
  <2>2. n = h \o <<t>> /\ <<t>> \in Seq(Characters)
    BY <1>6, <2>1 DEF HostName, Characters
  <2>3. n \in Seq(Characters) /\ Len(n) = Len(leaf) + 1 /\ n[Len(n)] = t
        /\ \A i \in 1 .. Len(leaf) : n[i] = h[i]
    BY <1>1, <1>2, <2>2
  <2>4. Front(n) = h
    BY <1>1, <1>2, <2>3 DEF Front
  <2>5. n # <<>> /\ Last(n) = t
    BY <1>1, <2>3 DEF Last
  <2> QED BY <1>3, <1>4, <2>1, <2>3, <2>4, <2>5 DEF RoLeaf, TypeOf, HasSuffix
<1> QED BY <1>5, <1>6

LEMMA MadeFacts ==
    ASSUME NEW n \in Made
    PROVE  /\ n \in Seq(Characters) /\ n # <<>> /\ RoLeaf(n) \in Leaves /\ TypeOf(n) \in Types
           /\ n = HostName(RoLeaf(n), TypeOf(n))
BY NameBack DEF Made

LEMMA RoPathFacts ==
    ASSUME NEW hp \in Seq(Made)
    PROVE  /\ RoPath(hp) \in Seq(Leaves) /\ Len(RoPath(hp)) = Len(hp)
           /\ \A i \in 1 .. Len(hp) : RoPath(hp)[i] = RoLeaf(hp[i])
<1>1. DOMAIN hp = 1 .. Len(hp) /\ Len(hp) \in Nat /\ \A i \in 1 .. Len(hp) : RoLeaf(hp[i]) \in Leaves
  BY MadeFacts
<1>2. RoPath(hp) = [i \in 1 .. Len(hp) |-> RoLeaf(hp[i])]
  BY <1>1 DEF RoPath
<1> QED BY <1>1, <1>2

LEMMA PrefixFacts ==
    ASSUME NEW hp \in Seq(Made), NEW k \in 0 .. Len(hp)
    PROVE  /\ SubSeq(hp, 1, k) \in Seq(Made) /\ Len(SubSeq(hp, 1, k)) = k
           /\ \A i \in 1 .. k : SubSeq(hp, 1, k)[i] = hp[i]
           /\ RoPath(SubSeq(hp, 1, k)) = SubSeq(RoPath(hp), 1, k)
<1>1. \A i \in 1 .. Len(hp) : hp[i] \in Made
  OBVIOUS
<1>2. /\ SubSeq(hp, 1, k) \in Seq(Made) /\ Len(SubSeq(hp, 1, k)) = k
      /\ \A i \in 1 .. k : SubSeq(hp, 1, k)[i] = hp[i]
  BY <1>1, SubSeqProperties
<1>3. /\ SubSeq(RoPath(hp), 1, k) \in Seq(Leaves) /\ Len(SubSeq(RoPath(hp), 1, k)) = k
      /\ \A i \in 1 .. k : SubSeq(RoPath(hp), 1, k)[i] = RoPath(hp)[i]
  <2>1. \A i \in 1 .. k : RoPath(hp)[i] \in Leaves
    BY RoPathFacts
  <2> QED BY <2>1, SubSeqProperties
<1>4. /\ RoPath(SubSeq(hp, 1, k)) \in Seq(Leaves) /\ Len(RoPath(SubSeq(hp, 1, k))) = k
      /\ \A i \in 1 .. k : RoPath(SubSeq(hp, 1, k))[i] = RoLeaf(hp[i])
  BY <1>2, RoPathFacts
<1>5. \A i \in 1 .. k : RoPath(SubSeq(hp, 1, k))[i] = SubSeq(RoPath(hp), 1, k)[i]
  BY <1>3, <1>4, RoPathFacts
<1> QED BY <1>2, <1>3, <1>4, <1>5, SeqEqual

LEMMA FrontOfPrefix ==
    ASSUME NEW hp \in Seq(Made), NEW k \in 1 .. Len(hp)
    PROVE  /\ SubSeq(hp, 1, k) # <<>> /\ Front(SubSeq(hp, 1, k)) = SubSeq(hp, 1, k - 1)
           /\ Len(Front(SubSeq(hp, 1, k))) = k - 1 /\ Last(SubSeq(hp, 1, k)) = hp[k]
<1> DEFINE p == SubSeq(hp, 1, k)
           r == SubSeq(hp, 1, k - 1)
           f == SubSeq(p, 1, k - 1)
<1>1. Len(hp) \in Nat /\ k \in 0 .. Len(hp) /\ k - 1 \in 0 .. Len(hp)
  OBVIOUS
<1>2. p \in Seq(Made) /\ Len(p) = k /\ \A i \in 1 .. k : p[i] = hp[i]
  BY <1>1, PrefixFacts
<1>3. r \in Seq(Made) /\ Len(r) = k - 1 /\ \A i \in 1 .. k - 1 : r[i] = hp[i]
  BY <1>1, PrefixFacts
<1> HIDE DEF p, r
<1>4. k - 1 \in 0 .. Len(p)
  BY <1>1, <1>2
<1>5. f \in Seq(Made) /\ Len(f) = k - 1 /\ \A i \in 1 .. k - 1 : f[i] = p[i]
  BY <1>2, <1>4, PrefixFacts
<1> HIDE DEF f
<1>6. \A i \in 1 .. k - 1 : f[i] = r[i]
  <2> SUFFICES ASSUME NEW i \in 1 .. k - 1 PROVE f[i] = r[i]
    OBVIOUS
  <2>1. i \in 1 .. k
    BY <1>1
  <2> QED BY <1>2, <1>3, <1>5, <2>1
<1>7. f = r
  BY <1>3, <1>5, <1>6, SeqEqual
<1>8. Front(p) = f /\ Last(p) = hp[k] /\ p # <<>>
  BY <1>1, <1>2 DEF Front, Last, f
<1> QED BY <1>3, <1>7, <1>8 DEF p, r

LEMMA AppendFacts ==
    ASSUME NEW hp \in Seq(Made), NEW n \in Made
    PROVE  /\ Append(hp, n) \in Seq(Made) /\ Append(hp, n) # <<>>
           /\ Front(Append(hp, n)) = hp /\ Last(Append(hp, n)) = n
           /\ RoPath(Append(hp, n)) = Append(RoPath(hp), RoLeaf(n))
<1> DEFINE q == Append(hp, n)
<1>1. q \in Seq(Made) /\ Len(q) = Len(hp) + 1 /\ q # <<>> /\ q[Len(q)] = n /\ \A i \in 1 .. Len(hp) : q[i] = hp[i]
  OBVIOUS
<1>2. Front(q) = hp
  <2>1. SubSeq(q, 1, Len(hp)) \in Seq(Made) /\ Len(SubSeq(q, 1, Len(hp))) = Len(hp)
        /\ \A i \in 1 .. Len(hp) : SubSeq(q, 1, Len(hp))[i] = q[i]
    BY <1>1, PrefixFacts
  <2>2. SubSeq(q, 1, Len(hp)) = hp
    BY <1>1, <2>1, SeqEqual
  <2> QED BY <1>1, <2>2 DEF Front
<1>3. RoPath(q) = Append(RoPath(hp), RoLeaf(n))
  <2>1. /\ RoPath(q) \in Seq(Leaves) /\ Len(RoPath(q)) = Len(hp) + 1
        /\ \A i \in 1 .. Len(hp) + 1 : RoPath(q)[i] = RoLeaf(q[i])
    BY <1>1, RoPathFacts
  <2>2. /\ RoPath(hp) \in Seq(Leaves) /\ Len(RoPath(hp)) = Len(hp) /\ RoLeaf(n) \in Leaves
        /\ \A i \in 1 .. Len(hp) : RoPath(hp)[i] = RoLeaf(hp[i])
    BY RoPathFacts, MadeFacts
  <2>3. /\ Append(RoPath(hp), RoLeaf(n)) \in Seq(Leaves) /\ Len(Append(RoPath(hp), RoLeaf(n))) = Len(hp) + 1
        /\ \A i \in 1 .. Len(hp) + 1 : Append(RoPath(hp), RoLeaf(n))[i] = IF i = Len(hp) + 1 THEN RoLeaf(n) ELSE RoPath(hp)[i]
    BY <2>2
  <2>4. \A i \in 1 .. Len(hp) + 1 : RoPath(q)[i] = Append(RoPath(hp), RoLeaf(n))[i]
    BY <1>1, <2>1, <2>2, <2>3
  <2> QED BY <2>1, <2>3, <2>4, SeqEqual
<1> QED BY <1>1, <1>2, <1>3 DEF Last

LEMMA FrontFacts ==
    ASSUME NEW hp \in Seq(Made), hp # <<>>
    PROVE  /\ Len(hp) \in Nat \ {0} /\ Front(hp) \in Seq(Made) /\ Last(hp) \in Made
           /\ Len(Front(hp)) = Len(hp) - 1
           /\ hp = Append(Front(hp), Last(hp))
           /\ RoPath(hp) # <<>> /\ RoPath(Front(hp)) = Front(RoPath(hp)) /\ Last(RoPath(hp)) = RoLeaf(Last(hp))
<1>1. Len(hp) \in Nat \ {0}
  BY EmptySeq
<1>2. /\ Front(hp) \in Seq(Made) /\ Len(Front(hp)) = Len(hp) - 1 /\ Last(hp) \in Made
      /\ \A i \in 1 .. Len(hp) - 1 : Front(hp)[i] = hp[i]
      /\ RoPath(Front(hp)) = Front(RoPath(hp))
  <2>1. Len(hp) - 1 \in 0 .. Len(hp)
    BY <1>1
  <2>2. /\ Front(hp) \in Seq(Made) /\ Len(Front(hp)) = Len(hp) - 1
        /\ \A i \in 1 .. Len(hp) - 1 : Front(hp)[i] = hp[i]
        /\ RoPath(Front(hp)) = SubSeq(RoPath(hp), 1, Len(hp) - 1)
    BY <2>1, PrefixFacts DEF Front
  <2>3. Len(RoPath(hp)) = Len(hp)
    BY RoPathFacts
  <2>4. Last(hp) \in Made
    BY <1>1 DEF Last
  <2> QED BY <2>2, <2>3, <2>4 DEF Front
<1>3. hp = Append(Front(hp), Last(hp))
  <2>1. /\ Append(Front(hp), Last(hp)) \in Seq(Made) /\ Len(Append(Front(hp), Last(hp))) = Len(hp)
        /\ \A i \in 1 .. Len(hp) : Append(Front(hp), Last(hp))[i] = hp[i]
    BY <1>1, <1>2 DEF Last
  <2> QED BY <2>1, SeqEqual
<1>4. RoPath(hp) # <<>> /\ Last(RoPath(hp)) = RoLeaf(Last(hp))
  BY <1>1, RoPathFacts DEF Last
<1> QED BY <1>1, <1>2, <1>3, <1>4

(* A host path is known by the RISC OS path it stands for and its types.     *)
LEMMA HostPathOf ==
    ASSUME NEW hp \in Seq(Made), hp # <<>>, NEW ro, RoPath(hp) = ro
    PROVE  Construct(Front(hp), ro, TypeOf(Last(hp))) = hp
<1>1. Last(ro) = RoLeaf(Last(hp))
  BY FrontFacts
<1> QED BY <1>1, FrontFacts, MadeFacts DEF Construct

-----------------------------------------------------------------------------
\* What the host's directory always is: finitely many objects, under names that
\* HostFS made, each in a directory that is there too.
TreeOK ==
    /\ IsFiniteSet(DOMAIN tree)
    /\ tree \in [DOMAIN tree -> [kind : {"file", "dir"}, data : Contents]]
    /\ \A hp \in DOMAIN tree : hp \in Seq(Made) /\ RoPath(hp) \in Paths /\ IsDir(Front(hp))

LEMMA TreeFacts ==
    ASSUME TreeOK, NEW hp \in DOMAIN tree
    PROVE  /\ hp \in Seq(Made) /\ hp # <<>> /\ RoPath(hp) \in Paths /\ Len(hp) \in Nat \ {0}
           /\ IsDir(Front(hp)) /\ (Front(hp) \in DOMAIN tree \/ Front(hp) = <<>>)
           /\ tree[hp] \in [kind : {"file", "dir"}, data : Contents]
<1>1. hp \in Seq(Made) /\ RoPath(hp) \in Paths /\ tree[hp] \in [kind : {"file", "dir"}, data : Contents]
  BY DEF TreeOK
<1>2. hp # <<>> /\ Len(hp) \in Nat \ {0}
  <2>1. Len(RoPath(hp)) # 0
    BY <1>1, PathFacts
  <2> QED BY <1>1, <2>1, RoPathFacts
<1>3. IsDir(Front(hp)) /\ (Front(hp) \in DOMAIN tree \/ Front(hp) = <<>>)
  BY DEF TreeOK, IsDir
<1> QED BY <1>1, <1>2, <1>3

\* Every part of a host path that is in the tree is there too.
LEMMA PrefixInTree ==
    ASSUME TreeOK, NEW hp \in DOMAIN tree, NEW k \in 1 .. Len(hp)
    PROVE  SubSeq(hp, 1, k) \in DOMAIN tree
<1>1. hp \in Seq(Made) /\ Len(hp) \in Nat \ {0}
  BY TreeFacts
<1> DEFINE S == {j \in Nat : j < Len(hp) => SubSeq(hp, 1, Len(hp) - j) \in DOMAIN tree}
<1>2. 0 \in S
  <2>1. Len(hp) - 0 = Len(hp) /\ SubSeq(hp, 1, Len(hp)) = hp
    BY <1>1, SubSeqFull
  <2> QED BY <2>1
<1>3. ASSUME NEW j \in Nat, j \in S PROVE j + 1 \in S
  <2> SUFFICES ASSUME j + 1 < Len(hp) PROVE SubSeq(hp, 1, Len(hp) - (j + 1)) \in DOMAIN tree
    OBVIOUS
  <2>1. PICK m \in Nat : m = Len(hp) - j
    BY <1>1
  <2>2. SubSeq(hp, 1, m) \in DOMAIN tree /\ m \in 1 .. Len(hp) /\ m - 1 # 0 /\ m - 1 = Len(hp) - (j + 1)
    BY <1>1, <1>3, <2>1
  <2>3. Front(SubSeq(hp, 1, m)) = SubSeq(hp, 1, m - 1) /\ Len(Front(SubSeq(hp, 1, m))) = m - 1
    BY <1>1, <2>2, FrontOfPrefix
  <2>4. Front(SubSeq(hp, 1, m)) \in DOMAIN tree
    <3>1. Front(SubSeq(hp, 1, m)) # <<>>
      BY <2>2, <2>3
    <3> QED BY <2>2, <3>1, TreeFacts
  <2> QED BY <2>2, <2>3, <2>4
<1> HIDE DEF S
<1>4. \A j \in Nat : j \in S
  BY <1>2, <1>3, SetInduction
<1>5. Len(hp) - k \in Nat /\ Len(hp) - k < Len(hp) /\ Len(hp) - (Len(hp) - k) = k
  BY <1>1
<1> QED BY <1>4, <1>5 DEF S

LEMMA ReadDirIs ==
    ASSUME TreeOK, NEW hp \in Seq(Made), NEW n
    PROVE  n \in ReadDir(hp) <=> n \in Made /\ Append(hp, n) \in DOMAIN tree
<1>1. ASSUME n \in ReadDir(hp) PROVE n \in Made /\ Append(hp, n) \in DOMAIN tree
  <2>1. PICK q \in DOMAIN tree : q # <<>> /\ Front(q) = hp /\ n = Last(q)
    BY <1>1 DEF ReadDir
  <2>2. q \in Seq(Made)
    BY TreeFacts
  <2> QED BY <2>1, <2>2, FrontFacts
<1>2. ASSUME n \in Made, Append(hp, n) \in DOMAIN tree PROVE n \in ReadDir(hp)
  <2>1. Append(hp, n) # <<>> /\ Front(Append(hp, n)) = hp /\ Last(Append(hp, n)) = n
    BY <1>2, AppendFacts
  <2> QED BY <1>2, <2>1 DEF ReadDir
<1> QED BY <1>1, <1>2

LEMMA WalkedIs ==
    ASSUME TreeOK, NEW ro \in Seq(Leaves), NEW hp \in DOMAIN tree \cup {<<>>}
    PROVE  Walked(ro, hp) <=> Len(hp) <= Len(ro) /\ RoPath(hp) = SubSeq(ro, 1, Len(hp))
<1>1. hp \in Seq(Made) /\ DOMAIN hp = 1 .. Len(hp) /\ Len(hp) \in Nat
  <2>1. hp \in Seq(Made)
    BY TreeFacts, EmptySeq
  <2> QED BY <2>1, LenProperties
<1>2. /\ RoPath(hp) \in Seq(Leaves) /\ Len(RoPath(hp)) = Len(hp)
      /\ \A i \in 1 .. Len(hp) : RoPath(hp)[i] = RoLeaf(hp[i])
  BY <1>1, RoPathFacts
<1>3. Len(ro) \in Nat /\ \A i \in 1 .. Len(ro) : ro[i] \in Leaves
  OBVIOUS
<1>4. ASSUME Len(hp) <= Len(ro)
      PROVE  /\ SubSeq(ro, 1, Len(hp)) \in Seq(Leaves) /\ Len(SubSeq(ro, 1, Len(hp))) = Len(hp)
             /\ \A i \in 1 .. Len(hp) : SubSeq(ro, 1, Len(hp))[i] = ro[i]
  <2>1. \A i \in 1 .. Len(hp) : ro[i] \in Leaves
    BY <1>1, <1>3, <1>4
  <2> QED BY <1>1, <2>1, SubSeqProperties
<1>5. ASSUME Walked(ro, hp) PROVE Len(hp) <= Len(ro) /\ RoPath(hp) = SubSeq(ro, 1, Len(hp))
  <2>1. Len(hp) <= Len(ro) /\ \A i \in 1 .. Len(hp) : RoLeaf(hp[i]) = ro[i]
    BY <1>1, <1>5 DEF Walked, Scan
  <2>2. \A i \in 1 .. Len(hp) : RoPath(hp)[i] = SubSeq(ro, 1, Len(hp))[i]
    BY <1>2, <1>4, <2>1
  <2> QED BY <1>2, <1>4, <2>1, <2>2, SeqEqual
<1>6. ASSUME Len(hp) <= Len(ro), RoPath(hp) = SubSeq(ro, 1, Len(hp)) PROVE Walked(ro, hp)
  <2> SUFFICES ASSUME NEW i \in 1 .. Len(hp) PROVE hp[i] \in Scan(SubSeq(hp, 1, i - 1), ro[i])
    BY <1>1, <1>6 DEF Walked
  <2>1. RoLeaf(hp[i]) = ro[i]
    BY <1>2, <1>4, <1>6
  <2>2. hp \in DOMAIN tree
    BY <1>1
  <2>3. SubSeq(hp, 1, i) \in DOMAIN tree
    BY <2>2, PrefixInTree
  <2>4. i - 1 \in 0 .. Len(hp) /\ i \in 0 .. Len(hp) /\ hp[i] \in Made
    BY <1>1
  <2>5. SubSeq(hp, 1, i) = Append(SubSeq(hp, 1, i - 1), hp[i]) /\ SubSeq(hp, 1, i - 1) \in Seq(Made)
    <3>1. SubSeq(hp, 1, i) \in Seq(Made) /\ SubSeq(hp, 1, i - 1) \in Seq(Made)
      BY <1>1, <2>4, PrefixFacts
    <3> QED BY <1>1, <3>1, FrontOfPrefix, FrontFacts
  <2>6. hp[i] \in ReadDir(SubSeq(hp, 1, i - 1))
    BY <2>3, <2>4, <2>5, ReadDirIs
  <2> QED BY <2>1, <2>6 DEF Scan
<1> QED BY <1>5, <1>6

\* What an outcome of the walk along a path says of the tree.
LEMMA FoundIs ==
    ASSUME TreeOK, NEW ro \in Seq(Leaves), NEW w \in Process(ro), w.found
    PROVE  w.at \in DOMAIN tree \cup {<<>>} /\ RoPath(w.at) = ro /\ Len(w.at) = Len(ro) /\ ~w.error
<1>1. PICK hp \in DOMAIN tree \cup {<<>>} :
         Walked(ro, hp) /\ w = [found |-> Len(hp) = Len(ro), at |-> hp, error |-> Len(hp) + 1 < Len(ro)]
  BY DEF Process
<1>2. Len(hp) = Len(ro) /\ w.at = hp
  BY <1>1
<1>3. RoPath(hp) = ro
  BY <1>1, <1>2, WalkedIs, SubSeqFull
<1>4. Len(ro) \in Nat
  BY LenProperties
<1>5. w.error <=> Len(hp) + 1 < Len(ro)
  BY <1>1
<1>6. ~w.error
  BY <1>2, <1>4, <1>5
<1> QED BY <1>1, <1>2, <1>3, <1>6

LEMMA MissingIs ==
    ASSUME TreeOK, NEW ro \in Seq(Leaves), NEW w \in Process(ro), ~w.found
    PROVE  /\ w.at \in DOMAIN tree \cup {<<>>} /\ Len(w.at) < Len(ro) /\ RoPath(w.at) = SubSeq(ro, 1, Len(w.at))
           /\ w.error <=> Len(w.at) + 1 < Len(ro)
           /\ Scan(w.at, ro[Len(w.at) + 1]) = {}
<1>1. PICK hp \in DOMAIN tree \cup {<<>>} :
         /\ Walked(ro, hp) /\ w = [found |-> Len(hp) = Len(ro), at |-> hp, error |-> Len(hp) + 1 < Len(ro)]
         /\ Len(hp) < Len(ro) => Scan(hp, ro[Len(hp) + 1]) = {}
  BY DEF Process
<1>2. w.at = hp /\ (w.error <=> Len(hp) + 1 < Len(ro)) /\ Len(hp) # Len(ro)
  BY <1>1
<1>3. Len(hp) <= Len(ro) /\ RoPath(hp) = SubSeq(ro, 1, Len(hp))
  BY <1>1, WalkedIs
<1>4. Len(hp) \in Nat /\ Len(ro) \in Nat
  BY TreeFacts, LenProperties
<1> QED BY <1>1, <1>2, <1>3, <1>4

-----------------------------------------------------------------------------
\* A directory's name is nobody else's.  Of files this holds as long as the guest
\* does not save one over a file of another type.
DirsUnique == \A p, q \in DOMAIN tree : RoPath(p) = RoPath(q) /\ tree[p].kind = "dir" => p = q
Unique == DirsUnique /\ (~Retypes => NamesUnique)

LEMMA PrefixUnique ==
    ASSUME TreeOK, NEW p \in DOMAIN tree, NEW q \in DOMAIN tree,
           \A r \in DOMAIN tree : RoPath(p) = RoPath(r) => p = r
    PROVE  IsPrefix(RoPath(p), RoPath(q)) <=> IsPrefix(p, q)
<1>1. /\ p \in Seq(Made) /\ Len(p) \in Nat \ {0} /\ Len(RoPath(p)) = Len(p) /\ RoPath(p) \in Seq(Leaves)
      /\ q \in Seq(Made) /\ Len(q) \in Nat \ {0} /\ Len(RoPath(q)) = Len(q) /\ RoPath(q) \in Seq(Leaves)
  BY TreeFacts, RoPathFacts
<1>2. SubSeq(p, 1, Len(p)) = p /\ SubSeq(RoPath(p), 1, Len(p)) = RoPath(p)
  BY <1>1, SubSeqFull
<1>3. CASE Len(p) <= Len(q)
  <2>1. Len(p) \in 0 .. Len(q) /\ Len(p) \in 1 .. Len(q)
    BY <1>1, <1>3
  <2>2. SubSeq(q, 1, Len(p)) \in DOMAIN tree /\ RoPath(SubSeq(q, 1, Len(p))) = SubSeq(RoPath(q), 1, Len(p))
    BY <1>1, <2>1, PrefixInTree, PrefixFacts
  <2>3. RoPath(p) = RoPath(SubSeq(q, 1, Len(p))) <=> p = SubSeq(q, 1, Len(p))
    BY <2>2
  <2> QED BY <1>1, <1>2, <1>3, <2>2, <2>3 DEF IsPrefix
<1>4. CASE ~(Len(p) <= Len(q))
  BY <1>1, <1>4 DEF IsPrefix
<1> QED BY <1>3, <1>4

LEMMA MissingNowhere ==
    ASSUME TreeOK, Unique, NEW ro \in Paths, NEW w \in Process(ro), ~w.found, NEW q \in DOMAIN tree
    PROVE  ~IsPrefix(ro, RoPath(q))
<1> SUFFICES ASSUME IsPrefix(ro, RoPath(q)) PROVE FALSE
  OBVIOUS
<1> DEFINE k == Len(w.at) + 1
           p == SubSeq(q, 1, k)
<1>1. ro \in Seq(Leaves) /\ Len(ro) \in Nat \ {0}
  BY PathFacts
<1>2. /\ w.at \in DOMAIN tree \cup {<<>>} /\ Len(w.at) < Len(ro) /\ RoPath(w.at) = SubSeq(ro, 1, Len(w.at))
      /\ Scan(w.at, ro[k]) = {}
  BY <1>1, MissingIs
<1>3. w.at \in Seq(Made) /\ Len(w.at) \in Nat
  <2>1. w.at \in Seq(Made)
    BY <1>2, TreeFacts, EmptySeq
  <2> QED BY <2>1, LenProperties
<1>4. q \in Seq(Made) /\ Len(q) \in Nat /\ RoPath(q) \in Seq(Leaves) /\ Len(RoPath(q)) = Len(q)
  BY TreeFacts, RoPathFacts
<1>5. Len(ro) <= Len(q) /\ \A i \in 1 .. Len(ro) : RoPath(q)[i] = ro[i]
  <2>1. Len(ro) <= Len(q) /\ SubSeq(ro, 1, Len(ro)) = SubSeq(RoPath(q), 1, Len(ro))
    BY <1>4 DEF IsPrefix
  <2>2. SubSeq(ro, 1, Len(ro)) = ro
    BY <1>1, SubSeqFull
  <2>3. \A i \in 1 .. Len(ro) : RoPath(q)[i] \in Leaves
    BY <1>1, <1>4, <2>1
  <2>4. \A i \in 1 .. Len(ro) : SubSeq(RoPath(q), 1, Len(ro))[i] = RoPath(q)[i]
    BY <1>1, <2>3, SubSeqProperties
  <2> QED BY <2>1, <2>2, <2>4
<1>6. k \in 1 .. Len(q) /\ k \in 0 .. Len(q) /\ k - 1 \in 0 .. Len(q) /\ k \in 1 .. Len(ro) /\ k - 1 = Len(w.at)
  BY <1>1, <1>2, <1>3, <1>4, <1>5
<1>7. p \in DOMAIN tree /\ p \in Seq(Made) /\ p # <<>> /\ Len(p) = k
  <2>1. p \in DOMAIN tree
    BY <1>6, PrefixInTree
  <2>2. Len(p) = k
    BY <1>4, <1>6, PrefixFacts
  <2> QED BY <2>1, <2>2, TreeFacts
<1>8. Front(p) = SubSeq(q, 1, k - 1)
  BY <1>4, <1>6, FrontOfPrefix
<1>9. Front(p) = w.at
  <2>1. RoPath(Front(p)) = SubSeq(RoPath(q), 1, k - 1)
    BY <1>4, <1>6, <1>8, PrefixFacts
  <2>2. SubSeq(RoPath(q), 1, k - 1) = SubSeq(ro, 1, k - 1)
    <3>1. \A i \in 1 .. k - 1 : RoPath(q)[i] \in Leaves /\ ro[i] \in Leaves /\ RoPath(q)[i] = ro[i]
      BY <1>1, <1>4, <1>5, <1>6
    <3>2. /\ SubSeq(RoPath(q), 1, k - 1) \in Seq(Leaves) /\ Len(SubSeq(RoPath(q), 1, k - 1)) = k - 1
          /\ \A i \in 1 .. k - 1 : SubSeq(RoPath(q), 1, k - 1)[i] = RoPath(q)[i]
      BY <1>6, <3>1, SubSeqProperties
    <3>3. /\ SubSeq(ro, 1, k - 1) \in Seq(Leaves) /\ Len(SubSeq(ro, 1, k - 1)) = k - 1
          /\ \A i \in 1 .. k - 1 : SubSeq(ro, 1, k - 1)[i] = ro[i]
      BY <1>6, <3>1, SubSeqProperties
    <3>4. \A i \in 1 .. k - 1 : SubSeq(RoPath(q), 1, k - 1)[i] = SubSeq(ro, 1, k - 1)[i]
      BY <3>1, <3>2, <3>3
    <3> QED BY <3>2, <3>3, <3>4, SeqEqual
  <2>3. RoPath(Front(p)) = RoPath(w.at)
    BY <1>2, <1>6, <2>1, <2>2
  <2>4. CASE k = 1
    <3>1. Len(w.at) = 0 /\ Len(Front(p)) = 0 /\ Front(p) \in Seq(Made)
      <4>1. Len(Front(p)) = Len(p) - 1 /\ Front(p) \in Seq(Made)
        BY <1>7, FrontFacts
      <4> QED BY <1>3, <1>7, <2>4, <4>1
    <3> QED BY <1>3, <3>1
  <2>5. CASE k # 1
    <3>1. Len(w.at) # 0 /\ k - 1 \in 1 .. Len(q)
      BY <1>3, <1>6, <2>5
    <3>2. w.at \in DOMAIN tree
      BY <1>2, <3>1
    <3>3. Front(p) \in DOMAIN tree /\ tree[Front(p)].kind = "dir"
      <4>1. Front(p) \in DOMAIN tree
        BY <1>8, <3>1, PrefixInTree
      <4> QED BY <1>7, <4>1, TreeFacts DEF IsDir
    <3> QED BY <2>3, <3>2, <3>3 DEF Unique, DirsUnique
  <2> QED BY <2>4, <2>5
<1>10. RoLeaf(Last(p)) = ro[k]
  <2>1. RoLeaf(Last(p)) = RoPath(p)[k]
    <3>1. Last(RoPath(p)) = RoLeaf(Last(p)) /\ Len(RoPath(p)) = k
      BY <1>7, FrontFacts, RoPathFacts
    <3> QED BY <3>1 DEF Last
  <2>2. RoPath(p)[k] = RoLeaf(p[k]) /\ p[k] = q[k] /\ RoPath(q)[k] = RoLeaf(q[k])
    <3>1. p[k] = q[k]
      <4>1. k \in 1 .. k
        BY <1>6
      <4> QED BY <1>4, <1>6, <4>1, PrefixFacts
    <3>2. RoPath(p)[k] = RoLeaf(p[k])
      <4>1. k \in 1 .. Len(p)
        BY <1>6, <1>7
      <4> QED BY <1>7, <4>1, RoPathFacts
    <3>3. RoPath(q)[k] = RoLeaf(q[k])
      BY <1>4, <1>6, RoPathFacts
    <3> QED BY <3>1, <3>2, <3>3
  <2> QED BY <1>5, <1>6, <2>1, <2>2
<1>11. Last(p) \in ReadDir(w.at)
  BY <1>7, <1>9 DEF ReadDir
<1> QED BY <1>2, <1>10, <1>11 DEF Scan

\* An object that is there is found, whatever order the host lists names in.
LEMMA FoundOnly ==
    ASSUME TreeOK, Unique, NamesUnique, NEW p \in DOMAIN tree, NEW w \in Process(RoPath(p))
    PROVE  w.found /\ w.at = p
<1>1. RoPath(p) \in Paths /\ RoPath(p) \in Seq(Leaves) /\ RoPath(p) # <<>>
  BY TreeFacts, PathFacts
<1>2. IsPrefix(RoPath(p), RoPath(p))
  BY <1>1, LenProperties DEF IsPrefix
<1>3. w.found
  BY <1>1, <1>2, MissingNowhere
<1>4. w.at \in DOMAIN tree \cup {<<>>} /\ RoPath(w.at) = RoPath(p)
  BY <1>1, <1>3, FoundIs
<1>5. w.at # <<>>
  BY <1>1, <1>4 DEF RoPath
<1> QED BY <1>3, <1>4, <1>5 DEF NamesUnique

-----------------------------------------------------------------------------
\* The data of files.

LEMMA ContentsFacts ==
    ASSUME NEW d
    PROVE  /\ d \in Contents => d \in Seq(Bytes) /\ Len(d) \in 0 .. MaxLen
           /\ d \in Seq(Bytes) /\ Len(d) <= MaxLen => d \in Contents
<1>1. MaxLen \in Nat
  BY HostFsAssumption
<1>2. ASSUME d \in Contents PROVE d \in Seq(Bytes) /\ Len(d) \in 0 .. MaxLen
  <2>1. PICK n \in 0 .. MaxLen : d \in [1 .. n -> Bytes]
    BY <1>2 DEF Contents
  <2> QED BY <1>1, <2>1
<1>3. ASSUME d \in Seq(Bytes), Len(d) <= MaxLen PROVE d \in Contents
  <2>1. Len(d) \in 0 .. MaxLen /\ d \in [1 .. Len(d) -> Bytes]
    BY <1>1, <1>3, LenProperties
  <2> QED BY <2>1 DEF Contents
<1> QED BY <1>2, <1>3

LEMMA PaddedFacts ==
    ASSUME NEW d \in Seq(Bytes), NEW n \in Nat
    PROVE  /\ Padded(d, n) \in Seq(Bytes)
           /\ Len(Padded(d, n)) = IF n > Len(d) THEN n ELSE Len(d)
<1> DEFINE m == IF n > Len(d) THEN n - Len(d) ELSE 0
           z == [i \in 1 .. m |-> 0]
<1>1. Len(d) \in Nat /\ m \in Nat /\ 0 \in Bytes
  BY HostFsAssumption
<1>2. z \in Seq(Bytes) /\ Len(z) = m
  BY <1>1
<1>3. d \o z \in Seq(Bytes) /\ Len(d \o z) = Len(d) + m
  BY <1>2, ConcatProperties
<1> QED BY <1>1, <1>3 DEF Padded

LEMMA PokeFacts ==
    ASSUME NEW d \in Contents, NEW off \in 0 .. MaxLen - 1, NEW b \in Bytes
    PROVE  Poke(d, off, b) \in Contents
<1> DEFINE p == Padded(d, off + 1)
<1>1. MaxLen \in Nat
  BY HostFsAssumption
<1>2. d \in Seq(Bytes) /\ Len(d) \in 0 .. MaxLen /\ off + 1 \in 1 .. MaxLen
  BY <1>1, ContentsFacts
<1>3. p \in Seq(Bytes) /\ Len(p) <= MaxLen /\ off + 1 \in 1 .. Len(p)
  <2>1. off + 1 \in Nat
    BY <1>2
  <2>2. p \in Seq(Bytes) /\ Len(p) = IF off + 1 > Len(d) THEN off + 1 ELSE Len(d)
    BY <1>2, <2>1, PaddedFacts
  <2> QED BY <1>1, <1>2, <2>2
<1> HIDE DEF p
<1>4. [p EXCEPT ![off + 1] = b] \in Seq(Bytes) /\ Len([p EXCEPT ![off + 1] = b]) = Len(p)
  BY <1>3, ExceptSeq
<1> QED BY <1>3, <1>4, ContentsFacts DEF Poke, p

LEMMA ExtentFacts ==
    ASSUME NEW d \in Contents, NEW n \in 0 .. MaxLen
    PROVE  SubSeq(Padded(d, n), 1, n) \in Contents
<1>1. MaxLen \in Nat /\ n \in Nat /\ d \in Seq(Bytes) /\ Len(d) \in Nat
  BY HostFsAssumption, ContentsFacts
<1>2. Padded(d, n) \in Seq(Bytes) /\ Len(Padded(d, n)) >= n
  BY <1>1, PaddedFacts
<1>3. \A i \in 1 .. n : Padded(d, n)[i] \in Bytes
  BY <1>1, <1>2
<1>4. SubSeq(Padded(d, n), 1, n) \in Seq(Bytes) /\ Len(SubSeq(Padded(d, n), 1, n)) = n
  BY <1>1, <1>3, SubSeqProperties
<1>5. n <= MaxLen
  BY <1>1
<1> QED BY <1>4, <1>5, ContentsFacts

\* The files that are open: a handle without a file is NULL, only what was put to a
\* file open for update is buffered, and no directory is open for update.
FilesOK ==
    /\ open_file \in [Handles -> [at : DOMAIN tree \cup {<<>>, Gone}, update : BOOLEAN,
                                  put : {<<>>} \cup ((0 .. MaxLen - 1) \X Bytes)]]
    /\ \A h \in Handles :
         /\ open_file[h].at = <<>> => open_file[h] = NULL
         /\ open_file[h].put # <<>> => open_file[h].update
         /\ open_file[h].update => open_file[h].at = Gone \/ tree[open_file[h].at].kind = "file"

\* A tree that differs from the present one in the data of files only that the
\* handles hs are open for update on.
Rewritten(hs) ==
    {t \in [DOMAIN tree -> [kind : {"file", "dir"}, data : Contents]] :
       \A q \in DOMAIN tree : \/ t[q] = tree[q]
                              \/ /\ t[q].kind = tree[q].kind
                                 /\ \E h \in hs : open_file[h].update /\ open_file[h].at = q}

LEMMA GoneNotThere ==
    ASSUME TreeOK
    PROVE  Gone \notin DOMAIN tree /\ <<>> \notin DOMAIN tree /\ Gone # <<>>
<1>1. ASSUME Gone \in DOMAIN tree PROVE FALSE
  <2>1. Gone \in Seq(Made)
    BY <1>1, TreeFacts
  <2>2. <<>> \in Made
    BY <2>1 DEF Gone
  <2> QED BY <2>2, MadeFacts
<1> QED BY <1>1, TreeFacts DEF Gone

LEMMA RewriteMore ==
    ASSUME TreeOK, NEW hs, NEW h \in hs, NEW t \in Rewritten(hs),
           open_file[h].update, open_file[h].at \in DOMAIN tree, NEW d \in Contents
    PROVE  [t EXCEPT ![open_file[h].at].data = d] \in Rewritten(hs)
<1> DEFINE q == open_file[h].at
           u == [t EXCEPT ![q].data = d]
<1>1. t \in [DOMAIN tree -> [kind : {"file", "dir"}, data : Contents]]
      /\ \A p \in DOMAIN tree : t[p].kind = tree[p].kind
  BY DEF Rewritten
<1>2. u = [t EXCEPT ![q] = [t[q] EXCEPT !.data = d]]
  OBVIOUS
<1>3. [t[q] EXCEPT !.data = d] \in [kind : {"file", "dir"}, data : Contents]
      /\ [t[q] EXCEPT !.data = d].kind = t[q].kind
  BY <1>1
<1> HIDE DEF u
<1>4. u \in [DOMAIN tree -> [kind : {"file", "dir"}, data : Contents]]
      /\ u[q].kind = tree[q].kind /\ \A p \in DOMAIN tree : p # q => u[p] = t[p]
  BY <1>1, <1>2, <1>3
<1>5. ASSUME NEW p \in DOMAIN tree
      PROVE  \/ u[p] = tree[p]
             \/ u[p].kind = tree[p].kind /\ \E g \in hs : open_file[g].update /\ open_file[g].at = p
  <2>1. CASE p = q
    BY <1>4, <2>1
  <2>2. CASE p # q
    BY <1>4, <2>2 DEF Rewritten
  <2> QED BY <2>1, <2>2
<1> QED BY <1>4, <1>5 DEF Rewritten, u

LEMMA FlushedIs ==
    ASSUME TreeOK, FilesOK, NEW hs \in SUBSET Handles
    PROVE  Flushed(hs) \in Rewritten(hs)
<1> DEFINE N == MaxOpen
           T == Rewritten(hs)
           Put1(h) == h \in hs /\ open_file[h].put # <<>> /\ open_file[h].at \in DOMAIN tree
           One(t, h) == IF Put1(h)
                          THEN [t EXCEPT ![open_file[h].at].data = Poke(@, open_file[h].put[1], open_file[h].put[2])]
                          ELSE t
           Is(f, n) == f = [h \in 0 .. n |-> IF h = 0 THEN tree ELSE One(f[h - 1], h)]
<1>1. N \in Nat
  BY HostFsAssumption
<1>2. tree \in T
  BY DEF TreeOK, Rewritten
<1>3. ASSUME NEW t \in T, NEW h \in 1 .. N PROVE One(t, h) \in T
  <2>1. CASE ~Put1(h)
    BY <1>3, <2>1
  <2>2. CASE Put1(h)
    <3>1. h \in hs /\ open_file[h].at \in DOMAIN tree /\ open_file[h].update
          /\ open_file[h].put \in (0 .. MaxLen - 1) \X Bytes
      BY <2>2 DEF FilesOK, Handles
    <3>2. t[open_file[h].at].data \in Contents
      BY <1>3, <3>1 DEF Rewritten
    <3>3. Poke(t[open_file[h].at].data, open_file[h].put[1], open_file[h].put[2]) \in Contents
      BY <3>1, <3>2, PokeFacts
    <3> QED BY <1>3, <2>2, <3>1, <3>3, RewriteMore
  <2> QED BY <2>1, <2>2
<1> HIDE DEF One, T
<1>4. \A n \in Nat : n <= N => \E f : Is(f, n)
  <2> DEFINE S == {n \in Nat : n <= N => \E f : Is(f, n)}
  <2>1. 0 \in S
    <3>1. Is([h \in 0 .. 0 |-> tree], 0)
      OBVIOUS
    <3> QED BY <3>1
  <2>2. ASSUME NEW n \in Nat, n \in S PROVE n + 1 \in S
    <3> SUFFICES ASSUME n + 1 <= N PROVE \E f : Is(f, n + 1)
      OBVIOUS
    <3>1. PICK f : Is(f, n)
      BY <1>1, <2>2
    <3> DEFINE g == [h \in 0 .. n + 1 |-> IF h <= n THEN f[h] ELSE One(f[n], n + 1)]
    <3>2. \A h \in 0 .. n + 1 : g[h] = IF h = 0 THEN tree ELSE One(g[h - 1], h)
      <4> SUFFICES ASSUME NEW h \in 0 .. n + 1 PROVE g[h] = IF h = 0 THEN tree ELSE One(g[h - 1], h)
        OBVIOUS
      <4>1. CASE h = 0
        BY <3>1, <4>1
      <4>2. CASE h \in 1 .. n
        <5>1. g[h] = f[h] /\ g[h - 1] = f[h - 1] /\ h \in 0 .. n /\ h # 0
          BY <4>2
        <5>2. f[h] = One(f[h - 1], h)
          BY <3>1, <5>1
        <5> QED BY <5>1, <5>2
      <4>3. CASE h = n + 1
        <5>1. g[h] = One(f[n], n + 1) /\ g[h - 1] = f[n] /\ h # 0
          BY <4>3
        <5> QED BY <4>3, <5>1
      <4> QED BY <4>1, <4>2, <4>3
    <3>3. Is(g, n + 1)
      BY <3>2
    <3> QED BY <3>3
  <2> HIDE DEF S
  <2>3. \A n \in Nat : n \in S
    BY <2>1, <2>2, SetInduction
  <2> QED BY <2>3 DEF S
<1> DEFINE after == CHOOSE f : Is(f, N)
<1>5. Is(after, N)
  <2>1. N <= N
    BY <1>1
  <2>2. \E f : Is(f, N)
    BY <1>1, <1>4, <2>1, Zenon
  <2> QED BY <2>2, Zenon
<1>6. after[N] \in T
  <2> DEFINE S == {n \in Nat : n <= N => after[n] \in T}
  <2> HIDE DEF after
  <2>1. 0 \in S
    BY <1>1, <1>2, <1>5
  <2>2. ASSUME NEW n \in Nat, n \in S PROVE n + 1 \in S
    <3> SUFFICES ASSUME n + 1 <= N PROVE after[n + 1] \in T
      OBVIOUS
    <3>1. after[n] \in T /\ n + 1 \in 1 .. N
      BY <1>1, <2>2
    <3>2. after[n + 1] = One(after[n], n + 1)
      BY <1>1, <1>5, <3>1
    <3> QED BY <1>3, <3>1, <3>2
  <2> HIDE DEF S
  <2>3. \A n \in Nat : n \in S
    BY <2>1, <2>2, SetInduction
  <2> QED BY <1>1, <2>3 DEF S
<1>7. Flushed(hs) = after[N]
  BY DEF Flushed, One
<1> QED BY <1>6, <1>7 DEF T

-----------------------------------------------------------------------------
\* The ways in which a call changes the tree.

LEMMA RewrittenKeeps ==
    ASSUME TreeOK, Unique, NEW hs, tree' \in Rewritten(hs)
    PROVE  TreeOK' /\ Unique' /\ DOMAIN tree' = DOMAIN tree
           /\ \A q \in DOMAIN tree : tree'[q].kind = tree[q].kind
<1>1. tree' \in [DOMAIN tree -> [kind : {"file", "dir"}, data : Contents]] /\ DOMAIN tree' = DOMAIN tree
      /\ \A q \in DOMAIN tree : tree'[q].kind = tree[q].kind
  BY DEF Rewritten
<1>2. TreeOK'
  BY <1>1 DEF TreeOK, IsDir
<1>3. Unique'
  BY <1>1 DEF Unique, DirsUnique, NamesUnique
<1> QED BY <1>1, <1>2, <1>3

\* An object is made, or a file saved over.
LEMMA PutKeeps ==
    ASSUME TreeOK, Unique, NEW hp \in Seq(Made), hp # <<>>, RoPath(hp) \in Paths, IsDir(Front(hp)),
           NEW o \in [kind : {"file", "dir"}, data : Contents],
           \/ hp \in DOMAIN tree /\ tree[hp].kind = o.kind
           \/ \A q \in DOMAIN tree : RoPath(q) # RoPath(hp)
           \/ Retypes /\ o.kind = "file" /\ \A q \in DOMAIN tree : RoPath(q) = RoPath(hp) => tree[q].kind # "dir",
           tree' = Put(tree, hp, o)
    PROVE  TreeOK' /\ Unique'
<1>1. /\ DOMAIN tree' = DOMAIN tree \cup {hp}
      /\ tree' \in [DOMAIN tree \cup {hp} -> [kind : {"file", "dir"}, data : Contents]]
      /\ \A q \in DOMAIN tree' : tree'[q] = IF q = hp THEN o ELSE tree[q]
  BY DEF Put, TreeOK
<1>2. IsFiniteSet(DOMAIN tree')
  BY <1>1, FS_AddElement DEF TreeOK
<1>3. ASSUME NEW p, IsDir(p) PROVE IsDir(p)'
  BY <1>1, <1>3 DEF IsDir
<1>4. \A q \in DOMAIN tree' : q \in Seq(Made) /\ RoPath(q) \in Paths /\ IsDir(Front(q))
  BY <1>1 DEF TreeOK
<1>5. \A q \in DOMAIN tree' : q \in Seq(Made) /\ RoPath(q) \in Paths /\ IsDir(Front(q))'
  BY <1>3, <1>4
<1>6. TreeOK'
  BY <1>1, <1>2, <1>5 DEF TreeOK
<1>7. Unique'
  <2>1. ~Retypes => NamesUnique'
    BY <1>1 DEF Unique, NamesUnique
  <2>2. DirsUnique'
    <3> SUFFICES ASSUME NEW p \in DOMAIN tree', NEW q \in DOMAIN tree', RoPath(p) = RoPath(q), tree'[p].kind = "dir"
                 PROVE  p = q
      BY DEF DirsUnique
    <3>1. CASE p # hp /\ q # hp
      BY <1>1, <3>1 DEF Unique, DirsUnique
    <3>2. CASE p = hp
      BY <1>1, <3>2 DEF Unique, DirsUnique
    <3>3. CASE q = hp
      BY <1>1, <3>3 DEF Unique, DirsUnique
    <3> QED BY <3>1, <3>2, <3>3
  <2> QED BY <2>1, <2>2 DEF Unique
<1> QED BY <1>6, <1>7

LEMMA DeleteKeeps ==
    ASSUME TreeOK, Unique, NEW hp \in DOMAIN tree, ReadDir(hp) = {} \/ ~IsDir(hp),
           tree' = Restrict(tree, DOMAIN tree \ {hp})
    PROVE  TreeOK' /\ Unique'
<1>1. /\ DOMAIN tree' = DOMAIN tree \ {hp}
      /\ tree' \in [DOMAIN tree \ {hp} -> [kind : {"file", "dir"}, data : Contents]]
      /\ \A q \in DOMAIN tree' : tree'[q] = tree[q]
  BY DEF Restrict, TreeOK
<1>2. IsFiniteSet(DOMAIN tree')
  BY <1>1, FS_RemoveElement DEF TreeOK
<1>3. ASSUME NEW q \in DOMAIN tree PROVE Front(q) # hp
  <2>1. q # <<>> /\ IsDir(Front(q))
    BY TreeFacts
  <2> QED BY <2>1 DEF ReadDir
<1>4. \A q \in DOMAIN tree' : q \in Seq(Made) /\ RoPath(q) \in Paths /\ IsDir(Front(q))'
  BY <1>1, <1>3 DEF TreeOK, IsDir
<1>5. TreeOK'
  BY <1>1, <1>2, <1>4 DEF TreeOK
<1>6. Unique'
  BY <1>1 DEF Unique, DirsUnique, NamesUnique
<1> QED BY <1>5, <1>6

LEMMA PrefixIs ==
    ASSUME NEW X, NEW p \in Seq(X), NEW q \in Seq(X)
    PROVE  IsPrefix(p, q) <=> Len(p) <= Len(q) /\ \A i \in 1 .. Len(p) : p[i] = q[i]
<1>1. SubSeq(p, 1, Len(p)) = p /\ Len(p) \in Nat /\ Len(q) \in Nat
  BY SubSeqFull, LenProperties
<1>2. CASE Len(p) <= Len(q)
  <2> DEFINE s == SubSeq(q, 1, Len(p))
  <2>1. \A i \in 1 .. Len(p) : q[i] \in X
    BY <1>1, <1>2
  <2>2. s \in Seq(X) /\ Len(s) = Len(p) /\ \A i \in 1 .. Len(p) : s[i] = q[i]
    BY <1>1, <2>1, SubSeqProperties
  <2> HIDE DEF s
  <2>3. p = s <=> \A i \in 1 .. Len(p) : p[i] = s[i]
    BY <2>2, SeqEqual
  <2> QED BY <1>1, <1>2, <2>2, <2>3 DEF IsPrefix, s
<1>3. CASE ~(Len(p) <= Len(q))
  BY <1>3 DEF IsPrefix
<1> QED BY <1>2, <1>3

LEMMA MovedIs ==
    ASSUME NEW X, NEW from \in Seq(X), NEW to \in Seq(X), NEW q \in Seq(X)
    PROVE  /\ Moved(from, to, q) \in Seq(X)
           /\ ~IsPrefix(from, q) => Moved(from, to, q) = q
           /\ IsPrefix(from, q) =>
                /\ Len(Moved(from, to, q)) = Len(to) + (Len(q) - Len(from))
                /\ \A i \in 1 .. Len(to) : Moved(from, to, q)[i] = to[i]
                /\ \A i \in 1 .. Len(q) - Len(from) : Moved(from, to, q)[Len(to) + i] = q[Len(from) + i]
<1>1. CASE ~IsPrefix(from, q)
  BY <1>1 DEF Moved
<1>2. CASE IsPrefix(from, q)
  <2> DEFINE s == SubSeq(q, Len(from) + 1, Len(q))
  <2>1. Len(from) \in Nat /\ Len(to) \in Nat /\ Len(q) \in Nat /\ Len(from) <= Len(q)
    BY <1>2, LenProperties DEF IsPrefix
  <2>2. \A i \in Len(from) + 1 .. Len(q) : q[i] \in X
    BY <2>1
  <2>3. s \in Seq(X) /\ Len(s) = Len(q) - Len(from)
        /\ \A i \in 1 .. Len(q) - Len(from) : s[i] = q[Len(from) + i]
    BY <2>1, <2>2, SubSeqProperties
  <2> HIDE DEF s
  <2>4. to \o s \in Seq(X) /\ Len(to \o s) = Len(to) + Len(s)
        /\ \A i \in 1 .. Len(to) + Len(s) : (to \o s)[i] = IF i <= Len(to) THEN to[i] ELSE s[i - Len(to)]
    BY <2>3, ConcatProperties
  <2>5. Moved(from, to, q) = to \o s
    BY <1>2 DEF Moved, s
  <2>6. \A i \in 1 .. Len(to) : (to \o s)[i] = to[i]
    BY <2>1, <2>3, <2>4
  <2>7. ASSUME NEW i \in 1 .. Len(q) - Len(from) PROVE (to \o s)[Len(to) + i] = q[Len(from) + i]
    <3>1. Len(to) + i \in 1 .. Len(to) + Len(s) /\ ~(Len(to) + i <= Len(to)) /\ (Len(to) + i) - Len(to) = i
      BY <2>1, <2>3
    <3> QED BY <2>3, <2>4, <3>1
  <2> QED BY <1>2, <2>1, <2>3, <2>4, <2>5, <2>6, <2>7
<1> QED BY <1>1, <1>2

LEMMA MovedMade ==
    ASSUME NEW from \in Seq(Made), NEW to \in Seq(Made), NEW q \in Seq(Made), IsPrefix(from, q)
    PROVE  /\ Moved(from, to, q) \in Seq(Made) /\ Len(from) <= Len(q)
           /\ \A i \in 1 .. Len(from) : from[i] = q[i]
           /\ Len(Moved(from, to, q)) = Len(to) + (Len(q) - Len(from))
           /\ \A i \in 1 .. Len(to) : Moved(from, to, q)[i] = to[i]
           /\ \A i \in 1 .. Len(q) - Len(from) : Moved(from, to, q)[Len(to) + i] = q[Len(from) + i]
<1>1. Len(from) <= Len(q) /\ \A i \in 1 .. Len(from) : from[i] = q[i]
  BY PrefixIs
<1>2. /\ Moved(from, to, q) \in Seq(Made)
      /\ Len(Moved(from, to, q)) = Len(to) + (Len(q) - Len(from))
  BY MovedIs
<1>3. \A i \in 1 .. Len(to) : Moved(from, to, q)[i] = to[i]
  BY MovedIs
<1>4. \A i \in 1 .. Len(q) - Len(from) : Moved(from, to, q)[Len(to) + i] = q[Len(from) + i]
  BY MovedIs
<1> QED BY <1>1, <1>2, <1>3, <1>4

\* What is needed of a rename so that it can neither lose an object nor give two of
\* them one name.
Renames(from, to) ==
    /\ from \in DOMAIN tree /\ to \in Seq(Made) /\ to # <<>> /\ to \notin DOMAIN tree
    /\ IsDir(Front(to)) /\ ~IsPrefix(from, to)
    /\ \A q \in DOMAIN tree : IsPrefix(RoPath(to), RoPath(q)) => IsPrefix(from, q)
    /\ \A q \in DOMAIN tree : RoPath(Moved(from, to, q)) \in Paths

LEMMA MovedNames ==
    ASSUME TreeOK, Unique, NEW from, NEW to, Renames(from, to),
           NEW p \in DOMAIN tree, NEW q \in DOMAIN tree, RoPath(Moved(from, to, p)) = RoPath(Moved(from, to, q))
    PROVE  RoPath(p) = RoPath(q) /\ (Moved(from, to, p) = Moved(from, to, q) => p = q)
<1> DEFINE mp == Moved(from, to, p)
           mq == Moved(from, to, q)
<1>1. /\ from \in Seq(Made) /\ to \in Seq(Made) /\ p \in Seq(Made) /\ q \in Seq(Made)
      /\ Len(from) \in Nat /\ Len(to) \in Nat /\ Len(p) \in Nat /\ Len(q) \in Nat
  BY TreeFacts, LenProperties DEF Renames
<1>2. mp \in Seq(Made) /\ mq \in Seq(Made)
  BY <1>1, MovedIs
<1>3. CASE ~IsPrefix(from, p) /\ ~IsPrefix(from, q)
  BY <1>1, <1>3, MovedIs
<1>4. ASSUME NEW r \in DOMAIN tree, NEW s \in DOMAIN tree, IsPrefix(from, r), ~IsPrefix(from, s),
             RoPath(Moved(from, to, r)) = RoPath(Moved(from, to, s))
      PROVE  FALSE
  <2> DEFINE m == Moved(from, to, r)
  <2>1. r \in Seq(Made) /\ s \in Seq(Made) /\ Len(r) \in Nat /\ Len(from) <= Len(r)
    BY <1>4, TreeFacts DEF IsPrefix
  <2>2. m \in Seq(Made) /\ Len(m) >= Len(to) /\ \A i \in 1 .. Len(to) : m[i] = to[i]
    <3>1. m \in Seq(Made) /\ Len(m) = Len(to) + (Len(r) - Len(from)) /\ \A i \in 1 .. Len(to) : m[i] = to[i]
      BY <1>1, <1>4, <2>1, MovedMade
    <3> HIDE DEF m
    <3> QED BY <1>1, <2>1, <3>1
  <2>3. RoPath(m) = RoPath(s)
    BY <1>1, <1>4, <2>1, MovedIs
  <2> HIDE DEF m
  <2>4. /\ RoPath(m) \in Seq(Leaves) /\ RoPath(to) \in Seq(Leaves)
        /\ Len(RoPath(to)) = Len(to) /\ Len(RoPath(m)) = Len(m)
        /\ \A i \in 1 .. Len(to) : RoPath(to)[i] = RoLeaf(to[i])
        /\ \A i \in 1 .. Len(m) : RoPath(m)[i] = RoLeaf(m[i])
    BY <1>1, <2>2, RoPathFacts
  <2>5. Len(m) \in Nat
    BY <2>2, LenProperties
  <2>6. \A i \in 1 .. Len(to) : RoPath(to)[i] = RoPath(m)[i]
    BY <1>1, <2>2, <2>4, <2>5
  <2>7. IsPrefix(RoPath(to), RoPath(m))
    BY <2>2, <2>4, <2>6, PrefixIs
  <2> QED BY <1>4, <2>3, <2>7 DEF Renames
<1>5. CASE IsPrefix(from, p) /\ IsPrefix(from, q)
  <2>1. /\ Len(from) <= Len(p) /\ \A i \in 1 .. Len(from) : from[i] = p[i]
        /\ Len(from) <= Len(q) /\ \A i \in 1 .. Len(from) : from[i] = q[i]
    BY <1>1, <1>5, PrefixIs
  <2>2. /\ Len(mp) = Len(to) + (Len(p) - Len(from))
        /\ \A i \in 1 .. Len(p) - Len(from) : mp[Len(to) + i] = p[Len(from) + i]
        /\ Len(mq) = Len(to) + (Len(q) - Len(from))
        /\ \A i \in 1 .. Len(q) - Len(from) : mq[Len(to) + i] = q[Len(from) + i]
    <3>1. /\ Len(mp) = Len(to) + (Len(p) - Len(from))
          /\ \A i \in 1 .. Len(p) - Len(from) : mp[Len(to) + i] = p[Len(from) + i]
      <4>1. from \in Seq(Made) /\ to \in Seq(Made) /\ p \in Seq(Made) /\ IsPrefix(from, p)
        BY <1>1, <1>5
      <4>2. Len(mp) = Len(to) + (Len(p) - Len(from))
        BY <4>1, MovedMade
      <4>3. \A i \in 1 .. Len(p) - Len(from) : mp[Len(to) + i] = p[Len(from) + i]
        BY <4>1, MovedMade
      <4> QED BY <4>2, <4>3
    <3>2. /\ Len(mq) = Len(to) + (Len(q) - Len(from))
          /\ \A i \in 1 .. Len(q) - Len(from) : mq[Len(to) + i] = q[Len(from) + i]
      <4>1. from \in Seq(Made) /\ to \in Seq(Made) /\ q \in Seq(Made) /\ IsPrefix(from, q)
        BY <1>1, <1>5
      <4>2. Len(mq) = Len(to) + (Len(q) - Len(from))
        BY <4>1, MovedMade
      <4>3. \A i \in 1 .. Len(q) - Len(from) : mq[Len(to) + i] = q[Len(from) + i]
        BY <4>1, MovedMade
      <4> QED BY <4>2, <4>3
    <3> QED BY <3>1, <3>2
  <2> HIDE DEF mp, mq
  <2>3. /\ Len(RoPath(mp)) = Len(mp) /\ \A i \in 1 .. Len(mp) : RoPath(mp)[i] = RoLeaf(mp[i])
        /\ Len(RoPath(mq)) = Len(mq) /\ \A i \in 1 .. Len(mq) : RoPath(mq)[i] = RoLeaf(mq[i])
        /\ RoPath(mp) = RoPath(mq)
    BY <1>2, RoPathFacts DEF mp, mq
  <2>4. Len(p) = Len(q)
    BY <1>1, <2>2, <2>3
  <2>5. ASSUME NEW j \in 1 .. Len(p) PROVE RoLeaf(p[j]) = RoLeaf(q[j])
    <3>1. CASE j <= Len(from)
      BY <1>1, <2>1, <3>1
    <3>2. CASE ~(j <= Len(from))
      <4>1. PICK i \in 1 .. Len(p) - Len(from) : j = Len(from) + i
        <5>1. j - Len(from) \in 1 .. Len(p) - Len(from) /\ j = Len(from) + (j - Len(from))
          BY <1>1, <2>1, <3>2
        <5> QED BY <5>1
      <4>2. Len(to) + i \in 1 .. Len(mp) /\ Len(to) + i \in 1 .. Len(mq) /\ i \in 1 .. Len(q) - Len(from)
        BY <1>1, <2>1, <2>2, <2>4
      <4>3. RoLeaf(mp[Len(to) + i]) = RoLeaf(mq[Len(to) + i])
        BY <2>3, <4>2
      <4> QED BY <2>2, <4>1, <4>2, <4>3
    <3> QED BY <3>1, <3>2
  <2>6. /\ RoPath(p) \in Seq(Leaves) /\ Len(RoPath(p)) = Len(p) /\ \A i \in 1 .. Len(p) : RoPath(p)[i] = RoLeaf(p[i])
        /\ RoPath(q) \in Seq(Leaves) /\ Len(RoPath(q)) = Len(q) /\ \A i \in 1 .. Len(q) : RoPath(q)[i] = RoLeaf(q[i])
    BY <1>1, RoPathFacts
  <2>7. RoPath(p) = RoPath(q)
    BY <2>4, <2>5, <2>6, SeqEqual
  <2>8. ASSUME mp = mq PROVE p = q
    <3>1. ASSUME NEW j \in 1 .. Len(p) PROVE p[j] = q[j]
      <4>1. CASE j <= Len(from)
        BY <1>1, <2>1, <4>1
      <4>2. CASE ~(j <= Len(from))
        <5>1. PICK i \in 1 .. Len(p) - Len(from) : j = Len(from) + i
          <6>1. j - Len(from) \in 1 .. Len(p) - Len(from) /\ j = Len(from) + (j - Len(from))
            BY <1>1, <2>1, <4>2
          <6> QED BY <6>1
        <5>2. i \in 1 .. Len(q) - Len(from)
          BY <2>4
        <5> QED BY <2>2, <2>8, <5>1, <5>2
      <4> QED BY <4>1, <4>2
    <3> QED BY <1>1, <2>4, <3>1, SeqEqual
  <2> QED BY <2>7, <2>8 DEF mp, mq
<1>6. ~(IsPrefix(from, p) /\ ~IsPrefix(from, q)) /\ ~(IsPrefix(from, q) /\ ~IsPrefix(from, p))
  BY <1>4
<1> QED BY <1>3, <1>5, <1>6

\* A rename takes every object below the old name along, and loses none.
LEMMA RenameIs ==
    ASSUME TreeOK, Unique, FilesOK, NEW from, NEW to, Renames(from, to), HostRename(from, to)
    PROVE  /\ tree' = [q \in DOMAIN tree' |-> tree'[q]]
           /\ DOMAIN tree' = {Moved(from, to, r) : r \in DOMAIN tree}
           /\ \A r \in DOMAIN tree : tree'[Moved(from, to, r)] = tree[r]
           /\ open_file' = [h \in Handles |-> [open_file[h] EXCEPT !.at = Moved(from, to, @)]]
<1>1. {q \in DOMAIN tree : q = from \/ q # to} = DOMAIN tree
  BY DEF Renames
<1>2. ASSUME NEW r \in DOMAIN tree
      PROVE  (CHOOSE s \in DOMAIN tree : Moved(from, to, s) = Moved(from, to, r)) = r
  <2>1. \A s \in DOMAIN tree : Moved(from, to, s) = Moved(from, to, r) => s = r
    BY MovedNames
  <2> QED BY <2>1
<1>3. tree' = [q \in {Moved(from, to, r) : r \in DOMAIN tree} |->
                 tree[CHOOSE s \in DOMAIN tree : Moved(from, to, s) = q]]
  <2> DEFINE stay == {q \in DOMAIN tree : q = from \/ q # to}
  <2>1. tree' = [q \in {Moved(from, to, r) : r \in stay} |->
                   tree[CHOOSE s \in stay : Moved(from, to, s) = q]]
    BY DEF HostRename
  <2>2. stay = DOMAIN tree
    BY <1>1
  <2> HIDE DEF stay
  <2> QED BY <2>1, <2>2
<1>4. \A h \in Handles : open_file[h].at # to
  <2>1. \A h \in Handles : open_file[h].at \in DOMAIN tree \cup {<<>>, Gone}
    BY DEF FilesOK
  <2>2. to # Gone
    <3>1. ASSUME to = Gone PROVE FALSE
      <4>1. <<>> \in Made
        BY <3>1 DEF Renames, Gone
      <4> QED BY <4>1, MadeFacts
    <3> QED BY <3>1
  <2> QED BY <2>1, <2>2 DEF Renames
<1>5. open_file' = [h \in Handles |-> [open_file[h] EXCEPT !.at = Moved(from, to, @)]]
  BY <1>4 DEF HostRename
<1>6. \A r \in DOMAIN tree : tree'[Moved(from, to, r)] = tree[r]
  BY <1>2, <1>3
<1> QED BY <1>3, <1>5, <1>6

LEMMA RenameKeeps ==
    ASSUME TreeOK, Unique, FilesOK, NEW from, NEW to, Renames(from, to), HostRename(from, to)
    PROVE  TreeOK' /\ Unique'
<1>1. /\ DOMAIN tree' = {Moved(from, to, r) : r \in DOMAIN tree}
      /\ \A r \in DOMAIN tree : tree'[Moved(from, to, r)] = tree[r]
      /\ tree' = [q \in DOMAIN tree' |-> tree'[q]]
  BY RenameIs DEF HostRename
<1>2. from \in Seq(Made) /\ to \in Seq(Made) /\ to # <<>> /\ Len(from) \in Nat \ {0} /\ Len(to) \in Nat \ {0}
  BY TreeFacts, EmptySeq DEF Renames
<1>3. tree' \in [DOMAIN tree' -> [kind : {"file", "dir"}, data : Contents]]
  <2>1. \A q \in DOMAIN tree' : tree'[q] \in [kind : {"file", "dir"}, data : Contents]
    BY <1>1, TreeFacts
  <2> QED BY <1>1, <2>1
<1>4. IsFiniteSet(DOMAIN tree')
  <2> DEFINE f == [r \in DOMAIN tree |-> Moved(from, to, r)]
  <2>1. f \in Surjection(DOMAIN tree, DOMAIN tree')
    BY <1>1 DEF Surjection
  <2> QED BY <2>1, FS_Surjection DEF TreeOK
<1>5. ASSUME NEW p \in Seq(Made), ~IsPrefix(from, p), IsDir(p)
      PROVE  IsDir(p)'
  <2>1. CASE p = <<>>
    BY <2>1 DEF IsDir
  <2>2. CASE p # <<>>
    <3>1. p \in DOMAIN tree /\ tree[p].kind = "dir"
      BY <1>5, <2>2 DEF IsDir
    <3>2. Moved(from, to, p) = p
      BY <1>5 DEF Moved
    <3> QED BY <1>1, <3>1, <3>2 DEF IsDir
  <2> QED BY <2>1, <2>2
<1>6. ASSUME NEW p \in Seq(Made), p # <<>>, IsPrefix(from, Front(p)) PROVE IsPrefix(from, p)
  <2>1. Len(p) \in Nat \ {0} /\ Front(p) \in Seq(Made) /\ Len(Front(p)) = Len(p) - 1
        /\ \A i \in 1 .. Len(p) - 1 : Front(p)[i] = p[i]
    <3>1. Len(p) \in Nat \ {0} /\ Len(p) - 1 \in 0 .. Len(p)
      BY <1>6, EmptySeq
    <3> QED BY <3>1, PrefixFacts DEF Front
  <2>2. Len(from) <= Len(p) - 1 /\ \A i \in 1 .. Len(from) : from[i] = Front(p)[i]
    BY <1>2, <1>6, <2>1, PrefixIs
  <2>3. Len(from) <= Len(p) /\ \A i \in 1 .. Len(from) : from[i] = p[i]
    <3>1. Len(from) \in Nat /\ Len(p) - 1 \in Nat /\ Len(p) - 1 <= Len(p)
      BY <1>2, <2>1
    <3>2. \A i \in 1 .. Len(from) : i \in 1 .. Len(p) - 1
      BY <2>2, <3>1
    <3> QED BY <2>1, <2>2, <3>1, <3>2
  <2> QED BY <1>2, <2>3, PrefixIs
<1>7. ASSUME NEW r \in DOMAIN tree PROVE IsDir(Front(Moved(from, to, r)))'
  <2>1. r \in Seq(Made) /\ r # <<>> /\ IsDir(Front(r)) /\ Front(r) \in Seq(Made) /\ Len(r) \in Nat \ {0}
        /\ Len(Front(r)) = Len(r) - 1
    BY TreeFacts, FrontFacts
  <2>2. CASE ~IsPrefix(from, r)
    <3>1. Moved(from, to, r) = r
      BY <2>2 DEF Moved
    <3>2. ~IsPrefix(from, Front(r))
      BY <1>6, <2>1, <2>2
    <3> QED BY <1>5, <2>1, <3>1, <3>2
  <2>3. CASE IsPrefix(from, r) /\ Len(r) = Len(from)
    <3>1. Moved(from, to, r) = to
      <4>1. /\ Moved(from, to, r) \in Seq(Made)
            /\ Len(Moved(from, to, r)) = Len(to) + (Len(r) - Len(from))
            /\ \A i \in 1 .. Len(to) : Moved(from, to, r)[i] = to[i]
        <5>1. from \in Seq(Made) /\ to \in Seq(Made) /\ r \in Seq(Made) /\ IsPrefix(from, r)
          BY <1>2, <2>1, <2>3
        <5> QED BY <5>1, MovedMade
      <4>2. Len(Moved(from, to, r)) = Len(to)
        BY <1>2, <2>3, <4>1
      <4> QED BY <1>2, <4>1, <4>2, SeqEqual
    <3>2. ~IsPrefix(from, Front(to)) /\ IsDir(Front(to)) /\ Front(to) \in Seq(Made)
      BY <1>2, <1>6, FrontFacts DEF Renames
    <3> QED BY <1>5, <3>1, <3>2
  <2>4. CASE IsPrefix(from, r) /\ Len(r) # Len(from)
    <3> DEFINE m == Moved(from, to, r)
               g == Front(r)
               n == Moved(from, to, g)
    <3>1. Len(from) < Len(r) /\ \A i \in 1 .. Len(from) : from[i] = r[i]
      BY <1>2, <2>1, <2>4, PrefixIs
    <3>2. \A i \in 1 .. Len(r) - 1 : g[i] = r[i]
      BY <2>1, PrefixFacts DEF Front
    <3>3. IsPrefix(from, g)
      <4>1. Len(from) <= Len(g) /\ \A i \in 1 .. Len(from) : from[i] = g[i]
        BY <1>2, <2>1, <3>1, <3>2
      <4> QED BY <1>2, <2>1, <4>1, PrefixIs
    <3>4. /\ m \in Seq(Made) /\ Len(m) = Len(to) + (Len(r) - Len(from))
          /\ \A i \in 1 .. Len(to) : m[i] = to[i]
          /\ \A i \in 1 .. Len(r) - Len(from) : m[Len(to) + i] = r[Len(from) + i]
      <4>1. from \in Seq(Made) /\ to \in Seq(Made) /\ r \in Seq(Made) /\ IsPrefix(from, r)
        BY <1>2, <2>1, <2>4
      <4>2. m \in Seq(Made) /\ Len(m) = Len(to) + (Len(r) - Len(from))
        BY <4>1, MovedMade
      <4>3. \A i \in 1 .. Len(to) : m[i] = to[i]
        BY <4>1, MovedMade
      <4>4. \A i \in 1 .. Len(r) - Len(from) : m[Len(to) + i] = r[Len(from) + i]
        BY <4>1, MovedMade
      <4> QED BY <4>2, <4>3, <4>4
    <3>5. /\ n \in Seq(Made) /\ Len(n) = Len(to) + (Len(g) - Len(from))
          /\ \A i \in 1 .. Len(to) : n[i] = to[i]
          /\ \A i \in 1 .. Len(g) - Len(from) : n[Len(to) + i] = g[Len(from) + i]
      <4>1. from \in Seq(Made) /\ to \in Seq(Made) /\ g \in Seq(Made) /\ IsPrefix(from, g)
        BY <1>2, <2>1, <3>3
      <4> HIDE DEF g
      <4>2. n \in Seq(Made) /\ Len(n) = Len(to) + (Len(g) - Len(from))
        BY <4>1, MovedMade
      <4>3. \A i \in 1 .. Len(to) : n[i] = to[i]
        BY <4>1, MovedMade
      <4>4. \A i \in 1 .. Len(g) - Len(from) : n[Len(to) + i] = g[Len(from) + i]
        BY <4>1, MovedMade
      <4> QED BY <4>2, <4>3, <4>4
    <3>6. g \in DOMAIN tree /\ tree[g].kind = "dir"
      <4>1. Len(g) # 0
        <5>1. Len(from) \in Nat \ {0} /\ Len(r) \in Nat /\ Len(g) = Len(r) - 1
          BY <1>2, <2>1
        <5> HIDE DEF g
        <5> QED BY <3>1, <5>1
      <4> QED BY <2>1, <4>1 DEF IsDir
    <3> HIDE DEF m, n, g
    <3>7. m # <<>> /\ Len(m) - 1 = Len(n) /\ Len(m) \in Nat \ {0} /\ Len(n) \in Nat
      BY <1>2, <2>1, <3>1, <3>4, <3>5 DEF g
    <3>8. Front(m) \in Seq(Made) /\ Len(Front(m)) = Len(n) /\ \A i \in 1 .. Len(n) : Front(m)[i] = m[i]
      <4>1. Len(m) - 1 \in 0 .. Len(m)
        BY <3>7
      <4>2. SubSeq(m, 1, Len(m) - 1) \in Seq(Made) /\ Len(SubSeq(m, 1, Len(m) - 1)) = Len(m) - 1
            /\ \A i \in 1 .. Len(m) - 1 : SubSeq(m, 1, Len(m) - 1)[i] = m[i]
        BY <3>4, <4>1, PrefixFacts
      <4> QED BY <3>7, <4>2 DEF Front
    <3>9. ASSUME NEW i \in 1 .. Len(n) PROVE m[i] = n[i]
      <4>1. CASE i <= Len(to)
        BY <1>2, <3>4, <3>5, <4>1
      <4>2. CASE ~(i <= Len(to))
        <5>1. PICK j \in Nat : j = i - Len(to) /\ j # 0
          BY <1>2, <4>2
        <5>2. /\ j \in 1 .. Len(g) - Len(from) /\ j \in 1 .. Len(r) - Len(from) /\ i = Len(to) + j
              /\ Len(from) + j \in 1 .. Len(r) - 1
          BY <1>2, <2>1, <3>1, <3>5, <5>1 DEF g
        <5> QED BY <3>2, <3>4, <3>5, <5>2
      <4> QED BY <4>1, <4>2
    <3>10. Front(m) = n
      BY <3>5, <3>8, <3>9, SeqEqual
    <3>11. n \in DOMAIN tree' /\ tree'[n].kind = "dir"
      BY <1>1, <3>6 DEF n
    <3> QED BY <3>10, <3>11 DEF IsDir, m
  <2> QED BY <2>2, <2>3, <2>4
<1>8. \A q \in DOMAIN tree' : q \in Seq(Made) /\ RoPath(q) \in Paths /\ IsDir(Front(q))'
  <2> SUFFICES ASSUME NEW r \in DOMAIN tree
               PROVE  LET q == Moved(from, to, r) IN q \in Seq(Made) /\ RoPath(q) \in Paths /\ IsDir(Front(q))'
    BY <1>1
  <2>1. r \in Seq(Made)
    BY TreeFacts
  <2>2. Moved(from, to, r) \in Seq(Made)
    BY <1>2, <2>1, MovedIs
  <2> QED BY <1>7, <2>2 DEF Renames
<1>9. TreeOK'
  BY <1>3, <1>4, <1>8 DEF TreeOK
<1>10. Unique'
  <2>1. ASSUME NEW r \in DOMAIN tree, NEW s \in DOMAIN tree,
               RoPath(Moved(from, to, r)) = RoPath(Moved(from, to, s)),
               ~Retypes \/ tree'[Moved(from, to, r)].kind = "dir"
        PROVE  Moved(from, to, r) = Moved(from, to, s)
    <3>1. RoPath(r) = RoPath(s)
      BY <2>1, MovedNames
    <3> QED BY <1>1, <2>1, <3>1 DEF Unique, DirsUnique, NamesUnique
  <2>2. DirsUnique'
    BY <1>1, <2>1 DEF DirsUnique
  <2>3. ~Retypes => NamesUnique'
    BY <1>1, <2>1 DEF NamesUnique
  <2> QED BY <2>2, <2>3 DEF Unique
<1> QED BY <1>9, <1>10

-----------------------------------------------------------------------------
\* The inductive invariant of the tree and the open files.
HostFsIInv ==
    /\ TreeOK /\ Unique /\ FilesOK /\ HandlesMatch /\ held \subseteq Handles
    /\ hostfs_state \in {"unregistered", "registered", "ignore"}

LEMMA UsedIs ==
    ASSUME FilesOK
    PROVE  Used = {h \in Handles : open_file[h].at # <<>>}
<1>1. \A h \in Handles : open_file[h] = NULL <=> open_file[h].at = <<>>
  BY DEF FilesOK, NULL
<1> QED BY <1>1 DEF Used

LEMMA HostFsStart == Init => HostFsIInv
<1> SUFFICES ASSUME Init PROVE HostFsIInv
  OBVIOUS
<1>1. TreeOK
  BY FS_EmptySet DEF Init, TreeOK
<1>2. Unique
  BY DEF Init, Unique, DirsUnique, NamesUnique
<1>3. FilesOK
  BY DEF Init, FilesOK, NULL
<1>4. HandlesMatch
  BY DEF Init, HandlesMatch, Used
<1> QED BY <1>1, <1>2, <1>3, <1>4 DEF HostFsIInv, Init

LEMMA StillKeeps ==
    ASSUME HostFsIInv, UNCHANGED <<tree, open_file, held>>,
           hostfs_state' \in {"unregistered", "registered", "ignore"}
    PROVE  HostFsIInv'
<1>1. TreeOK' /\ Unique'
  BY DEF HostFsIInv, TreeOK, Unique, DirsUnique, NamesUnique, IsDir
<1>2. FilesOK' /\ HandlesMatch'
  BY DEF HostFsIInv, FilesOK, HandlesMatch, Used
<1> QED BY <1>1, <1>2 DEF HostFsIInv

\* The buffers of some files are written out, and of those that stay open only the
\* buffer changes.
LEMMA FilesKeep ==
    ASSUME HostFsIInv, tree' \in Rewritten(Handles), held' = held,
           open_file' \in [Handles -> [at : DOMAIN tree \cup {<<>>, Gone}, update : BOOLEAN,
                                       put : {<<>>} \cup ((0 .. MaxLen - 1) \X Bytes)]],
           \A h \in Handles : /\ open_file'[h].at = open_file[h].at /\ open_file'[h].update = open_file[h].update
                              /\ open_file'[h].put # <<>> => open_file[h].update
    PROVE  TreeOK' /\ Unique' /\ FilesOK' /\ HandlesMatch'
<1>1. /\ TreeOK' /\ Unique' /\ DOMAIN tree' = DOMAIN tree
      /\ \A q \in DOMAIN tree : tree'[q].kind = tree[q].kind
  BY RewrittenKeeps DEF HostFsIInv
<1>2. \A h \in Handles : open_file'[h].at = <<>> => open_file'[h] = NULL
  <2> SUFFICES ASSUME NEW h \in Handles, open_file'[h].at = <<>> PROVE open_file'[h] = NULL
    OBVIOUS
  <2>1. open_file[h] = NULL
    BY DEF HostFsIInv, FilesOK
  <2>2. open_file'[h].update = FALSE /\ open_file'[h].put = <<>>
    BY <2>1 DEF NULL
  <2> QED BY <2>2 DEF NULL
<1>3. FilesOK'
  <2>1. ASSUME NEW h \in Handles, open_file'[h].update
        PROVE  open_file'[h].at = Gone \/ tree'[open_file'[h].at].kind = "file"
    <3>1. open_file[h].update /\ open_file[h].at \in DOMAIN tree \cup {<<>>, Gone}
      BY <2>1 DEF HostFsIInv, FilesOK
    <3>2. open_file[h].at # <<>>
      BY <3>1 DEF HostFsIInv, FilesOK, NULL
    <3>3. open_file[h].at = Gone \/ tree[open_file[h].at].kind = "file"
      BY <3>1 DEF HostFsIInv, FilesOK
    <3> QED BY <1>1, <3>1, <3>2, <3>3
  <2>2. \A h \in Handles : open_file'[h].put # <<>> => open_file'[h].update
    OBVIOUS
  <2>3. open_file' \in [Handles -> [at : DOMAIN tree' \cup {<<>>, Gone}, update : BOOLEAN,
                                    put : {<<>>} \cup ((0 .. MaxLen - 1) \X Bytes)]]
    BY <1>1
  <2> QED BY <1>2, <2>1, <2>2, <2>3 DEF FilesOK
<1>4. HandlesMatch'
  <2>1. Used = {h \in Handles : open_file[h].at # <<>>}
    BY UsedIs DEF HostFsIInv
  <2>2. Used' = {h \in Handles : open_file'[h].at # <<>>}
    <3>1. \A h \in Handles : open_file'[h] = NULL <=> open_file'[h].at = <<>>
      BY <1>2 DEF NULL
    <3> QED BY <3>1 DEF Used
  <2> QED BY <2>1, <2>2 DEF HostFsIInv, HandlesMatch
<1> QED BY <1>1, <1>3, <1>4

LEMMA BufferKeeps ==
    ASSUME HostFsIInv, NEW h \in held, NEW put \in {<<>>} \cup ((0 .. MaxLen - 1) \X Bytes),
           put # <<>> => open_file[h].update,
           tree' \in Rewritten(Handles), open_file' = [open_file EXCEPT ![h].put = put],
           UNCHANGED <<held, hostfs_state>>
    PROVE  HostFsIInv'
<1> DEFINE o == [open_file[h] EXCEPT !.put = put]
           OpenFiles == [at : DOMAIN tree \cup {<<>>, Gone}, update : BOOLEAN,
                         put : {<<>>} \cup ((0 .. MaxLen - 1) \X Bytes)]
<1>1. h \in Handles
  BY DEF HostFsIInv
<1>2. open_file' = [open_file EXCEPT ![h] = o]
  OBVIOUS
<1>3. open_file \in [Handles -> OpenFiles]
      /\ \A g \in Handles : open_file[g].put # <<>> => open_file[g].update
  BY DEF HostFsIInv, FilesOK
<1>4. o \in OpenFiles /\ o.at = open_file[h].at /\ o.update = open_file[h].update /\ o.put = put
  BY <1>1, <1>3
<1> HIDE DEF o
<1>5. open_file' \in [Handles -> OpenFiles]
  BY <1>1, <1>2, <1>3, <1>4
<1>6. \A g \in Handles : /\ open_file'[g].at = open_file[g].at /\ open_file'[g].update = open_file[g].update
                         /\ open_file'[g].put # <<>> => open_file[g].update
  BY <1>1, <1>2, <1>3, <1>4
<1>7. TreeOK' /\ Unique' /\ FilesOK' /\ HandlesMatch'
  BY <1>5, <1>6, FilesKeep
<1> QED BY <1>7 DEF HostFsIInv

LEMMA FlushOne ==
    ASSUME HostFsIInv, NEW h \in held
    PROVE  h \in Handles /\ Flushed({h}) \in Rewritten(Handles)
<1>1. h \in Handles /\ {h} \in SUBSET Handles
  BY DEF HostFsIInv
<1>2. Flushed({h}) \in Rewritten({h})
  BY <1>1, FlushedIs DEF HostFsIInv
<1> QED BY <1>1, <1>2 DEF Rewritten

LEMMA PositionedKeeps ==
    ASSUME HostFsIInv, NEW h \in held, Positioned(h)
    PROVE  HostFsIInv'
BY BufferKeeps, FlushOne DEF Positioned, Unbuffered

LEMMA PutBytesWrites ==
    ASSUME HostFsIInv, NEW h \in held, NEW off \in 0 .. MaxLen - 1, NEW b \in Bytes, NEW at_once \in BOOLEAN,
           hostfs_putbytes(h, off, b, at_once)
    PROVE  tree' \in Rewritten(Handles)
<1> DEFINE now == Flushed({h})
           hp == open_file[h].at
<1>1. h \in Handles /\ now \in Rewritten(Handles)
  BY FlushOne
<1>2. CASE ~open_file[h].update
  BY <1>1, <1>2 DEF hostfs_putbytes, Positioned
<1>3. CASE open_file[h].update
  <2>1. tree' = IF at_once /\ hp \in DOMAIN tree
                  THEN [now EXCEPT ![hp].data = Poke(@, off, b)] ELSE now
    BY <1>3 DEF hostfs_putbytes
  <2> HIDE DEF now
  <2>2. CASE at_once /\ hp \in DOMAIN tree
    <3>1. now[hp].data \in Contents
      BY <1>1, <2>2 DEF Rewritten
    <3>2. Poke(now[hp].data, off, b) \in Contents
      BY <3>1, PokeFacts
    <3> QED BY <1>1, <1>3, <2>1, <2>2, <3>2, RewriteMore DEF HostFsIInv
  <2>3. CASE ~(at_once /\ hp \in DOMAIN tree)
    BY <1>1, <2>1, <2>3
  <2> QED BY <2>2, <2>3
<1> QED BY <1>2, <1>3

LEMMA PutBytesKeeps ==
    ASSUME HostFsIInv, NEW h \in held, NEW off \in 0 .. MaxLen - 1, NEW b \in Bytes, NEW at_once \in BOOLEAN,
           hostfs_putbytes(h, off, b, at_once)
    PROVE  HostFsIInv'
<1>1. CASE ~open_file[h].update
  BY <1>1, PositionedKeeps DEF hostfs_putbytes
<1>2. CASE open_file[h].update
  <2> DEFINE put == IF at_once THEN <<>> ELSE <<off, b>>
  <2>1. open_file' = [open_file EXCEPT ![h].put = put] /\ UNCHANGED <<held, hostfs_state>>
    BY <1>2 DEF hostfs_putbytes
  <2>2. tree' \in Rewritten(Handles)
    BY PutBytesWrites
  <2>3. put \in {<<>>} \cup ((0 .. MaxLen - 1) \X Bytes)
    OBVIOUS
  <2> QED BY <1>2, <2>1, <2>2, <2>3, BufferKeeps
<1> QED BY <1>1, <1>2

LEMMA ExtentWrites ==
    ASSUME HostFsIInv, NEW h \in held, NEW n \in 0 .. MaxLen, hostfs_args_3_write_file_extent(h, n)
    PROVE  tree' \in Rewritten(Handles)
<1> DEFINE now == Flushed({h})
           hp == open_file[h].at
<1>1. h \in Handles /\ now \in Rewritten(Handles)
  BY FlushOne
<1>2. tree' = IF open_file[h].update /\ hp \in DOMAIN tree
                THEN [now EXCEPT ![hp].data = SubSeq(Padded(@, n), 1, n)] ELSE now
  BY DEF hostfs_args_3_write_file_extent
<1> HIDE DEF now
<1>3. CASE open_file[h].update /\ hp \in DOMAIN tree
  <2>1. now[hp].data \in Contents
    BY <1>1, <1>3 DEF Rewritten
  <2>2. SubSeq(Padded(now[hp].data, n), 1, n) \in Contents
    BY <2>1, ExtentFacts
  <2> QED BY <1>1, <1>2, <1>3, <2>2, RewriteMore DEF HostFsIInv
<1>4. CASE ~(open_file[h].update /\ hp \in DOMAIN tree)
  BY <1>1, <1>2, <1>4
<1> QED BY <1>3, <1>4

LEMMA ExtentKeeps ==
    ASSUME HostFsIInv, NEW h \in held, NEW n \in 0 .. MaxLen, hostfs_args_3_write_file_extent(h, n)
    PROVE  HostFsIInv'
<1>1. open_file' = [open_file EXCEPT ![h].put = <<>>] /\ UNCHANGED <<held, hostfs_state>>
  BY DEF hostfs_args_3_write_file_extent, Unbuffered
<1>2. tree' \in Rewritten(Handles)
  BY ExtentWrites
<1> QED BY <1>1, <1>2, BufferKeeps

\* The files that stay open stay as they are while only data changes.
LEMMA SameFiles ==
    ASSUME FilesOK, DOMAIN tree' = DOMAIN tree, \A q \in DOMAIN tree : tree'[q].kind = tree[q].kind,
           NEW h \in Handles, NEW o, NULL # o => o = open_file[h]
    PROVE  /\ o \in [at : DOMAIN tree' \cup {<<>>, Gone}, update : BOOLEAN,
                     put : {<<>>} \cup ((0 .. MaxLen - 1) \X Bytes)]
           /\ o.at = <<>> => o = NULL
           /\ o.put # <<>> => o.update
           /\ o.update => o.at = Gone \/ tree'[o.at].kind = "file"
<1>1. CASE o = NULL
  BY <1>1 DEF NULL
<1>2. CASE o # NULL
  <2>1. o = open_file[h]
    BY <1>2
  <2>2. o.update => o.at # <<>>
    BY <1>2, <2>1 DEF FilesOK
  <2>3. o.update => o.at = Gone \/ (o.at \in DOMAIN tree /\ tree[o.at].kind = "file")
    BY <2>1, <2>2 DEF FilesOK
  <2> QED BY <2>1, <2>3 DEF FilesOK
<1> QED BY <1>1, <1>2

LEMMA CloseKeeps ==
    ASSUME HostFsIInv, NEW h \in held, hostfs_close(h)
    PROVE  HostFsIInv'
<1>1. h \in Handles /\ tree' \in Rewritten(Handles)
  BY FlushOne DEF hostfs_close
<1>2. /\ TreeOK' /\ Unique' /\ DOMAIN tree' = DOMAIN tree
      /\ \A q \in DOMAIN tree : tree'[q].kind = tree[q].kind
  BY <1>1, RewrittenKeeps DEF HostFsIInv
<1>3. open_file' = [g \in Handles |-> IF g = h THEN NULL ELSE open_file[g]]
  BY <1>1 DEF hostfs_close, HostFsIInv, FilesOK
<1>4. FilesOK'
  <2>1. ASSUME NEW g \in Handles
        PROVE  LET o == open_file'[g]
               IN /\ o \in [at : DOMAIN tree' \cup {<<>>, Gone}, update : BOOLEAN,
                            put : {<<>>} \cup ((0 .. MaxLen - 1) \X Bytes)]
                  /\ o.at = <<>> => o = NULL
                  /\ o.put # <<>> => o.update
                  /\ o.update => o.at = Gone \/ tree'[o.at].kind = "file"
    <3>1. NULL # open_file'[g] => open_file'[g] = open_file[g]
      BY <1>3
    <3> QED BY <1>2, <3>1, SameFiles DEF HostFsIInv
  <2> QED BY <1>3, <2>1 DEF FilesOK
<1>5. HandlesMatch'
  BY <1>1, <1>3 DEF hostfs_close, HostFsIInv, HandlesMatch, Used
<1> QED BY <1>2, <1>4, <1>5 DEF HostFsIInv, hostfs_close

LEMMA ResetKeeps ==
    ASSUME HostFsIInv, hostfs_reset
    PROVE  HostFsIInv'
<1>1. tree' \in Rewritten(Used)
  BY FlushedIs DEF hostfs_reset, HostFsIInv, Used
<1>2. TreeOK' /\ Unique'
  BY <1>1, RewrittenKeeps DEF HostFsIInv
<1>3. FilesOK'
  BY DEF hostfs_reset, FilesOK, NULL
<1>4. HandlesMatch'
  BY DEF hostfs_reset, HandlesMatch, Used
<1> QED BY <1>2, <1>3, <1>4 DEF HostFsIInv, hostfs_reset

\* The table has room whenever the guest holds fewer handles than it has entries, and
\* what is allocated is an unused entry.
LEMMA RoomForOneMore ==
    ASSUME HostFsIInv, Cardinality(held) < MaxOpen
    PROVE  Free # {} /\ hostfs_open_allocate_index \in Free
<1>1. MaxOpen \in Nat /\ IsFiniteSet(Handles) /\ Cardinality(Handles) = MaxOpen
  BY HostFsAssumption, FS_Interval DEF Handles
<1>2. Free # {}
  <2> SUFFICES ASSUME Free = {} PROVE FALSE
    OBVIOUS
  <2>1. held = Handles
    BY DEF HostFsIInv, HandlesMatch, Free, Used
  <2> QED BY <1>1, <2>1
<1>3. \E h \in Free : \A g \in Free : h <= g
  <2> SUFFICES ASSUME \A h \in Free : \E g \in Free : g < h PROVE FALSE
    BY <1>1 DEF Free, Handles
  <2> DEFINE S == {n \in Nat : \A h \in Free : h > n}
  <2>1. 0 \in S
    BY <1>1 DEF Free, Handles
  <2>2. ASSUME NEW n \in Nat, n \in S PROVE n + 1 \in S
    <3> SUFFICES ASSUME NEW h \in Free PROVE h > n + 1
      OBVIOUS
    <3>1. PICK g \in Free : g < h
      OBVIOUS
    <3> QED BY <1>1, <2>2, <3>1 DEF Free, Handles
  <2> HIDE DEF S
  <2>3. \A n \in Nat : n \in S
    BY <2>1, <2>2, SetInduction
  <2> QED BY <1>1, <1>2, <2>3 DEF S, Free, Handles
<1> QED BY <1>2, <1>3 DEF hostfs_open_allocate_index

LEMMA OpenKeeps ==
    ASSUME HostFsIInv, NEW ro \in Paths, NEW update \in BOOLEAN, hostfs_open(ro, update)
    PROVE  HostFsIInv'
<1>1. PICK w \in Process(ro) :
         IF ~w.found THEN Quiet
         ELSE IF Free = {}
           THEN hostfs_state' = "aborted" /\ UNCHANGED <<tree, open_file, held, listing>>
         ELSE IF update /\ IsDir(w.at) THEN Quiet
         ELSE /\ open_file' = [open_file EXCEPT ![hostfs_open_allocate_index] =
                                 [at |-> w.at, update |-> update, put |-> <<>>]]
              /\ held' = held \cup {hostfs_open_allocate_index}
              /\ UNCHANGED <<tree, hostfs_state, listing>>
  BY DEF hostfs_open
<1>2. Free # {} /\ hostfs_open_allocate_index \in Free /\ Free \subseteq Handles
  BY RoomForOneMore DEF hostfs_open, Free
<1>3. CASE ~w.found \/ (update /\ IsDir(w.at))
  <2>1. Quiet
    BY <1>1, <1>2, <1>3
  <2> QED BY <2>1, StillKeeps DEF Quiet, vars, HostFsIInv
<1>4. CASE w.found /\ ~(update /\ IsDir(w.at))
  <2> DEFINE idx == hostfs_open_allocate_index
             o == [at |-> w.at, update |-> update, put |-> <<>>]
  <2>1. /\ open_file' = [open_file EXCEPT ![idx] = o] /\ held' = held \cup {idx}
        /\ UNCHANGED <<tree, hostfs_state, listing>>
    BY <1>1, <1>2, <1>4
  <2>2. w.at \in DOMAIN tree
    <3>1. ro \in Seq(Leaves) /\ Len(ro) # 0
      BY PathFacts
    <3>2. w.at \in DOMAIN tree \cup {<<>>} /\ Len(w.at) = Len(ro)
      BY <1>4, <3>1, FoundIs DEF HostFsIInv
    <3> QED BY <3>1, <3>2
  <2>3. w.at # <<>> /\ (update => tree[w.at].kind = "file")
    BY <1>4, <2>2, TreeFacts DEF HostFsIInv, IsDir
  <2>4. /\ o \in [at : DOMAIN tree \cup {<<>>, Gone}, update : BOOLEAN,
                  put : {<<>>} \cup ((0 .. MaxLen - 1) \X Bytes)]
        /\ o.at # <<>> /\ o.put = <<>> /\ (o.update => tree[o.at].kind = "file") /\ o # NULL
    BY <2>2, <2>3 DEF NULL
  <2> HIDE DEF o, idx
  <2>5. idx \in Handles /\ idx \in Free
    BY <1>2 DEF idx
  <2>6. FilesOK'
    BY <2>1, <2>4, <2>5 DEF HostFsIInv, FilesOK
  <2>7. HandlesMatch'
    BY <2>1, <2>4, <2>5 DEF HostFsIInv, FilesOK, HandlesMatch, Used
  <2>8. TreeOK' /\ Unique'
    BY <2>1 DEF HostFsIInv, TreeOK, Unique, DirsUnique, NamesUnique, IsDir
  <2> QED BY <2>1, <2>5, <2>6, <2>7, <2>8 DEF HostFsIInv
<1> QED BY <1>3, <1>4

-----------------------------------------------------------------------------
\* Whole objects.

\* Files whose names change, or that lose them, stay the same files.
LEMMA FilesFollow ==
    ASSUME HostFsIInv, held' = held, open_file' = [h \in Handles |-> open_file'[h]],
           \A h \in Handles :
             /\ open_file'[h] = [open_file[h] EXCEPT !.at = open_file'[h].at]
             /\ open_file'[h].at = <<>> <=> open_file[h].at = <<>>
             /\ open_file'[h].at \notin {<<>>, Gone} =>
                  /\ open_file[h].at \in DOMAIN tree /\ open_file'[h].at \in DOMAIN tree'
                  /\ tree'[open_file'[h].at].kind = tree[open_file[h].at].kind
    PROVE  FilesOK' /\ HandlesMatch'
<1>1. /\ \A h \in Handles : open_file[h] \in [at : DOMAIN tree \cup {<<>>, Gone}, update : BOOLEAN,
                                              put : {<<>>} \cup ((0 .. MaxLen - 1) \X Bytes)]
      /\ \A h \in Handles :
           /\ open_file[h].at = <<>> => open_file[h] = NULL
           /\ open_file[h].put # <<>> => open_file[h].update
           /\ open_file[h].update => open_file[h].at = Gone \/ tree[open_file[h].at].kind = "file"
  BY DEF HostFsIInv, FilesOK
<1>2. TreeOK
  BY DEF HostFsIInv
<1>3. ASSUME NEW h \in Handles
      PROVE  /\ open_file'[h] \in [at : DOMAIN tree' \cup {<<>>, Gone}, update : BOOLEAN,
                                   put : {<<>>} \cup ((0 .. MaxLen - 1) \X Bytes)]
             /\ open_file'[h].update = open_file[h].update /\ open_file'[h].put = open_file[h].put
  BY <1>1
<1>4. ASSUME NEW h \in Handles, open_file'[h].at = <<>> PROVE open_file'[h] = NULL
  <2>1. open_file[h] = NULL
    BY <1>1, <1>4
  <2>2. open_file'[h].update = FALSE /\ open_file'[h].put = <<>>
    BY <1>3, <2>1 DEF NULL
  <2> QED BY <1>3, <1>4, <2>2 DEF NULL
<1>5. ASSUME NEW h \in Handles, open_file'[h].update
      PROVE  open_file'[h].at = Gone \/ tree'[open_file'[h].at].kind = "file"
  <2>1. open_file[h].update /\ open_file[h].at # <<>>
    BY <1>1, <1>3, <1>5 DEF NULL
  <2>2. CASE open_file'[h].at # Gone
    <3>1. open_file[h].at \in DOMAIN tree /\ tree'[open_file'[h].at].kind = tree[open_file[h].at].kind
      BY <2>1, <2>2
    <3>2. open_file[h].at # Gone
      BY <1>2, <3>1, GoneNotThere
    <3> QED BY <1>1, <2>1, <3>1, <3>2
  <2> QED BY <2>2
<1>6. FilesOK'
  <2>1. open_file' \in [Handles -> [at : DOMAIN tree' \cup {<<>>, Gone}, update : BOOLEAN,
                                    put : {<<>>} \cup ((0 .. MaxLen - 1) \X Bytes)]]
    BY <1>3
  <2>2. \A h \in Handles : open_file'[h].put # <<>> => open_file'[h].update
    BY <1>1, <1>3
  <2> QED BY <1>4, <1>5, <2>1, <2>2 DEF FilesOK
<1>7. HandlesMatch'
  <2>1. Used = {h \in Handles : open_file[h].at # <<>>}
    BY UsedIs DEF HostFsIInv
  <2>2. Used' = {h \in Handles : open_file'[h].at # <<>>}
    <3>1. \A h \in Handles : open_file'[h] = NULL <=> open_file'[h].at = <<>>
      BY <1>4 DEF NULL
    <3> QED BY <3>1 DEF Used
  <2> QED BY <2>1, <2>2 DEF HostFsIInv, HandlesMatch
<1> QED BY <1>6, <1>7

LEMMA FilesStay ==
    ASSUME HostFsIInv, UNCHANGED <<held, open_file>>,
           \A q \in DOMAIN tree : q \in DOMAIN tree' /\ tree'[q].kind = tree[q].kind
    PROVE  FilesOK' /\ HandlesMatch'
<1>1. open_file \in [Handles -> [at : DOMAIN tree \cup {<<>>, Gone}, update : BOOLEAN,
                                 put : {<<>>} \cup ((0 .. MaxLen - 1) \X Bytes)]]
  BY DEF HostFsIInv, FilesOK
<1>2. open_file' = [h \in Handles |-> open_file'[h]]
  BY <1>1
<1>3. \A h \in Handles :
             /\ open_file'[h] = [open_file[h] EXCEPT !.at = open_file'[h].at]
             /\ open_file'[h].at = <<>> <=> open_file[h].at = <<>>
             /\ open_file'[h].at \notin {<<>>, Gone} =>
                  /\ open_file[h].at \in DOMAIN tree /\ open_file'[h].at \in DOMAIN tree'
                  /\ tree'[open_file'[h].at].kind = tree[open_file[h].at].kind
  BY <1>1
<1> QED BY <1>2, <1>3, FilesFollow

\* The name that is made for a path whose last component is missing.
LEMMA NewObject ==
    ASSUME TreeOK, Unique, NEW ro \in Paths, NEW w \in Process(ro), ~w.found, ~w.error, NEW t \in Types
    PROVE  LET new == Construct(w.at, ro, t)
           IN /\ w.at \in DOMAIN tree \cup {<<>>} /\ new \in Seq(Made) /\ new # <<>> /\ Front(new) = w.at
              /\ RoPath(new) = ro /\ new \notin DOMAIN tree /\ TypeOf(Last(new)) = t
              /\ \A q \in DOMAIN tree : RoPath(q) # ro /\ ~IsPrefix(ro, RoPath(q))
<1> DEFINE n == HostName(Last(ro), t)
           new == Append(w.at, n)
<1>1. ro \in Seq(Leaves) /\ Len(ro) \in Nat \ {0} /\ Last(ro) \in Leaves /\ ro = Append(Front(ro), Last(ro))
  BY PathFacts
<1>2. /\ w.at \in DOMAIN tree \cup {<<>>} /\ Len(w.at) < Len(ro) /\ RoPath(w.at) = SubSeq(ro, 1, Len(w.at))
      /\ ~(Len(w.at) + 1 < Len(ro))
  BY <1>1, MissingIs
<1>3. w.at \in Seq(Made) /\ Len(w.at) \in Nat
  <2>1. w.at \in Seq(Made)
    BY <1>2, TreeFacts, EmptySeq
  <2> QED BY <2>1, LenProperties
<1>4. Len(w.at) = Len(ro) - 1 /\ RoPath(w.at) = Front(ro)
  BY <1>1, <1>2, <1>3 DEF Front
<1>5. n \in Made /\ RoLeaf(n) = Last(ro) /\ TypeOf(n) = t
  BY <1>1, NameBack
<1> HIDE DEF n
<1>6. /\ new \in Seq(Made) /\ new # <<>> /\ Front(new) = w.at /\ Last(new) = n
      /\ RoPath(new) = Append(Front(ro), Last(ro))
  BY <1>3, <1>4, <1>5, AppendFacts
<1>7. \A q \in DOMAIN tree : ~IsPrefix(ro, RoPath(q))
  BY MissingNowhere
<1>8. IsPrefix(ro, ro)
  BY <1>1, LenProperties DEF IsPrefix
<1>9. \A q \in DOMAIN tree : RoPath(q) # ro
  BY <1>7, <1>8
<1>10. new \notin DOMAIN tree
  BY <1>1, <1>6, <1>9
<1>11. Construct(w.at, ro, t) = new
  BY DEF Construct, n
<1> QED BY <1>1, <1>2, <1>5, <1>6, <1>7, <1>9, <1>10, <1>11

\* The name that is made for an object that was found.
LEMMA OldObject ==
    ASSUME TreeOK, NEW ro \in Paths, NEW w \in Process(ro), w.found, NEW t \in Types
    PROVE  LET new == Construct(Front(w.at), ro, t)
           IN /\ w.at \in DOMAIN tree /\ RoPath(w.at) = ro /\ ~w.error /\ TypeOf(Last(w.at)) \in Types
              /\ new \in Seq(Made) /\ new # <<>> /\ Front(new) = Front(w.at) /\ IsDir(Front(new))
              /\ RoPath(new) = ro /\ TypeOf(Last(new)) = t
              /\ t = TypeOf(Last(w.at)) => new = w.at
<1> DEFINE n == HostName(Last(ro), t)
           f == Front(w.at)
           new == Append(f, n)
<1>1. ro \in Seq(Leaves) /\ Len(ro) \in Nat \ {0} /\ Last(ro) \in Leaves /\ ro = Append(Front(ro), Last(ro))
  BY PathFacts
<1>2. w.at \in DOMAIN tree \cup {<<>>} /\ RoPath(w.at) = ro /\ Len(w.at) = Len(ro) /\ ~w.error
  BY <1>1, FoundIs
<1>3. w.at \in DOMAIN tree
  BY <1>1, <1>2
<1>4. w.at \in Seq(Made) /\ w.at # <<>> /\ IsDir(f)
  BY <1>3, TreeFacts
<1>5. f \in Seq(Made) /\ Last(w.at) \in Made /\ RoPath(f) = Front(ro)
  BY <1>2, <1>4, FrontFacts
<1>6. n \in Made /\ RoLeaf(n) = Last(ro) /\ TypeOf(n) = t
  BY <1>1, NameBack
<1>7. t = TypeOf(Last(w.at)) => Construct(f, ro, t) = w.at
  BY <1>2, <1>4, HostPathOf
<1> HIDE DEF n, f
<1>8. /\ new \in Seq(Made) /\ new # <<>> /\ Front(new) = f /\ Last(new) = n
      /\ RoPath(new) = Append(Front(ro), Last(ro))
  BY <1>5, <1>6, AppendFacts
<1>9. TypeOf(Last(w.at)) \in Types
  BY <1>5, MadeFacts
<1>10. Construct(f, ro, t) = new
  BY DEF Construct, n
<1> QED BY <1>1, <1>2, <1>3, <1>4, <1>6, <1>7, <1>8, <1>9, <1>10 DEF f

LEMMA WriteFileKeeps ==
    ASSUME HostFsIInv, NEW ro \in Paths, NEW t \in Types, NEW d \in Contents, hostfs_write_file(ro, t, d)
    PROVE  HostFsIInv'
<1>1. PICK w \in Process(ro) :
         /\ (w.found /\ ~Retypes) => TypeOf(Last(w.at)) = t
         /\ LET new == Construct(IF w.found THEN Front(w.at) ELSE w.at, ro, t)
            IN IF w.error \/ (w.found /\ IsDir(w.at)) \/ ~Writable(new) THEN Quiet
               ELSE /\ tree' = Put(tree, new, [kind |-> "file", data |-> d])
                    /\ Disturb /\ UNCHANGED <<open_file, held, hostfs_state>>
  BY DEF hostfs_write_file
<1> DEFINE new == Construct(IF w.found THEN Front(w.at) ELSE w.at, ro, t)
           o == [kind |-> "file", data |-> d]
<1>2. TreeOK /\ Unique
  BY DEF HostFsIInv
<1>3. CASE w.error \/ (w.found /\ IsDir(w.at)) \/ ~Writable(new)
  BY <1>1, <1>3, StillKeeps DEF Quiet, vars, HostFsIInv
<1>4. CASE ~(w.error \/ (w.found /\ IsDir(w.at)) \/ ~Writable(new))
  <2>1. tree' = Put(tree, new, o) /\ UNCHANGED <<open_file, held, hostfs_state>>
    BY <1>1, <1>4
  <2>2. new \in Seq(Made) /\ new # <<>> /\ RoPath(new) = ro
    BY <1>2, <1>4, NewObject, OldObject
  <2>3. IsDir(Front(new)) /\ ~IsDir(new)
    BY <1>4 DEF Writable
  <2>4. \/ new \in DOMAIN tree /\ tree[new].kind = "file"
        \/ \A q \in DOMAIN tree : RoPath(q) # RoPath(new)
        \/ Retypes /\ \A q \in DOMAIN tree : RoPath(q) = RoPath(new) => tree[q].kind # "dir"
    <3>1. CASE ~w.found
      BY <1>2, <1>4, <2>2, <3>1, NewObject
    <3>2. CASE w.found
      <4>1. w.at \in DOMAIN tree /\ RoPath(w.at) = ro /\ (t = TypeOf(Last(w.at)) => new = w.at)
        BY <1>2, <3>2, OldObject
      <4>2. tree[w.at].kind = "file"
        BY <1>2, <1>4, <3>2, <4>1, TreeFacts DEF IsDir
      <4>3. CASE ~Retypes
        BY <1>1, <3>2, <4>1, <4>2, <4>3
      <4>4. CASE Retypes
        <5>1. \A q \in DOMAIN tree : RoPath(q) = ro => tree[q].kind # "dir"
          BY <1>2, <4>1, <4>2 DEF Unique, DirsUnique
        <5> QED BY <2>2, <4>4, <5>1
      <4> QED BY <4>3, <4>4, HostFsAssumption
    <3> QED BY <3>1, <3>2
  <2>5. o \in [kind : {"file", "dir"}, data : Contents] /\ o.kind = "file"
    OBVIOUS
  <2>6. new \in DOMAIN tree => tree[new].kind = "file"
    BY <1>2, <2>3, TreeFacts DEF IsDir
  <2> HIDE DEF new, o
  <2>7. TreeOK' /\ Unique'
    BY <1>2, <2>1, <2>2, <2>3, <2>4, <2>5, PutKeeps
  <2>8. \A q \in DOMAIN tree : q \in DOMAIN tree' /\ tree'[q].kind = tree[q].kind
    BY <2>1, <2>5, <2>6 DEF Put
  <2>9. FilesOK' /\ HandlesMatch'
    BY <2>1, <2>8, FilesStay
  <2> QED BY <2>1, <2>7, <2>9 DEF HostFsIInv
<1> QED BY <1>3, <1>4

\* A directory is made under a name without a suffix: the one of the default type.
LEMMA PlainName ==
    ASSUME NEW ro \in Paths, NEW dir
    PROVE  Append(dir, riscos_path_to_host(Last(ro))) = Construct(dir, ro, DEFAULT) /\ DEFAULT \in Types
<1>1. Last(ro) \in Leaves
  BY PathFacts
<1>2. riscos_path_to_host(Last(ro)) = [i \in 1 .. Len(Last(ro)) |-> ToHost(Last(ro)[i])]
      /\ Len(Last(ro)) \in Nat
  <2>1. Last(ro) \in Seq(Chars)
    BY <1>1, HostFsAssumption
  <2> QED BY <2>1 DEF riscos_path_to_host
<1>3. riscos_path_to_host(Last(ro)) \in Seq({ToHost(Last(ro)[i]) : i \in 1 .. Len(Last(ro))})
  BY <1>2
<1>4. HostName(Last(ro), DEFAULT) = riscos_path_to_host(Last(ro))
  BY <1>3, ConcatEmptySeq DEF HostName
<1> QED BY <1>4 DEF Construct, Types

LEMMA CreateDirKeeps ==
    ASSUME HostFsIInv, NEW ro \in Paths, hostfs_file_8_create_dir(ro)
    PROVE  HostFsIInv'
<1>1. PICK w \in Process(ro) :
         LET new == Append(w.at, riscos_path_to_host(Last(ro)))
         IN IF w.found \/ w.error \/ ~IsDir(w.at) \/ new \in DOMAIN tree THEN Quiet
            ELSE /\ tree' = Put(tree, new, [kind |-> "dir", data |-> <<>>])
                 /\ Disturb /\ UNCHANGED <<open_file, held, hostfs_state>>
  BY DEF hostfs_file_8_create_dir
<1> DEFINE new == Append(w.at, riscos_path_to_host(Last(ro)))
           o == [kind |-> "dir", data |-> <<>>]
<1>2. TreeOK /\ Unique
  BY DEF HostFsIInv
<1>3. CASE w.found \/ w.error \/ ~IsDir(w.at) \/ new \in DOMAIN tree
  BY <1>1, <1>3, StillKeeps DEF Quiet, vars, HostFsIInv
<1>4. CASE ~(w.found \/ w.error \/ ~IsDir(w.at) \/ new \in DOMAIN tree)
  <2>1. tree' = Put(tree, new, o) /\ UNCHANGED <<open_file, held, hostfs_state>>
    BY <1>1, <1>4
  <2>2. new = Construct(w.at, ro, DEFAULT) /\ DEFAULT \in Types
    BY PlainName
  <2>3. /\ new \in Seq(Made) /\ new # <<>> /\ RoPath(new) = ro /\ Front(new) = w.at
        /\ \A q \in DOMAIN tree : RoPath(q) # ro
    BY <1>2, <1>4, <2>2, NewObject
  <2>4. IsDir(Front(new))
    BY <1>4, <2>3
  <2>5. o \in [kind : {"file", "dir"}, data : Contents]
    <3>1. <<>> \in Seq(Bytes) /\ Len(<<>>) <= MaxLen
      BY HostFsAssumption
    <3>2. <<>> \in Contents
      BY <3>1, ContentsFacts
    <3> QED BY <3>2
  <2>6. new \notin DOMAIN tree
    BY <1>4
  <2> HIDE DEF new, o
  <2>7. TreeOK' /\ Unique'
    BY <1>2, <2>1, <2>3, <2>4, <2>5, PutKeeps
  <2>8. \A q \in DOMAIN tree : q \in DOMAIN tree' /\ tree'[q].kind = tree[q].kind
    BY <2>1, <2>6 DEF Put
  <2>9. FilesOK' /\ HandlesMatch'
    BY <2>1, <2>8, FilesStay
  <2> QED BY <2>1, <2>7, <2>9 DEF HostFsIInv
<1> QED BY <1>3, <1>4

LEMMA DeletedKeeps ==
    ASSUME HostFsIInv, NEW ro \in Paths, hostfs_file_6_delete(ro)
    PROVE  HostFsIInv'
<1>1. PICK w \in Process(ro) :
         IF ~w.found \/ (IsDir(w.at) /\ ReadDir(w.at) # {}) THEN Quiet
         ELSE /\ tree' = Restrict(tree, DOMAIN tree \ {w.at})
              /\ open_file' = [h \in Handles |->
                   IF open_file[h].at = w.at THEN [open_file[h] EXCEPT !.at = Gone] ELSE open_file[h]]
              /\ Disturb /\ UNCHANGED <<held, hostfs_state>>
  BY DEF hostfs_file_6_delete
<1>2. TreeOK /\ Unique
  BY DEF HostFsIInv
<1>3. CASE ~w.found \/ (IsDir(w.at) /\ ReadDir(w.at) # {})
  BY <1>1, <1>3, StillKeeps DEF Quiet, vars, HostFsIInv
<1>4. CASE ~(~w.found \/ (IsDir(w.at) /\ ReadDir(w.at) # {}))
  <2>1. /\ tree' = Restrict(tree, DOMAIN tree \ {w.at}) /\ UNCHANGED <<held, hostfs_state>>
        /\ open_file' = [h \in Handles |->
             IF open_file[h].at = w.at THEN [open_file[h] EXCEPT !.at = Gone] ELSE open_file[h]]
    BY <1>1, <1>4
  <2>2. w.at \in DOMAIN tree
    <3>1. ro \in Seq(Leaves) /\ Len(ro) # 0
      BY PathFacts
    <3>2. w.at \in DOMAIN tree \cup {<<>>} /\ Len(w.at) = Len(ro)
      BY <1>2, <1>4, <3>1, FoundIs
    <3> QED BY <3>1, <3>2
  <2>3. TreeOK' /\ Unique'
    BY <1>2, <1>4, <2>1, <2>2, DeleteKeeps
  <2>4. DOMAIN tree' = DOMAIN tree \ {w.at} /\ \A q \in DOMAIN tree' : tree'[q] = tree[q]
    BY <2>1 DEF Restrict
  <2>5. <<>> \notin DOMAIN tree /\ Gone \notin DOMAIN tree /\ Gone # <<>>
    BY <1>2, GoneNotThere
  <2>6. \A h \in Handles : open_file[h] \in [at : DOMAIN tree \cup {<<>>, Gone}, update : BOOLEAN,
                                             put : {<<>>} \cup ((0 .. MaxLen - 1) \X Bytes)]
    BY DEF HostFsIInv, FilesOK
  <2>7. FilesOK' /\ HandlesMatch'
    <3>1. open_file' = [h \in Handles |-> open_file'[h]]
      BY <2>1
    <3>2. ASSUME NEW h \in Handles
          PROVE  /\ open_file'[h] = [open_file[h] EXCEPT !.at = open_file'[h].at]
                 /\ open_file'[h].at = <<>> <=> open_file[h].at = <<>>
                 /\ open_file'[h].at \notin {<<>>, Gone} =>
                      /\ open_file[h].at \in DOMAIN tree /\ open_file'[h].at \in DOMAIN tree'
                      /\ tree'[open_file'[h].at].kind = tree[open_file[h].at].kind
      <4>1. CASE open_file[h].at = w.at
        <5>1. open_file'[h] = [open_file[h] EXCEPT !.at = Gone]
          BY <2>1, <4>1
        <5>2. open_file'[h].at = Gone
          BY <2>6, <5>1
        <5> QED BY <2>2, <2>5, <4>1, <5>1, <5>2
      <4>2. CASE open_file[h].at # w.at
        <5>1. open_file'[h] = open_file[h]
          BY <2>1, <4>2
        <5> QED BY <2>4, <2>6, <4>2, <5>1
      <4> QED BY <4>1, <4>2
    <3> QED BY <2>1, <3>1, <3>2, FilesFollow
  <2> QED BY <2>1, <2>3, <2>7 DEF HostFsIInv
<1> QED BY <1>3, <1>4

\* Nothing lies below a file or an empty directory, and the paths that stand for no
\* object stay as they are.
LEMMA NothingBelow ==
    ASSUME TreeOK, NEW from \in DOMAIN tree, ~IsDir(from) \/ ReadDir(from) = {},
           NEW q \in DOMAIN tree, IsPrefix(from, q)
    PROVE  q = from
<1> SUFFICES ASSUME q # from PROVE FALSE
  OBVIOUS
<1> DEFINE k == Len(from) + 1
           p == SubSeq(q, 1, k)
<1>1. from \in Seq(Made) /\ q \in Seq(Made) /\ Len(from) \in Nat \ {0} /\ Len(q) \in Nat
  BY TreeFacts
<1>2. Len(from) <= Len(q) /\ \A i \in 1 .. Len(from) : from[i] = q[i]
  BY <1>1, PrefixIs
<1>3. Len(from) # Len(q)
  BY <1>1, <1>2, SeqEqual
<1>4. k \in 1 .. Len(q) /\ k - 1 = Len(from) /\ Len(from) \in 0 .. Len(q)
  BY <1>1, <1>2, <1>3
<1>5. p \in DOMAIN tree
  BY <1>4, PrefixInTree
<1>6. Front(p) = SubSeq(q, 1, Len(from)) /\ p # <<>>
  BY <1>1, <1>4, FrontOfPrefix
<1>7. SubSeq(q, 1, Len(from)) = from
  <2>1. SubSeq(q, 1, Len(from)) \in Seq(Made) /\ Len(SubSeq(q, 1, Len(from))) = Len(from)
        /\ \A i \in 1 .. Len(from) : SubSeq(q, 1, Len(from))[i] = q[i]
    BY <1>1, <1>4, PrefixFacts
  <2> QED BY <1>1, <1>2, <2>1, SeqEqual
<1>8. IsDir(from)
  BY <1>5, <1>6, <1>7, TreeFacts
<1> HIDE DEF p
<1>9. Last(p) \in ReadDir(from)
  BY <1>5, <1>6, <1>7 DEF ReadDir
<1> QED BY <1>8, <1>9

LEMMA FileAlone ==
    ASSUME TreeOK, NEW from \in DOMAIN tree, tree[from].kind = "file",
           NEW q \in DOMAIN tree, IsPrefix(from, q)
    PROVE  q = from
<1>1. ~IsDir(from)
  BY TreeFacts DEF IsDir
<1> QED BY <1>1, NothingBelow

LEMMA NullStays ==
    ASSUME TreeOK, NEW from \in DOMAIN tree
    PROVE  ~IsPrefix(from, <<>>) /\ ~IsPrefix(from, Gone)
<1>1. from \in Seq(Made) /\ Len(from) \in Nat \ {0}
  BY TreeFacts
<1>2. ~IsPrefix(from, <<>>)
  BY <1>1 DEF IsPrefix
<1>3. ASSUME IsPrefix(from, Gone) PROVE FALSE
  <2>1. Gone \in Seq({<<>>}) /\ Len(Gone) = 1
    BY DEF Gone
  <2>2. Len(from) <= 1 /\ from = SubSeq(Gone, 1, Len(from))
    <3>1. SubSeq(from, 1, Len(from)) = from
      BY <1>1, SubSeqFull
    <3> QED BY <1>3, <2>1, <3>1 DEF IsPrefix
  <2>3. Len(from) = 1
    BY <1>1, <2>2
  <2>4. from = Gone
    BY <2>1, <2>2, <2>3, SubSeqFull
  <2> QED BY <2>4, GoneNotThere
<1> QED BY <1>2, <1>3

\* A rename of an object to the name it has changes nothing.
LEMMA RenameSelf ==
    ASSUME HostFsIInv, NEW hp \in DOMAIN tree, HostRename(hp, hp)
    PROVE  UNCHANGED <<tree, open_file>>
<1>1. TreeOK
  BY DEF HostFsIInv
<1>2. ASSUME NEW q, q \in DOMAIN tree \cup {<<>>, Gone} PROVE Moved(hp, hp, q) = q
  <2>1. CASE ~IsPrefix(hp, q)
    BY <2>1 DEF Moved
  <2>2. CASE IsPrefix(hp, q)
    <3>1. q \in DOMAIN tree
      BY <1>1, <1>2, <2>2, NullStays
    <3>2. hp \in Seq(Made) /\ q \in Seq(Made) /\ Len(hp) \in Nat /\ Len(q) \in Nat
      BY <1>1, <3>1, TreeFacts
    <3> DEFINE m == Moved(hp, hp, q)
    <3>3. /\ m \in Seq(Made) /\ Len(hp) <= Len(q) /\ \A i \in 1 .. Len(hp) : hp[i] = q[i]
          /\ Len(m) = Len(hp) + (Len(q) - Len(hp))
          /\ \A i \in 1 .. Len(hp) : m[i] = hp[i]
          /\ \A i \in 1 .. Len(q) - Len(hp) : m[Len(hp) + i] = q[Len(hp) + i]
      <4>1. hp \in Seq(Made) /\ q \in Seq(Made) /\ IsPrefix(hp, q)
        BY <2>2, <3>2
      <4>2. m \in Seq(Made) /\ Len(hp) <= Len(q) /\ \A i \in 1 .. Len(hp) : hp[i] = q[i]
        BY <4>1, MovedMade
      <4>3. Len(m) = Len(hp) + (Len(q) - Len(hp)) /\ \A i \in 1 .. Len(hp) : m[i] = hp[i]
        BY <4>1, MovedMade
      <4>4. \A i \in 1 .. Len(q) - Len(hp) : m[Len(hp) + i] = q[Len(hp) + i]
        BY <4>1, MovedMade
      <4> QED BY <4>2, <4>3, <4>4
    <3> HIDE DEF m
    <3>4. ASSUME NEW j \in 1 .. Len(q) PROVE m[j] = q[j]
      <4>1. CASE j <= Len(hp)
        BY <3>2, <3>3, <4>1
      <4>2. CASE ~(j <= Len(hp))
        <5>1. j - Len(hp) \in 1 .. Len(q) - Len(hp) /\ j = Len(hp) + (j - Len(hp))
          BY <3>2, <4>2
        <5> QED BY <3>3, <5>1
      <4> QED BY <4>1, <4>2
    <3>5. m = q
      BY <3>2, <3>3, <3>4, SeqEqual
    <3> QED BY <3>5 DEF m
  <2> QED BY <2>1, <2>2
<1>3. tree' = tree
  <2> DEFINE stay == {q \in DOMAIN tree : q = hp \/ q # hp}
             back(q) == CHOOSE r \in stay : Moved(hp, hp, r) = q
  <2>1. tree' = [q \in {Moved(hp, hp, r) : r \in stay} |-> tree[back(q)]]
    BY DEF HostRename
  <2>2. stay = DOMAIN tree
    OBVIOUS
  <2> HIDE DEF stay
  <2>3. {Moved(hp, hp, r) : r \in stay} = DOMAIN tree
    BY <1>2, <2>2
  <2>4. \A q \in DOMAIN tree : back(q) = q
    BY <1>2, <2>2
  <2> HIDE DEF back
  <2>5. tree' = [q \in DOMAIN tree |-> tree[q]]
    BY <2>1, <2>3, <2>4
  <2> QED BY <1>1, <2>5 DEF TreeOK
<1>4. open_file' = open_file
  <2>1. open_file' = [h \in Handles |-> [open_file[h] EXCEPT !.at = Moved(hp, hp, @)]]
    BY DEF HostRename
  <2>2. open_file \in [Handles -> [at : DOMAIN tree \cup {<<>>, Gone}, update : BOOLEAN,
                                   put : {<<>>} \cup ((0 .. MaxLen - 1) \X Bytes)]]
    BY DEF HostFsIInv, FilesOK
  <2>3. \A h \in Handles : Moved(hp, hp, open_file[h].at) = open_file[h].at
    BY <1>2, <2>2
  <2>4. \A h \in Handles : [open_file[h] EXCEPT !.at = Moved(hp, hp, @)] = open_file[h]
    BY <2>2, <2>3
  <2> QED BY <2>1, <2>2, <2>4
<1> QED BY <1>3, <1>4

LEMMA MovedSelf ==
    ASSUME NEW from \in Seq(Made), NEW to \in Seq(Made)
    PROVE  IsPrefix(from, from) /\ Moved(from, to, from) = to
<1>1. Len(from) \in Nat /\ Len(to) \in Nat
  BY LenProperties
<1>2. IsPrefix(from, from)
  BY <1>1 DEF IsPrefix
<1>3. /\ Moved(from, to, from) \in Seq(Made)
      /\ Len(Moved(from, to, from)) = Len(to) + (Len(from) - Len(from))
      /\ \A i \in 1 .. Len(to) : Moved(from, to, from)[i] = to[i]
  BY <1>2, MovedMade
<1>4. Len(Moved(from, to, from)) = Len(to)
  BY <1>1, <1>3
<1> QED BY <1>2, <1>3, <1>4, SeqEqual

\* The rename of a file within its directory, perhaps onto another file.
LEMMA RetypeIs ==
    ASSUME HostFsIInv, NEW from \in DOMAIN tree, tree[from].kind = "file",
           NEW to \in Seq(Made), to # from, ~IsDir(to), HostRename(from, to)
    PROVE  /\ DOMAIN tree' = (DOMAIN tree \ {from}) \cup {to}
           /\ tree' = [q \in DOMAIN tree' |-> IF q = to THEN tree[from] ELSE tree[q]]
           /\ open_file' = [h \in Handles |->
                 [open_file[h] EXCEPT !.at = IF @ = to THEN Gone ELSE IF @ = from THEN to ELSE @]]
<1> DEFINE stay == {q \in DOMAIN tree : q = from \/ q # to}
           back(q) == CHOOSE r \in stay : Moved(from, to, r) = q
<1>1. TreeOK /\ from \in Seq(Made)
  BY TreeFacts DEF HostFsIInv
<1>2. ASSUME NEW q \in DOMAIN tree \cup {<<>>, Gone}
      PROVE  Moved(from, to, q) = IF q = from THEN to ELSE q
  <2>1. CASE q = from
    BY <1>1, <2>1, MovedSelf
  <2>2. CASE q # from
    <3>1. ~IsPrefix(from, q)
      BY <1>1, <2>2, FileAlone, NullStays
    <3> QED BY <2>2, <3>1 DEF Moved
  <2> QED BY <2>1, <2>2
<1>3. tree' = [q \in {Moved(from, to, r) : r \in stay} |-> tree[back(q)]]
  BY DEF HostRename
<1>4. {Moved(from, to, r) : r \in stay} = (DOMAIN tree \ {from}) \cup {to}
  BY <1>2
<1>5. ASSUME NEW r \in stay PROVE back(Moved(from, to, r)) = r
  <2>1. \A s \in stay : Moved(from, to, s) = Moved(from, to, r) => s = r
    BY <1>2
  <2> HIDE DEF stay
  <2> QED BY <2>1
<1>6. ASSUME NEW q \in (DOMAIN tree \ {from}) \cup {to} PROVE back(q) = IF q = to THEN from ELSE q
  <2>1. CASE q = to
    <3>1. from \in stay /\ Moved(from, to, from) = to
      BY <1>2
    <3> HIDE DEF stay, back
    <3> QED BY <1>5, <2>1, <3>1
  <2>2. CASE q # to
    <3>1. q \in stay /\ Moved(from, to, q) = q
      BY <1>2, <2>2
    <3> HIDE DEF stay, back
    <3> QED BY <1>5, <2>2, <3>1
  <2> QED BY <2>1, <2>2
<1> HIDE DEF stay, back
<1>7. DOMAIN tree' = (DOMAIN tree \ {from}) \cup {to}
      /\ tree' = [q \in (DOMAIN tree \ {from}) \cup {to} |-> tree[IF q = to THEN from ELSE q]]
  BY <1>3, <1>4, <1>6
<1>8. open_file' = [h \in Handles |->
                 [open_file[h] EXCEPT !.at = IF @ = to THEN Gone ELSE IF @ = from THEN to ELSE @]]
  <2>1. open_file' = [h \in Handles |->
             IF open_file[h].at = to /\ from # to THEN [open_file[h] EXCEPT !.at = Gone]
             ELSE [open_file[h] EXCEPT !.at = Moved(from, to, @)]]
    BY DEF HostRename
  <2>2. \A h \in Handles : open_file[h].at \in DOMAIN tree \cup {<<>>, Gone}
    BY DEF HostFsIInv, FilesOK
  <2>3. \A h \in Handles : Moved(from, to, open_file[h].at) = IF open_file[h].at = from THEN to ELSE open_file[h].at
    BY <1>2, <2>2
  <2> QED BY <2>1, <2>3
<1> QED BY <1>7, <1>8

LEMMA RetypeKeeps ==
    ASSUME HostFsIInv, NEW from \in DOMAIN tree, tree[from].kind = "file",
           NEW to \in Seq(Made), to # <<>>, to # from, ~IsDir(to),
           Front(to) = Front(from), RoPath(to) = RoPath(from),
           HostRename(from, to), UNCHANGED <<held, hostfs_state>>
    PROVE  HostFsIInv'
<1>1. /\ DOMAIN tree' = (DOMAIN tree \ {from}) \cup {to}
      /\ tree' = [q \in DOMAIN tree' |-> IF q = to THEN tree[from] ELSE tree[q]]
      /\ open_file' = [h \in Handles |->
            [open_file[h] EXCEPT !.at = IF @ = to THEN Gone ELSE IF @ = from THEN to ELSE @]]
  BY RetypeIs DEF HostRename
<1>2. TreeOK /\ Unique
  BY DEF HostFsIInv
<1>3. IsFiniteSet(DOMAIN tree')
  <2>1. IsFiniteSet(DOMAIN tree \ {from})
    BY <1>2, FS_RemoveElement DEF TreeOK
  <2>2. IsFiniteSet((DOMAIN tree \ {from}) \cup {to})
    BY <2>1, FS_AddElement
  <2> QED BY <1>1, <2>2
<1>4. tree' \in [DOMAIN tree' -> [kind : {"file", "dir"}, data : Contents]]
  <2>1. \A q \in DOMAIN tree' : (IF q = to THEN tree[from] ELSE tree[q]) \in [kind : {"file", "dir"}, data : Contents]
    BY <1>1, <1>2 DEF TreeOK
  <2> QED BY <1>1, <2>1
<1>5. ASSUME NEW p, IsDir(p) PROVE IsDir(p)'
  <2>1. p # from /\ p # to
    BY <1>2, <1>5, TreeFacts DEF IsDir
  <2> QED BY <1>1, <1>5, <2>1 DEF IsDir
<1>6. \A q \in DOMAIN tree' : q \in Seq(Made) /\ RoPath(q) \in Paths /\ IsDir(Front(q))
  BY <1>1, <1>2 DEF TreeOK
<1>7. TreeOK'
  BY <1>3, <1>4, <1>5, <1>6 DEF TreeOK
<1>8. Unique'
  <2> DEFINE was(q) == IF q = to THEN from ELSE q
  <2>1. ASSUME NEW p \in DOMAIN tree', NEW q \in DOMAIN tree', RoPath(p) = RoPath(q),
               ~Retypes \/ tree'[p].kind = "dir"
        PROVE  p = q
    <3>1. was(p) \in DOMAIN tree /\ was(q) \in DOMAIN tree /\ RoPath(was(p)) = RoPath(was(q))
          /\ tree[was(p)] = tree'[p]
      BY <1>1, <2>1
    <3>2. was(p) = was(q)
      BY <1>2, <2>1, <3>1 DEF Unique, DirsUnique, NamesUnique
    <3> QED BY <1>1, <3>2
  <2>2. DirsUnique'
    BY <2>1 DEF DirsUnique
  <2>3. ~Retypes => NamesUnique'
    BY <2>1 DEF NamesUnique
  <2> QED BY <2>2, <2>3 DEF Unique
<1>9. <<>> \notin DOMAIN tree /\ Gone \notin DOMAIN tree /\ Gone # <<>> /\ to # Gone
  <2>1. to # Gone
    <3>1. ASSUME to = Gone PROVE FALSE
      <4>1. <<>> \in Made
        BY <3>1 DEF Gone
      <4> QED BY <4>1, MadeFacts
    <3> QED BY <3>1
  <2> QED BY <1>2, <2>1, GoneNotThere
<1>10. FilesOK' /\ HandlesMatch'
  <2>1. \A h \in Handles : open_file[h] \in [at : DOMAIN tree \cup {<<>>, Gone}, update : BOOLEAN,
                                             put : {<<>>} \cup ((0 .. MaxLen - 1) \X Bytes)]
    BY DEF HostFsIInv, FilesOK
  <2>2. open_file' = [h \in Handles |-> open_file'[h]]
    BY <1>1
  <2>3. ASSUME NEW h \in Handles
        PROVE  /\ open_file'[h] = [open_file[h] EXCEPT !.at = open_file'[h].at]
               /\ open_file'[h].at = <<>> <=> open_file[h].at = <<>>
               /\ open_file'[h].at \notin {<<>>, Gone} =>
                    /\ open_file[h].at \in DOMAIN tree /\ open_file'[h].at \in DOMAIN tree'
                    /\ tree'[open_file'[h].at].kind = tree[open_file[h].at].kind
    <3> DEFINE now == IF open_file[h].at = to THEN Gone ELSE IF open_file[h].at = from THEN to ELSE open_file[h].at
    <3>1. open_file'[h] = [open_file[h] EXCEPT !.at = now]
      BY <1>1
    <3>2. open_file'[h].at = now
      BY <2>1, <3>1
    <3>3. now = <<>> <=> open_file[h].at = <<>>
      BY <1>9
    <3>4. now \notin {<<>>, Gone} => open_file[h].at \in DOMAIN tree /\ now \in DOMAIN tree'
                                     /\ tree'[now].kind = tree[open_file[h].at].kind
      BY <1>1, <2>1
    <3> HIDE DEF now
    <3> QED BY <3>1, <3>2, <3>3, <3>4
  <2> QED BY <2>2, <2>3, FilesFollow
<1> QED BY <1>7, <1>8, <1>10 DEF HostFsIInv

LEMMA CatInfoKeeps ==
    ASSUME HostFsIInv, NEW ro \in Paths, NEW t \in Types, hostfs_file_1_write_cat_info(ro, t)
    PROVE  HostFsIInv'
<1>1. PICK w \in Process(ro) :
         IF ~w.found \/ IsDir(w.at) THEN Quiet
         ELSE LET new == Construct(Front(w.at), ro, t)
              IN IF IsDir(new) THEN Quiet
                 ELSE HostRename(w.at, new) /\ Disturb /\ UNCHANGED <<held, hostfs_state>>
  BY DEF hostfs_file_1_write_cat_info
<1> DEFINE new == Construct(Front(w.at), ro, t)
<1>2. TreeOK
  BY DEF HostFsIInv
<1>3. CASE ~w.found \/ IsDir(w.at) \/ IsDir(new)
  BY <1>1, <1>3, StillKeeps DEF Quiet, vars, HostFsIInv
<1>4. CASE ~(~w.found \/ IsDir(w.at) \/ IsDir(new))
  <2>1. HostRename(w.at, new) /\ UNCHANGED <<held, hostfs_state>>
    BY <1>1, <1>4
  <2>2. /\ w.at \in DOMAIN tree /\ RoPath(w.at) = ro
        /\ new \in Seq(Made) /\ new # <<>> /\ Front(new) = Front(w.at) /\ RoPath(new) = ro
    BY <1>2, <1>4, OldObject
  <2>3. tree[w.at].kind = "file" /\ ~IsDir(new)
    BY <1>2, <1>4, <2>2, TreeFacts DEF IsDir
  <2> HIDE DEF new
  <2>4. CASE new = w.at
    <3>1. UNCHANGED <<tree, open_file>>
      <4>1. HostRename(w.at, w.at)
        BY <2>1, <2>4
      <4> QED BY <2>2, <4>1, RenameSelf DEF HostRename
    <3> QED BY <2>1, <3>1, StillKeeps DEF HostFsIInv
  <2>5. CASE new # w.at
    <3>1. RoPath(new) = RoPath(w.at)
      BY <2>2
    <3> QED BY <2>1, <2>2, <2>3, <2>5, <3>1, RetypeKeeps DEF HostRename
  <2> QED BY <2>4, <2>5
<1> QED BY <1>3, <1>4

\* Open files follow a rename of an object, or of a directory they are in.
LEMMA RenameFiles ==
    ASSUME HostFsIInv, NEW from, NEW to, Renames(from, to), HostRename(from, to), held' = held
    PROVE  FilesOK' /\ HandlesMatch'
<1>1. TreeOK /\ Unique /\ FilesOK
  BY DEF HostFsIInv
<1>2. /\ DOMAIN tree' = {Moved(from, to, r) : r \in DOMAIN tree}
      /\ \A r \in DOMAIN tree : tree'[Moved(from, to, r)] = tree[r]
      /\ open_file' = [h \in Handles |-> [open_file[h] EXCEPT !.at = Moved(from, to, @)]]
  BY <1>1, RenameIs DEF HostRename
<1>3. from \in DOMAIN tree
  BY DEF Renames
<1>4. Moved(from, to, <<>>) = <<>> /\ Moved(from, to, Gone) = Gone
  BY <1>1, <1>3, NullStays DEF Moved
<1>5. \A r \in DOMAIN tree : Moved(from, to, r) # <<>>
  <2> SUFFICES ASSUME NEW r \in DOMAIN tree PROVE Moved(from, to, r) # <<>>
    OBVIOUS
  <2>1. from \in Seq(Made) /\ to \in Seq(Made) /\ r \in Seq(Made) /\ r # <<>> /\ Len(from) \in Nat /\ Len(r) \in Nat
        /\ Len(to) \in Nat \ {0}
    BY <1>1, <1>3, TreeFacts, EmptySeq DEF Renames
  <2>2. CASE ~IsPrefix(from, r)
    BY <2>1, <2>2 DEF Moved
  <2>3. CASE IsPrefix(from, r)
    <3>1. from \in Seq(Made) /\ to \in Seq(Made) /\ r \in Seq(Made) /\ IsPrefix(from, r)
      BY <2>1, <2>3
    <3>2. Len(from) <= Len(r) /\ Len(Moved(from, to, r)) = Len(to) + (Len(r) - Len(from))
      BY <3>1, MovedMade
    <3>3. Len(Moved(from, to, r)) # 0
      BY <2>1, <3>2
    <3> QED BY <3>3
  <2> QED BY <2>2, <2>3
<1>6. \A h \in Handles : open_file[h] \in [at : DOMAIN tree \cup {<<>>, Gone}, update : BOOLEAN,
                                           put : {<<>>} \cup ((0 .. MaxLen - 1) \X Bytes)]
  BY <1>1 DEF FilesOK
<1>7. open_file' = [h \in Handles |-> open_file'[h]]
  BY <1>2
<1>8. ASSUME NEW h \in Handles
      PROVE  /\ open_file'[h] = [open_file[h] EXCEPT !.at = open_file'[h].at]
             /\ open_file'[h].at = <<>> <=> open_file[h].at = <<>>
             /\ open_file'[h].at \notin {<<>>, Gone} =>
                  /\ open_file[h].at \in DOMAIN tree /\ open_file'[h].at \in DOMAIN tree'
                  /\ tree'[open_file'[h].at].kind = tree[open_file[h].at].kind
  <2> DEFINE now == Moved(from, to, open_file[h].at)
  <2>1. open_file'[h] = [open_file[h] EXCEPT !.at = now]
    BY <1>2
  <2>2. open_file'[h].at = now
    BY <1>6, <2>1
  <2>3. now = <<>> <=> open_file[h].at = <<>>
    BY <1>1, <1>4, <1>5, <1>6, GoneNotThere
  <2>4. now \notin {<<>>, Gone} => open_file[h].at \in DOMAIN tree /\ now \in DOMAIN tree'
                                   /\ tree'[now].kind = tree[open_file[h].at].kind
    BY <1>2, <1>4, <1>6
  <2> HIDE DEF now
  <2> QED BY <2>1, <2>2, <2>3, <2>4
<1> QED BY <1>7, <1>8, FilesFollow

LEMMA RenamedKeeps ==
    ASSUME HostFsIInv, NEW ro1 \in Paths, NEW ro2 \in Paths, hostfs_func_8_rename(ro1, ro2)
    PROVE  HostFsIInv'
<1>1. PICK w1 \in Process(ro1), w2 \in Process(ro2) :
         LET new == Construct(IF w2.found THEN Front(w2.at) ELSE w2.at, ro2, TypeOf(Last(w1.at)))
         IN IF \/ ~w1.found \/ (w2.found /\ ro1 # ro2) \/ w2.error
               \/ ~IsDir(Front(new)) \/ (IsPrefix(w1.at, new) /\ w1.at # new)
            THEN Quiet
            ELSE /\ \A q \in DOMAIN tree : RoPath(Moved(w1.at, new, q)) \in Paths
                 /\ HostRename(w1.at, new) /\ Disturb /\ UNCHANGED <<held, hostfs_state>>
  BY DEF hostfs_func_8_rename
<1> DEFINE new == Construct(IF w2.found THEN Front(w2.at) ELSE w2.at, ro2, TypeOf(Last(w1.at)))
           fails == \/ ~w1.found \/ (w2.found /\ ro1 # ro2) \/ w2.error
                    \/ ~IsDir(Front(new)) \/ (IsPrefix(w1.at, new) /\ w1.at # new)
<1>2. TreeOK /\ Unique
  BY DEF HostFsIInv
<1>3. CASE fails
  BY <1>1, <1>3, StillKeeps DEF Quiet, vars, HostFsIInv
<1>4. CASE ~fails
  <2>1. HostRename(w1.at, new) /\ UNCHANGED <<held, hostfs_state>>
        /\ \A q \in DOMAIN tree : RoPath(Moved(w1.at, new, q)) \in Paths
    BY <1>1, <1>4
  <2>2. w1.at \in DOMAIN tree /\ RoPath(w1.at) = ro1 /\ TypeOf(Last(w1.at)) \in Types
    <3>1. DEFAULT \in Types
      BY DEF Types
    <3> QED BY <1>2, <1>4, <3>1, OldObject
  <2>3. CASE w2.found
    <3>1. /\ ro1 = ro2 /\ w2.at \in DOMAIN tree /\ RoPath(w2.at) = ro2
          /\ Front(w2.at) \in Seq(Made) /\ Front(w1.at) \in Seq(Made)
      <4>1. ro1 = ro2
        BY <1>4, <2>3
      <4>2. w2.at \in DOMAIN tree /\ RoPath(w2.at) = ro2
        BY <1>2, <2>2, <2>3, OldObject
      <4>3. Front(w2.at) \in Seq(Made) /\ Front(w1.at) \in Seq(Made)
        BY <1>2, <2>2, <4>2, TreeFacts, FrontFacts
      <4> QED BY <4>1, <4>2, <4>3
    <3>2. Front(w1.at) = Front(w2.at)
      <4> DEFINE f1 == Front(w1.at)
                 f2 == Front(w2.at)
      <4>1. /\ RoPath(f1) = Front(ro1) /\ RoPath(f2) = Front(ro1)
            /\ Len(f1) = Len(RoPath(f1)) /\ Len(f2) = Len(RoPath(f2))
            /\ IsDir(f1) /\ IsDir(f2)
        BY <1>2, <2>2, <3>1, TreeFacts, FrontFacts, RoPathFacts
      <4>2. CASE f1 = <<>>
        <5>1. Len(f2) = 0
          BY <4>1, <4>2
        <5> QED BY <3>1, <4>2, <5>1
      <4>3. CASE f1 # <<>>
        <5>1. f2 # <<>>
          <6>1. f2 = <<>> => Len(f1) = 0
            BY <4>1
          <6> QED BY <3>1, <4>3, <6>1
        <5> QED BY <1>2, <4>1, <4>3, <5>1 DEF IsDir, Unique, DirsUnique
      <4> QED BY <4>2, <4>3
    <3>3. new = w1.at
      <4>1. w1.at \in Seq(Made) /\ w1.at # <<>>
        BY <1>2, <2>2, TreeFacts
      <4>2. Construct(Front(w1.at), ro1, TypeOf(Last(w1.at))) = w1.at
        BY <2>2, <4>1, HostPathOf
      <4> QED BY <2>3, <3>1, <3>2, <4>2
    <3>4. UNCHANGED <<tree, open_file>>
      <4>1. HostRename(w1.at, w1.at)
        BY <2>1, <3>3
      <4> QED BY <2>2, <4>1, RenameSelf DEF HostRename
    <3> QED BY <2>1, <3>4, StillKeeps DEF HostFsIInv
  <2>4. CASE ~w2.found
    <3>1. /\ new \in Seq(Made) /\ new # <<>> /\ RoPath(new) = ro2 /\ new \notin DOMAIN tree
          /\ \A q \in DOMAIN tree : ~IsPrefix(ro2, RoPath(q))
      BY <1>2, <1>4, <2>2, <2>4, NewObject
    <3>2. IsDir(Front(new)) /\ ~IsPrefix(w1.at, new)
      BY <1>4, <2>2, <3>1
    <3> HIDE DEF new
    <3>3. Renames(w1.at, new)
      BY <2>1, <2>2, <3>1, <3>2 DEF Renames
    <3>4. TreeOK' /\ Unique'
      BY <1>2, <2>1, <3>3, RenameKeeps DEF HostRename, HostFsIInv
    <3>5. FilesOK' /\ HandlesMatch'
      BY <2>1, <3>3, RenameFiles DEF HostRename
    <3> QED BY <2>1, <3>4, <3>5 DEF HostFsIInv
  <2> QED BY <2>3, <2>4
<1> QED BY <1>3, <1>4

LEMMA HostFsStep == HostFsIInv /\ [Next]_vars => HostFsIInv'
<1> SUFFICES ASSUME HostFsIInv, [Next]_vars PROVE HostFsIInv'
  OBVIOUS
<1>1. CASE \E supported \in BOOLEAN : hostfs_register(supported)
  BY <1>1, StillKeeps DEF hostfs_register
<1>2. CASE Ignored
  BY <1>2, StillKeeps DEF Ignored
<1>3. CASE hostfs_reset
  BY <1>3, ResetKeeps
<1>4. ASSUME NEW h \in held, FileCall(h) PROVE HostFsIInv'
  <2>1. CASE hostfs_getbytes(h) \/ hostfs_args_7_ensure_file_size(h) \/ hostfs_args_8_write_zeros(h)
    BY <2>1, PositionedKeeps DEF hostfs_getbytes, hostfs_args_7_ensure_file_size, hostfs_args_8_write_zeros
  <2>2. CASE hostfs_close(h)
    BY <2>2, CloseKeeps
  <2>3. CASE \E n \in 0 .. MaxLen : hostfs_args_3_write_file_extent(h, n)
    BY <2>3, ExtentKeeps
  <2>4. CASE \E off \in 0 .. MaxLen - 1, b \in Bytes, at_once \in BOOLEAN : hostfs_putbytes(h, off, b, at_once)
    BY <2>4, PutBytesKeeps
  <2> QED BY <1>4, <2>1, <2>2, <2>3, <2>4 DEF FileCall
<1>5. ASSUME NEW ro \in Paths, ObjectCall(ro) PROVE HostFsIInv'
  <2>1. CASE \E update \in BOOLEAN : hostfs_open(ro, update)
    BY <2>1, OpenKeeps
  <2>2. CASE \E t \in Types, d \in Contents : hostfs_write_file(ro, t, d)
    BY <2>2, WriteFileKeeps
  <2>3. CASE \E t \in Types : hostfs_file_1_write_cat_info(ro, t)
    BY <2>3, CatInfoKeeps
  <2>4. CASE hostfs_file_6_delete(ro)
    BY <2>4, DeletedKeeps
  <2>5. CASE hostfs_file_8_create_dir(ro)
    BY <2>5, CreateDirKeeps
  <2>6. CASE \E ro2 \in Paths : hostfs_func_8_rename(ro, ro2)
    BY <2>6, RenamedKeeps
  <2> QED BY <1>5, <2>1, <2>2, <2>3, <2>4, <2>5, <2>6 DEF ObjectCall
<1>6. CASE ListCall
  <2>1. UNCHANGED <<tree, open_file, held, hostfs_state>>
    BY <1>6 DEF ListCall, hostfs_read_dir
  <2> QED BY <2>1, StillKeeps DEF HostFsIInv
<1>7. CASE UNCHANGED vars
  BY <1>7, StillKeeps DEF vars, HostFsIInv
<1> QED BY <1>1, <1>2, <1>3, <1>4, <1>5, <1>6, <1>7 DEF Next

LEMMA HostFsImplies == HostFsIInv => HostFsInv /\ (~Retypes => NamesUnique)
<1> SUFFICES ASSUME HostFsIInv PROVE HostFsInv /\ (~Retypes => NamesUnique)
  OBVIOUS
<1>1. TreeOK /\ FilesOK
  BY DEF HostFsIInv
<1>2. ASSUME NEW hp \in DOMAIN tree
      PROVE  /\ \A i \in DOMAIN hp : hp[i] \in Names
             /\ RoPath(hp) \in Paths /\ IsDir(Front(hp))
             /\ tree[hp].kind \in {"file", "dir"} /\ tree[hp].data \in Contents
  <2>1. hp \in Seq(Made) /\ RoPath(hp) \in Paths /\ IsDir(Front(hp)) /\ Len(hp) \in Nat
        /\ tree[hp] \in [kind : {"file", "dir"}, data : Contents]
    BY <1>1, TreeFacts
  <2>2. ASSUME NEW i \in 1 .. Len(hp) PROVE hp[i] \in Names
    <3> DEFINE p == SubSeq(hp, 1, i)
    <3>1. p \in DOMAIN tree
      BY <1>1, PrefixInTree
    <3>2. Last(p) = hp[i] /\ p # <<>>
      BY <2>1, FrontOfPrefix
    <3> HIDE DEF p
    <3>3. p \in Seq(Made) /\ RoPath(p) \in Paths
      BY <1>1, <3>1, TreeFacts
    <3>4. Last(RoPath(p)) = RoLeaf(hp[i]) /\ hp[i] \in Made
      BY <3>2, <3>3, FrontFacts
    <3>5. hp[i] = HostName(Last(RoPath(p)), TypeOf(hp[i])) /\ TypeOf(hp[i]) \in Types
      BY <3>4, MadeFacts
    <3> QED BY <3>3, <3>5 DEF Names
  <2> QED BY <2>1, <2>2, LenProperties
<1>3. \A h \in Handles : /\ open_file[h].at \in DOMAIN tree \cup {<<>>, Gone}
                         /\ open_file[h].update \in BOOLEAN
  BY <1>1 DEF FilesOK
<1>4. HostFsInv
  BY <1>2, <1>3 DEF HostFsIInv, HostFsInv, TypeOK
<1>5. ~Retypes => NamesUnique
  BY DEF HostFsIInv, Unique
<1> QED BY <1>4, <1>5

\* At every moment each object of the host's tree lies in a directory of it, under a
\* name that stands for a leaf and a type, and the table of open files holds exactly
\* the handles the guest has: HostFS never aborts for want of an entry.
THEOREM HandlesAgree == Spec => []HostFsInv
BY HostFsStart, HostFsStep, HostFsImplies, PTL DEF Spec

\* As long as the guest saves no file over one of another type, no directory ever
\* holds two host files for one RISC OS name, so what a call finds does not depend
\* on the order in which the host lists names.
THEOREM OneNameOneFile == ASSUME ~Retypes PROVE Spec => []NamesUnique
<1>1. HostFsIInv => NamesUnique
  BY HostFsImplies
<1> QED BY <1>1, HostFsStart, HostFsStep, PTL DEF Spec

-----------------------------------------------------------------------------
\* Listings.

\* A finite set that is not empty has a member with the greatest key.
LEMMA GreatestKey ==
    ASSUME NEW n \in Nat, NEW S, IsFiniteSet(S), Cardinality(S) = n + 1, NEW key \in [S -> Nat]
    PROVE  \E m \in S : \A x \in S : key[x] <= key[m]
<1> DEFINE P(i) == \A T \in SUBSET S : IsFiniteSet(T) /\ Cardinality(T) = i + 1
                                       => \E m \in T : \A x \in T : key[x] <= key[m]
           N == {i \in Nat : P(i)}
<1>1. 0 \in N
  <2> SUFFICES ASSUME NEW T \in SUBSET S, IsFiniteSet(T), Cardinality(T) = 0 + 1
               PROVE  \E m \in T : \A x \in T : key[x] <= key[m]
    OBVIOUS
  <2>1. PICK m : T = {m}
    <3>1. Cardinality(T) = 1
      OBVIOUS
    <3> QED BY <3>1, FS_Singleton, Zenon
  <2>2. key[m] \in Nat /\ m \in T
    BY <2>1
  <2> QED BY <2>1, <2>2
<1>2. ASSUME NEW i \in Nat, i \in N PROVE i + 1 \in N
  <2> SUFFICES ASSUME NEW T \in SUBSET S, IsFiniteSet(T), Cardinality(T) = i + 1 + 1
               PROVE  \E m \in T : \A x \in T : key[x] <= key[m]
    OBVIOUS
  <2>1. PICK y \in T : TRUE
    BY FS_EmptySet
  <2>2. IsFiniteSet(T \ {y}) /\ Cardinality(T \ {y}) = i + 1
    BY <2>1, FS_RemoveElement
  <2>3. PICK m \in T \ {y} : \A x \in T \ {y} : key[x] <= key[m]
    BY <1>2, <2>2
  <2>4. key[m] \in Nat /\ key[y] \in Nat /\ \A x \in T : key[x] \in Nat
    OBVIOUS
  <2>5. CASE key[m] <= key[y]
    BY <2>1, <2>3, <2>4, <2>5
  <2>6. CASE key[y] <= key[m]
    BY <2>1, <2>3, <2>4, <2>6
  <2> QED BY <2>4, <2>5, <2>6
<1> HIDE DEF N
<1>3. \A i \in Nat : i \in N
  BY <1>1, <1>2, SetInduction
<1> QED BY <1>3 DEF N

\* A finite set can be listed in the order of a key.
LEMMA Listed ==
    ASSUME NEW S, IsFiniteSet(S), NEW key \in [S -> Nat]
    PROVE  \E e \in [1 .. Cardinality(S) -> S] :
             Range(e) = S /\ \A i, j \in DOMAIN e : i < j => key[e[i]] <= key[e[j]]
<1> DEFINE Enumerates(e, T) == /\ e \in [1 .. Cardinality(T) -> T] /\ Range(e) = T
                          /\ \A i, j \in DOMAIN e : i < j => key[e[i]] <= key[e[j]]
           N == {n \in Nat : \A T \in SUBSET S : IsFiniteSet(T) /\ Cardinality(T) = n => \E e : Enumerates(e, T)}
<1>1. 0 \in N
  <2> SUFFICES ASSUME NEW T \in SUBSET S, IsFiniteSet(T), Cardinality(T) = 0 PROVE \E e : Enumerates(e, T)
    OBVIOUS
  <2>1. T = {}
    BY FS_EmptySet
  <2>2. Enumerates([i \in 1 .. 0 |-> 0], T)
    BY <2>1 DEF Range
  <2> QED BY <2>2
<1>2. ASSUME NEW n \in Nat, n \in N PROVE n + 1 \in N
  <2> SUFFICES ASSUME NEW T \in SUBSET S, IsFiniteSet(T), Cardinality(T) = n + 1 PROVE \E e : Enumerates(e, T)
    OBVIOUS
  <2>1. PICK m \in T : \A x \in T : key[x] <= key[m]
    <3>1. [x \in T |-> key[x]] \in [T -> Nat]
      OBVIOUS
    <3>2. \E m \in T : \A x \in T : [z \in T |-> key[z]][x] <= [z \in T |-> key[z]][m]
      BY <3>1, GreatestKey
    <3> QED BY <3>2
  <2>2. IsFiniteSet(T \ {m}) /\ Cardinality(T \ {m}) = n
    <3>1. IsFiniteSet(T \ {m}) /\ Cardinality(T \ {m}) = Cardinality(T) - 1
      BY <2>1, FS_RemoveElement, Zenon
    <3> QED BY <3>1
  <2>3. PICK f : Enumerates(f, T \ {m})
    BY <1>2, <2>2
  <2> DEFINE e == [i \in 1 .. n + 1 |-> IF i <= n THEN f[i] ELSE m]
  <2>4. f \in [1 .. n -> T \ {m}] /\ Range(f) = T \ {m} /\ \A i, j \in 1 .. n : i < j => key[f[i]] <= key[f[j]]
    BY <2>2, <2>3
  <2>5. e \in [1 .. n + 1 -> T]
    BY <2>1, <2>4
  <2>6. Range(e) = T
    <3>1. \A x \in T : \E i \in 1 .. n + 1 : e[i] = x
      <4> SUFFICES ASSUME NEW x \in T PROVE \E i \in 1 .. n + 1 : e[i] = x
        OBVIOUS
      <4>1. CASE x = m
        <5>1. n + 1 \in 1 .. n + 1 /\ e[n + 1] = m
          OBVIOUS
        <5> QED BY <4>1, <5>1
      <4>2. CASE x # m
        <5>1. PICK i \in 1 .. n : f[i] = x
          BY <2>4, <4>2 DEF Range
        <5>2. i \in 1 .. n + 1 /\ e[i] = x
          BY <5>1
        <5> QED BY <5>2
      <4> QED BY <4>1, <4>2
    <3> QED BY <2>5, <3>1 DEF Range
  <2>7. ASSUME NEW i \in 1 .. n + 1, NEW j \in 1 .. n + 1, i < j PROVE key[e[i]] <= key[e[j]]
    <3>1. CASE j <= n
      BY <2>4, <2>7, <3>1
    <3>2. CASE j = n + 1
      <4>1. e[j] = m /\ e[i] \in T
        BY <2>5, <3>2
      <4> QED BY <2>1, <4>1
    <3> QED BY <3>1, <3>2
  <2>8. Enumerates(e, T)
    BY <2>5, <2>6, <2>7
  <2> QED BY <2>8
<1> HIDE DEF N
<1>3. \A n \in Nat : n \in N
  BY <1>1, <1>2, SetInduction
<1>4. Cardinality(S) \in N
  BY <1>3, FS_CardinalityType
<1> QED BY <1>4 DEF N

\* The one listing of a set of leaves, in the order of a directory.
Lists(e, S) ==
    /\ e \in Seq(S) /\ Range(e) = S
    /\ \A i, j \in DOMAIN e : i < j => Rank[e[i]] < Rank[e[j]]

LEMMA OneListing ==
    ASSUME NEW S \in SUBSET Leaves, NEW e, NEW f, Lists(e, S), Lists(f, S)
    PROVE  e = f
<1> DEFINE Agree(g, h) == {n \in Nat : n <= Len(g) => n <= Len(h) /\ \A i \in 1 .. n : g[i] = h[i]}
<1>1. ASSUME NEW g, NEW h, Lists(g, S), Lists(h, S) PROVE \A n \in Nat : n \in Agree(g, h)
  <2>1. /\ g \in Seq(S) /\ DOMAIN g = 1 .. Len(g) /\ Len(g) \in Nat
        /\ h \in Seq(S) /\ DOMAIN h = 1 .. Len(h) /\ Len(h) \in Nat
        /\ \A x \in S : (\E i \in 1 .. Len(g) : g[i] = x) /\ (\E i \in 1 .. Len(h) : h[i] = x)
        /\ \A i, j \in 1 .. Len(g) : i < j => Rank[g[i]] < Rank[g[j]]
        /\ \A i, j \in 1 .. Len(h) : i < j => Rank[h[i]] < Rank[h[j]]
    <3>1. ASSUME NEW l, Lists(l, S)
          PROVE  /\ l \in Seq(S) /\ DOMAIN l = 1 .. Len(l) /\ Len(l) \in Nat
                 /\ \A x \in S : \E i \in 1 .. Len(l) : l[i] = x
                 /\ \A i, j \in 1 .. Len(l) : i < j => Rank[l[i]] < Rank[l[j]]
      <4>1. l \in Seq(S) /\ DOMAIN l = 1 .. Len(l) /\ Len(l) \in Nat
        BY <3>1, LenProperties DEF Lists
      <4>2. \A x \in S : \E i \in DOMAIN l : l[i] = x
        BY <3>1 DEF Lists, Range
      <4>3. \A i, j \in DOMAIN l : i < j => Rank[l[i]] < Rank[l[j]]
        BY <3>1 DEF Lists
      <4> QED BY <4>1, <4>2, <4>3
    <3> QED BY <1>1, <3>1
  <2>2. \A x \in S : Rank[x] \in Nat
    BY HostFsAssumption
  <2>3. 0 \in Agree(g, h)
    BY <2>1
  <2>4. ASSUME NEW n \in Nat, n \in Agree(g, h) PROVE n + 1 \in Agree(g, h)
    <3> SUFFICES ASSUME n + 1 <= Len(g) PROVE n + 1 <= Len(h) /\ \A i \in 1 .. n + 1 : g[i] = h[i]
      OBVIOUS
    <3>0. Len(g) \in Nat /\ Len(h) \in Nat
      BY <2>1
    <3>1. n <= Len(h) /\ n + 1 \in 1 .. Len(g) /\ \A i \in 1 .. n : g[i] = h[i]
      BY <2>1, <2>4
    <3>2. PICK k \in 1 .. Len(h) : h[k] = g[n + 1]
      BY <2>1, <3>1
    <3>3. ~(k <= n)
      <4> SUFFICES ASSUME k <= n PROVE FALSE
        OBVIOUS
      <4>0. k \in 1 .. Len(g) /\ k \in 1 .. n /\ k < n + 1
        BY <3>0, <3>1
      <4>1. g[k] = g[n + 1] /\ Rank[g[k]] \in Nat
        <5>1. g[k] = g[n + 1]
          BY <3>1, <3>2, <4>0
        <5>2. g[k] \in S
          BY <2>1, <4>0
        <5> QED BY <2>2, <5>1, <5>2
      <4>2. Rank[g[k]] < Rank[g[n + 1]]
        BY <2>1, <3>1, <4>0
      <4> QED BY <4>1, <4>2
    <3>4. n + 1 \in 1 .. Len(h) /\ n + 1 <= k
      BY <3>0, <3>3
    <3>5. PICK j \in 1 .. Len(g) : g[j] = h[n + 1]
      BY <2>1, <3>4
    <3>6. ~(j <= n)
      <4> SUFFICES ASSUME j <= n PROVE FALSE
        OBVIOUS
      <4>0. j \in 1 .. Len(h) /\ j \in 1 .. n /\ j < n + 1
        BY <3>0, <3>1
      <4>1. h[j] = h[n + 1] /\ Rank[h[j]] \in Nat
        <5>1. h[j] = h[n + 1]
          BY <3>1, <3>5, <4>0
        <5>2. h[j] \in S
          BY <2>1, <4>0
        <5> QED BY <2>2, <5>1, <5>2
      <4>2. Rank[h[j]] < Rank[h[n + 1]]
        BY <2>1, <3>4, <4>0
      <4> QED BY <4>1, <4>2
    <3>7. n + 1 = j
      <4>0. j \in Nat /\ n + 1 <= j
        BY <3>0, <3>6
      <4> SUFFICES ASSUME n + 1 < j PROVE FALSE
        BY <4>0
      <4>1. Rank[g[n + 1]] < Rank[g[j]]
        BY <2>1, <3>1
      <4>2. n + 1 = k \/ Rank[h[n + 1]] < Rank[h[k]]
        BY <2>1, <3>4
      <4>3. Rank[g[n + 1]] \in Nat /\ Rank[g[j]] \in Nat
        BY <2>1, <2>2, <3>1
      <4> QED BY <3>2, <3>5, <4>1, <4>2, <4>3
    <3>8. g[n + 1] = h[n + 1]
      BY <3>5, <3>7
    <3>9. ASSUME NEW i \in 1 .. n + 1 PROVE g[i] = h[i]
      <4>1. i = n + 1 \/ i \in 1 .. n
        OBVIOUS
      <4> QED BY <3>1, <3>8, <4>1
    <3> QED BY <3>4, <3>9
  <2> HIDE DEF Agree
  <2> QED BY <2>3, <2>4, SetInduction
<1>2. Len(e) \in Nat /\ Len(f) \in Nat /\ e \in Seq(S) /\ f \in Seq(S)
  BY DEF Lists
<1>3. Len(e) \in Agree(e, f) /\ Len(f) \in Agree(f, e)
  <2> HIDE DEF Agree
  <2> QED BY <1>1, <1>2
<1>4. Len(e) = Len(f) /\ \A i \in 1 .. Len(e) : e[i] = f[i]
  BY <1>2, <1>3
<1> QED BY <1>2, <1>4, SeqEqual

\* What the scan of a directory finds is what the tree holds under its RISC OS path.
LEMMA LeafsAre ==
    ASSUME TreeOK, Unique, NamesUnique, NEW ro \in Paths \cup {<<>>}, NEW w \in Process(ro)
    PROVE  /\ Leafs(tree, ro) \subseteq Leaves
           /\ w.found /\ IsDir(w.at) => w.at \in Seq(Made) /\ Leafs(tree, ro) = {RoLeaf(n) : n \in ReadDir(w.at)}
           /\ ~(w.found /\ IsDir(w.at)) => Leafs(tree, ro) = {}
<1>1. ro \in Seq(Leaves)
  BY PathFacts, EmptySeq
<1>2. ASSUME NEW q \in DOMAIN tree
      PROVE  /\ q \in Seq(Made) /\ q # <<>> /\ Front(q) \in Seq(Made) /\ Last(q) \in Made
             /\ RoPath(Front(q)) = Front(RoPath(q)) /\ Last(RoPath(q)) = RoLeaf(Last(q)) /\ RoLeaf(Last(q)) \in Leaves
             /\ IsDir(Front(q)) /\ RoPath(q) \in Paths
  BY TreeFacts, FrontFacts, MadeFacts
<1>3. Leafs(tree, ro) \subseteq Leaves
  BY <1>2 DEF Leafs
<1>4. ASSUME w.found, NEW q \in DOMAIN tree, Front(RoPath(q)) = ro PROVE Front(q) = w.at
  <2>1. w.at \in DOMAIN tree \cup {<<>>} /\ RoPath(w.at) = ro /\ Len(w.at) = Len(ro)
    BY <1>1, <1>4, FoundIs
  <2>2. RoPath(Front(q)) = ro /\ Len(Front(q)) = Len(ro) /\ Front(q) \in Seq(Made)
        /\ (Front(q) \in DOMAIN tree \/ Front(q) = <<>>)
    <3>1. RoPath(Front(q)) = ro /\ Front(q) \in Seq(Made) /\ (Front(q) \in DOMAIN tree \/ Front(q) = <<>>)
      BY <1>2, <1>4, TreeFacts
    <3> QED BY <3>1, RoPathFacts
  <2>3. CASE ro = <<>>
    <3>1. Len(Front(q)) = 0 /\ Len(w.at) = 0
      BY <2>1, <2>2, <2>3
    <3>2. w.at \in Seq(Made)
      <4>1. CASE w.at \in DOMAIN tree
        BY <4>1, TreeFacts
      <4>2. CASE w.at = <<>>
        BY <4>2, EmptySeq
      <4> QED BY <2>1, <4>1, <4>2
    <3> QED BY <2>2, <3>1, <3>2
  <2>4. CASE ro # <<>>
    <3>1. Len(ro) # 0
      BY <1>1, <2>4
    <3>2. w.at \in DOMAIN tree /\ Front(q) \in DOMAIN tree
      BY <2>1, <2>2, <3>1
    <3> QED BY <2>1, <2>2, <3>2 DEF NamesUnique
  <2> QED BY <2>3, <2>4
<1>5. CASE w.found
  <2>1. w.at \in DOMAIN tree \cup {<<>>} /\ RoPath(w.at) = ro
    BY <1>1, <1>5, FoundIs
  <2>2. w.at \in Seq(Made)
    BY <1>2, <2>1, EmptySeq
  <2>3. ASSUME NEW n \in ReadDir(w.at) PROVE RoLeaf(n) \in Leafs(tree, ro)
    <3>1. PICK q \in DOMAIN tree : Front(q) = w.at /\ n = Last(q)
      BY <2>3 DEF ReadDir
    <3> QED BY <1>2, <2>1, <3>1 DEF Leafs
  <2>4. ASSUME NEW x \in Leafs(tree, ro) PROVE IsDir(w.at) /\ \E n \in ReadDir(w.at) : x = RoLeaf(n)
    <3>1. PICK q \in DOMAIN tree : Front(RoPath(q)) = ro /\ x = Last(RoPath(q))
      BY <2>4 DEF Leafs
    <3>2. Front(q) = w.at
      BY <1>4, <1>5, <3>1
    <3> QED BY <1>2, <3>1, <3>2 DEF ReadDir
  <2>5. Leafs(tree, ro) = {RoLeaf(n) : n \in ReadDir(w.at)}
    BY <2>3, <2>4
  <2>6. ~IsDir(w.at) => Leafs(tree, ro) = {}
    BY <2>4
  <2> QED BY <1>3, <1>5, <2>2, <2>5, <2>6
<1>6. CASE ~w.found
  <2>1. Len(ro) # 0
    <3>1. Len(w.at) < Len(ro) /\ Len(w.at) \in Nat
      <4>1. Len(w.at) < Len(ro) /\ w.at \in DOMAIN tree \cup {<<>>}
        BY <1>1, <1>6, MissingIs
      <4>2. w.at \in Seq(Made)
        BY <1>2, <4>1, EmptySeq
      <4> QED BY <4>1, <4>2
    <3> QED BY <1>1, <3>1
  <2>2. ro \in Paths
    BY <2>1
  <2>3. ASSUME NEW q \in DOMAIN tree, Front(RoPath(q)) = ro PROVE FALSE
    <3>1. /\ RoPath(q) \in Seq(Leaves) /\ Len(RoPath(q)) \in Nat \ {0} /\ Front(RoPath(q)) \in Seq(Leaves)
          /\ Len(Front(RoPath(q))) = Len(RoPath(q)) - 1
      BY <1>2, PathFacts
    <3>2. IsPrefix(ro, RoPath(q))
      <4>1. ro = SubSeq(RoPath(q), 1, Len(ro)) /\ Len(ro) <= Len(RoPath(q))
        BY <2>3, <3>1 DEF Front
      <4>2. SubSeq(ro, 1, Len(ro)) = ro
        BY <1>1, SubSeqFull
      <4> QED BY <4>1, <4>2 DEF IsPrefix
    <3> QED BY <1>6, <2>2, <3>2, MissingNowhere
  <2>4. Leafs(tree, ro) = {}
    BY <2>3 DEF Leafs
  <2> QED BY <1>6, <2>4
<1> QED BY <1>5, <1>6

\* The sorted directory is the listing of its leaves.
LEMMA CacheIs ==
    ASSUME TreeOK, NamesUnique, NEW hp \in Seq(Made), {RoLeaf(n) : n \in ReadDir(hp)} \subseteq Leaves
    PROVE  Lists(hostfs_cache_dir(hp), {RoLeaf(n) : n \in ReadDir(hp)})
<1> DEFINE names == ReadDir(hp)
           k == Cardinality(names)
           leaves == {RoLeaf(n) : n \in names}
           key == [n \in names |-> Rank[RoLeaf(n)]]
           Ordered(e) == /\ Range(e) = names
                         /\ \A i, j \in DOMAIN e : i < j => Rank[RoLeaf(e[i])] <= Rank[RoLeaf(e[j])]
           es == CHOOSE e \in [1 .. k -> names] : Ordered(e)
<1>1. IsFiniteSet(names)
  <2>1. names = {Last(q) : q \in {q \in DOMAIN tree : q # <<>> /\ Front(q) = hp}}
    BY DEF ReadDir
  <2>2. IsFiniteSet({q \in DOMAIN tree : q # <<>> /\ Front(q) = hp})
    <3>1. {q \in DOMAIN tree : q # <<>> /\ Front(q) = hp} \in SUBSET DOMAIN tree
      OBVIOUS
    <3> QED BY <3>1, FS_Subset DEF TreeOK
  <2> DEFINE qs == {q \in DOMAIN tree : q # <<>> /\ Front(q) = hp}
             f == [q \in qs |-> Last(q)]
  <2> HIDE DEF qs
  <2>3. f \in Surjection(qs, {Last(q) : q \in qs})
    BY DEF Surjection
  <2>4. IsFiniteSet({Last(q) : q \in qs})
    BY <2>2, <2>3, FS_Surjection DEF qs
  <2> QED BY <2>1, <2>4 DEF qs
<1>2. k \in Nat /\ \A n \in names : RoLeaf(n) \in Leaves /\ Rank[RoLeaf(n)] \in Nat
  BY <1>1, FS_CardinalityType, HostFsAssumption
<1> HIDE DEF names
<1>3. \E e \in [1 .. k -> names] : Ordered(e)
  <2>1. key \in [names -> Nat]
    BY <1>2
  <2>2. \E e \in [1 .. k -> names] : Range(e) = names /\ \A i, j \in DOMAIN e : i < j => key[e[i]] <= key[e[j]]
    <3> HIDE DEF key
    <3> QED BY <1>1, <2>1, Listed
  <2> QED BY <2>2
<1> HIDE DEF Ordered
<1>4. es \in [1 .. k -> names] /\ Ordered(es)
  BY <1>3
<1>5. hostfs_cache_dir(hp) = [i \in DOMAIN es |-> RoLeaf(es[i])]
  BY DEF hostfs_cache_dir, names, Ordered
<1> HIDE DEF es
<1>6. \A m, n \in names : RoLeaf(m) = RoLeaf(n) => m = n
  <2> SUFFICES ASSUME NEW m \in names, NEW n \in names, RoLeaf(m) = RoLeaf(n) PROVE m = n
    OBVIOUS
  <2>1. m \in Made /\ n \in Made /\ Append(hp, m) \in DOMAIN tree /\ Append(hp, n) \in DOMAIN tree
    BY ReadDirIs DEF names
  <2>2. RoPath(Append(hp, m)) = RoPath(Append(hp, n))
    BY <2>1, AppendFacts
  <2>3. Append(hp, m) = Append(hp, n)
    BY <2>1, <2>2 DEF NamesUnique
  <2> QED BY <2>1, <2>3, AppendFacts
<1>7. \A i, j \in 1 .. k : es[i] = es[j] => i = j
  <2>1. es \in Surjection(1 .. k, names)
    BY <1>4 DEF Ordered, Range, Surjection
  <2>2. IsFiniteSet(1 .. k) /\ Cardinality(1 .. k) = k
    BY <1>2, FS_Interval
  <2>3. es \in Injection(1 .. k, names)
    BY <2>1, <2>2, FS_SurjSameCardinalityImpliesInj
  <2> QED BY <2>3 DEF Injection, IsInjective
<1> DEFINE l == [i \in 1 .. k |-> RoLeaf(es[i])]
<1>8. hostfs_cache_dir(hp) = l
  BY <1>4, <1>5
<1>9. l \in Seq(leaves) /\ DOMAIN l = 1 .. k /\ Range(l) = leaves
  <2>1. l \in [1 .. k -> leaves]
    BY <1>4
  <2>2. \A x \in leaves : \E i \in 1 .. k : l[i] = x
    BY <1>4 DEF Ordered, Range
  <2> HIDE DEF l, leaves
  <2>3. DOMAIN l = 1 .. k /\ l \in Seq(leaves)
    BY <1>2, <2>1
  <2>4. Range(l) = leaves
    BY <2>1, <2>2 DEF Range
  <2> QED BY <2>3, <2>4
<1>10. ASSUME NEW i \in 1 .. k, NEW j \in 1 .. k, i < j PROVE Rank[l[i]] < Rank[l[j]]
  <2>1. Rank[l[i]] <= Rank[l[j]] /\ l[i] \in Leaves /\ l[j] \in Leaves
    BY <1>2, <1>4, <1>10 DEF Ordered
  <2>2. l[i] # l[j]
    <3>1. es[i] # es[j] /\ es[i] \in names /\ es[j] \in names
      BY <1>2, <1>4, <1>7, <1>10
    <3> QED BY <1>6, <3>1
  <2>3. Rank[l[i]] # Rank[l[j]] /\ Rank[l[i]] \in Nat /\ Rank[l[j]] \in Nat
    BY <2>1, <2>2, HostFsAssumption
  <2> QED BY <2>1, <2>3
<1> HIDE DEF l
<1>11. Lists(l, leaves)
  BY <1>9, <1>10 DEF Lists
<1> QED BY <1>8, <1>11 DEF names

\* What the guest has got is the beginning of the directory as it is now.
Listings == [dir : Paths \cup {<<>>}, off : Nat, got : Seq(Leaves), state : {"none", "reading", "done"}]
ListingIs(l) ==
    \A all : Lists(all, Leafs(tree, l.dir)) => l.off \in 0 .. Len(all) /\ l.got = SubSeq(all, 1, l.off)
ListingOK ==
    /\ listing \in Listings
    /\ listing.state # "none" =>
         /\ \E all : Lists(all, Leafs(tree, listing.dir))
         /\ ListingIs(listing)
         /\ listing.state = "done" => Range(listing.got) = Leafs(tree, listing.dir)

LEMMA ListingFacts ==
    ASSUME NEW S \in SUBSET Leaves, NEW all, Lists(all, S), NEW off \in 0 .. Len(all)
    PROVE  SubSeq(all, 1, off) \in Seq(Leaves) /\ Len(SubSeq(all, 1, off)) = off
<1>1. all \in Seq(S) /\ Len(all) \in Nat
  BY DEF Lists
<1>2. \A i \in 1 .. off : all[i] \in Leaves
  BY <1>1
<1> QED BY <1>1, <1>2, SubSeqProperties

LEMMA ReadKeeps ==
    ASSUME HostFsIInv, ~Retypes, NEW l \in Listings, l.state = "reading", ListingIs(l),
           NEW room \in 1 .. 2, hostfs_read_dir(l, room)
    PROVE  ListingOK'
<1>1. PICK w \in Process(l.dir) :
         LET es    == hostfs_cache_dir(w.at)
             last  == IF l.off + room < Len(es) THEN l.off + room ELSE Len(es)
         IN listing' = IF ~(w.found /\ IsDir(w.at)) \/ l.off >= Len(es)
              THEN [l EXCEPT !.state = "done"]
              ELSE [l EXCEPT !.off = last, !.got = @ \o SubSeq(es, l.off + 1, last)]
  BY DEF hostfs_read_dir
<1> DEFINE es == hostfs_cache_dir(w.at)
           last == IF l.off + room < Len(es) THEN l.off + room ELSE Len(es)
           S == Leafs(tree, l.dir)
<1>2. TreeOK /\ Unique /\ NamesUnique /\ l.dir \in Paths \cup {<<>>} /\ tree' = tree
  BY DEF HostFsIInv, Unique, Listings, hostfs_read_dir
<1>3. /\ S \subseteq Leaves
      /\ w.found /\ IsDir(w.at) => w.at \in Seq(Made) /\ S = {RoLeaf(n) : n \in ReadDir(w.at)}
      /\ ~(w.found /\ IsDir(w.at)) => S = {}
  BY <1>2, LeafsAre
<1> SUFFICES /\ listing' \in Listings /\ listing'.dir = l.dir
             /\ \E all : /\ Lists(all, S) /\ listing'.off \in 0 .. Len(all)
                         /\ listing'.got = SubSeq(all, 1, listing'.off)
                         /\ listing'.state = "done" => listing'.off = Len(all)
  <2>1. PICK all : /\ Lists(all, S) /\ listing'.off \in 0 .. Len(all)
                   /\ listing'.got = SubSeq(all, 1, listing'.off)
                   /\ listing'.state = "done" => listing'.off = Len(all)
    OBVIOUS
  <2>2. Leafs(tree', listing'.dir) = S
    BY <1>2
  <2> HIDE DEF S
  <2>3. \A f : Lists(f, S) => f = all
    BY <1>3, <2>1, OneListing
  <2>4. ListingIs(listing)'
    BY <2>1, <2>2, <2>3 DEF ListingIs
  <2>5. ASSUME listing'.state = "done" PROVE Range(listing'.got) = S
    <3>1. all \in Seq(S) /\ Range(all) = S
      BY <2>1 DEF Lists
    <3>2. listing'.got = all
      BY <2>1, <2>5, <3>1, SubSeqFull
    <3> QED BY <3>1, <3>2
  <2> QED BY <2>1, <2>2, <2>4, <2>5 DEF ListingOK
<1>4. CASE ~(w.found /\ IsDir(w.at))
  <2>1. S = {} /\ Lists(<<>>, S)
    BY <1>3, <1>4 DEF Lists, Range
  <2>2. l.off \in 0 .. Len(<<>>) /\ l.got = SubSeq(<<>>, 1, l.off)
    BY <2>1 DEF ListingIs
  <2>3. listing' = [l EXCEPT !.state = "done"]
    BY <1>1, <1>4
  <2>4. /\ listing' \in Listings /\ listing'.dir = l.dir /\ listing'.off = l.off /\ listing'.got = l.got
    BY <2>3 DEF Listings
  <2>5. l.off = Len(<<>>)
    BY <2>2
  <2> QED BY <2>1, <2>2, <2>4, <2>5
<1>5. CASE w.found /\ IsDir(w.at)
  <2>1. w.at \in Seq(Made) /\ S = {RoLeaf(n) : n \in ReadDir(w.at)} /\ {RoLeaf(n) : n \in ReadDir(w.at)} \subseteq Leaves
    BY <1>3, <1>5
  <2>2. Lists(es, S)
    BY <1>2, <2>1, CacheIs
  <2> HIDE DEF es, S
  <2>3. l.off \in 0 .. Len(es) /\ l.got = SubSeq(es, 1, l.off) /\ es \in Seq(S) /\ Len(es) \in Nat
    BY <2>2 DEF ListingIs, S, Lists
  <2>4. CASE l.off >= Len(es)
    <3>1. listing' = [l EXCEPT !.state = "done"]
      BY <1>1, <2>4 DEF es
    <3>2. listing' \in Listings /\ listing'.dir = l.dir /\ listing'.off = l.off /\ listing'.got = l.got
      BY <3>1 DEF Listings
    <3>3. l.off = Len(es)
      BY <2>3, <2>4
    <3> QED BY <2>2, <2>3, <3>2, <3>3
  <2>5. CASE ~(l.off >= Len(es))
    <3>1. listing' = [l EXCEPT !.off = last, !.got = @ \o SubSeq(es, l.off + 1, last)]
      BY <1>1, <1>5, <2>5 DEF es
    <3>2. last \in l.off .. Len(es) /\ last \in 0 .. Len(es)
      BY <2>3, <2>5
    <3> HIDE DEF last
    <3>3. SubSeq(es, 1, l.off) \o SubSeq(es, l.off + 1, last) = SubSeq(es, 1, last)
      <4>1. 1 \in 1 .. Len(es) + 1 /\ l.off \in 1 - 1 .. Len(es) /\ last \in l.off .. Len(es)
        BY <2>3, <3>2
      <4> QED BY <2>3, <4>1, ConcatAdjacentSubSeq
    <3>4. SubSeq(es, 1, last) \in Seq(Leaves)
      BY <1>3, <2>2, <3>2, ListingFacts DEF S
    <3>5. listing' = [l EXCEPT !.off = last, !.got = SubSeq(es, 1, last)]
      BY <2>3, <3>1, <3>3
    <3>6. /\ listing' \in Listings /\ listing'.dir = l.dir /\ listing'.off = last
          /\ listing'.got = SubSeq(es, 1, last) /\ listing'.state = "reading"
      <4> DEFINE got == SubSeq(es, 1, last)
      <4>1. l = [dir |-> l.dir, off |-> l.off, got |-> l.got, state |-> "reading"] /\ l.dir \in Paths \cup {<<>>}
        BY DEF Listings
      <4>2. got \in Seq(Leaves) /\ last \in Nat
        BY <2>3, <3>2, <3>4
      <4> HIDE DEF got
      <4>3. listing' = [dir |-> l.dir, off |-> last, got |-> got, state |-> "reading"]
        BY <3>5, <4>1 DEF got
      <4> QED BY <4>1, <4>2, <4>3 DEF Listings, got
    <3> QED BY <2>2, <3>2, <3>6
  <2> QED BY <2>4, <2>5
<1> QED BY <1>4, <1>5

\* Every other step leaves the listing alone, or ends what is said of it.
LEMMA DisturbKeeps ==
    ASSUME ListingOK,
           \/ listing' = NoListing
           \/ listing' = listing /\ (listing.state = "none" \/ Leafs(tree', listing.dir) = Leafs(tree, listing.dir))
    PROVE  ListingOK'
<1>1. CASE listing' = NoListing
  <2>1. NoListing \in Listings
    BY EmptySeq DEF NoListing, Listings
  <2> QED BY <1>1, <2>1 DEF ListingOK, NoListing
<1>2. CASE listing' = listing /\ listing.state = "none"
  BY <1>2 DEF ListingOK
<1>3. CASE listing' = listing /\ listing.state # "none" /\ Leafs(tree', listing.dir) = Leafs(tree, listing.dir)
  BY <1>3 DEF ListingOK, ListingIs
<1> QED BY <1>1, <1>2, <1>3

LEMMA SameLeafs ==
    ASSUME DOMAIN tree' = DOMAIN tree, NEW ro
    PROVE  Leafs(tree', ro) = Leafs(tree, ro)
BY DEF Leafs

LEMMA ListingStep == ~Retypes => (HostFsIInv /\ ListingOK /\ [Next]_vars => ListingOK')
<1> SUFFICES ASSUME ~Retypes, HostFsIInv, ListingOK, [Next]_vars PROVE ListingOK'
  OBVIOUS
<1>1. CASE UNCHANGED <<tree, listing>>
  BY <1>1, DisturbKeeps, SameLeafs
<1>2. CASE Disturb
  BY <1>2, DisturbKeeps DEF Disturb
<1>3. CASE listing' = listing /\ tree' \in Rewritten(Handles)
  <2>1. DOMAIN tree' = DOMAIN tree
    BY <1>3 DEF Rewritten
  <2> QED BY <1>3, <2>1, SameLeafs, DisturbKeeps
<1>4. CASE (\E supported \in BOOLEAN : hostfs_register(supported)) \/ Ignored \/ UNCHANGED vars
  <2>1. UNCHANGED <<tree, listing>>
    BY <1>4 DEF hostfs_register, Ignored, vars
  <2> QED BY <1>1, <2>1
<1>5. CASE hostfs_reset
  BY <1>5, DisturbKeeps DEF hostfs_reset
<1>6. ASSUME NEW h \in held, FileCall(h) PROVE ListingOK'
  <2>1. CASE Positioned(h)
    BY <1>3, <2>1, FlushOne DEF Positioned
  <2>2. CASE hostfs_close(h)
    BY <1>3, <2>2, FlushOne DEF hostfs_close
  <2>3. CASE \E n \in 0 .. MaxLen : hostfs_args_3_write_file_extent(h, n)
    <3>1. PICK n \in 0 .. MaxLen : hostfs_args_3_write_file_extent(h, n)
      BY <2>3
    <3>2. DOMAIN tree' = DOMAIN Flushed({h}) /\ listing' = listing
      BY <3>1 DEF hostfs_args_3_write_file_extent
    <3>3. DOMAIN tree' = DOMAIN tree
      BY <3>2, FlushOne DEF Rewritten
    <3> QED BY <3>2, <3>3, SameLeafs, DisturbKeeps
  <2>4. CASE \E off \in 0 .. MaxLen - 1, b \in Bytes, at_once \in BOOLEAN : hostfs_putbytes(h, off, b, at_once)
    <3>1. PICK off \in 0 .. MaxLen - 1, b \in Bytes, at_once \in BOOLEAN : hostfs_putbytes(h, off, b, at_once)
      BY <2>4
    <3>2. CASE ~open_file[h].update
      BY <2>1, <3>1, <3>2 DEF hostfs_putbytes
    <3>3. CASE open_file[h].update
      <4>1. DOMAIN tree' = DOMAIN Flushed({h}) /\ listing' = listing
        BY <3>1, <3>3 DEF hostfs_putbytes
      <4>2. DOMAIN tree' = DOMAIN tree
        BY <4>1, FlushOne DEF Rewritten
      <4> QED BY <4>1, <4>2, SameLeafs, DisturbKeeps
    <3> QED BY <3>2, <3>3
  <2> QED BY <1>6, <2>1, <2>2, <2>3, <2>4
          DEF FileCall, hostfs_getbytes, hostfs_args_7_ensure_file_size, hostfs_args_8_write_zeros
<1>7. ASSUME NEW ro \in Paths, ObjectCall(ro) PROVE ListingOK'
  <2>1. CASE \E update \in BOOLEAN : hostfs_open(ro, update)
    <3>1. UNCHANGED <<tree, listing>>
      BY <2>1 DEF hostfs_open, Quiet, vars
    <3> QED BY <1>1, <3>1
  <2>2. CASE \E t \in Types, d \in Contents : hostfs_write_file(ro, t, d)
    <3>1. UNCHANGED <<tree, listing>> \/ Disturb
      BY <2>2 DEF hostfs_write_file, Quiet, vars
    <3> QED BY <1>1, <1>2, <3>1
  <2>3. CASE \E t \in Types : hostfs_file_1_write_cat_info(ro, t)
    <3>1. UNCHANGED <<tree, listing>> \/ Disturb
      BY <2>3 DEF hostfs_file_1_write_cat_info, Quiet, vars
    <3> QED BY <1>1, <1>2, <3>1
  <2>4. CASE hostfs_file_6_delete(ro)
    <3>1. UNCHANGED <<tree, listing>> \/ Disturb
      BY <2>4 DEF hostfs_file_6_delete, Quiet, vars
    <3> QED BY <1>1, <1>2, <3>1
  <2>5. CASE hostfs_file_8_create_dir(ro)
    <3>1. UNCHANGED <<tree, listing>> \/ Disturb
      BY <2>5 DEF hostfs_file_8_create_dir, Quiet, vars
    <3> QED BY <1>1, <1>2, <3>1
  <2>6. CASE \E ro2 \in Paths : hostfs_func_8_rename(ro, ro2)
    <3>1. UNCHANGED <<tree, listing>> \/ Disturb
      BY <2>6 DEF hostfs_func_8_rename, Quiet, vars
    <3> QED BY <1>1, <1>2, <3>1
  <2> QED BY <1>7, <2>1, <2>2, <2>3, <2>4, <2>5, <2>6 DEF ObjectCall
<1>8. CASE ListCall
  <2>1. PICK room \in 1 .. 2 : \/ listing.state = "reading" /\ hostfs_read_dir(listing, room)
                               \/ \E ro \in Paths \cup {<<>>} : hostfs_read_dir(Start(ro), room)
    BY <1>8 DEF ListCall
  <2>2. CASE listing.state = "reading" /\ hostfs_read_dir(listing, room)
    <3>1. listing \in Listings /\ ListingIs(listing)
      BY <2>2 DEF ListingOK
    <3> QED BY <2>2, <3>1, ReadKeeps
  <2>3. ASSUME NEW ro \in Paths \cup {<<>>}, hostfs_read_dir(Start(ro), room) PROVE ListingOK'
    <3>1. Start(ro) \in Listings /\ Start(ro).state = "reading"
      BY EmptySeq DEF Start, Listings
    <3>2. ListingIs(Start(ro))
      <4> SUFFICES ASSUME NEW all, Lists(all, Leafs(tree, ro)) PROVE 0 \in 0 .. Len(all) /\ <<>> = SubSeq(all, 1, 0)
        BY DEF ListingIs, Start
      <4>1. Len(all) \in Nat
        BY LenProperties DEF Lists
      <4> QED BY <4>1, SubSeqEmpty
    <3> QED BY <2>3, <3>1, <3>2, ReadKeeps
  <2> QED BY <2>1, <2>2, <2>3
<1> QED BY <1>4, <1>5, <1>6, <1>7, <1>8 DEF Next

LEMMA ListingStart == Init => ListingOK
<1> SUFFICES ASSUME Init PROVE ListingOK
  OBVIOUS
<1>1. NoListing \in Listings
  BY EmptySeq DEF NoListing, Listings
<1> QED BY <1>1 DEF Init, ListingOK, NoListing

LEMMA ListingImplies == ~Retypes => (HostFsIInv /\ ListingOK => ListingComplete)
<1> SUFFICES ASSUME ~Retypes, HostFsIInv, ListingOK, listing.state = "done"
             PROVE  /\ Range(listing.got) = Leafs(tree, listing.dir)
                    /\ \A i, j \in DOMAIN listing.got : i < j => Rank[listing.got[i]] < Rank[listing.got[j]]
  BY DEF ListingComplete
<1>1. Range(listing.got) = Leafs(tree, listing.dir) /\ listing.dir \in Paths \cup {<<>>}
  BY DEF ListingOK, Listings
<1>2. PICK all : Lists(all, Leafs(tree, listing.dir))
  BY DEF ListingOK
<1>3. listing.off \in 0 .. Len(all) /\ listing.got = SubSeq(all, 1, listing.off)
  BY <1>2 DEF ListingOK, ListingIs
<1>4. all \in Seq(Leafs(tree, listing.dir)) /\ DOMAIN all = 1 .. Len(all) /\ Len(all) \in Nat
  BY <1>2, LenProperties DEF Lists
<1>5. /\ SubSeq(all, 1, listing.off) \in Seq(Leafs(tree, listing.dir)) /\ Len(SubSeq(all, 1, listing.off)) = listing.off
      /\ \A i \in 1 .. listing.off : SubSeq(all, 1, listing.off)[i] = all[i]
  <2>1. \A i \in 1 .. listing.off : all[i] \in Leafs(tree, listing.dir)
    BY <1>3, <1>4
  <2> QED BY <1>3, <2>1, SubSeqProperties
<1>6. DOMAIN listing.got = 1 .. listing.off
  BY <1>3, <1>5, LenProperties
<1>7. \A i, j \in DOMAIN all : i < j => Rank[all[i]] < Rank[all[j]]
  BY <1>2 DEF Lists
<1> QED BY <1>1, <1>3, <1>4, <1>5, <1>6, <1>7

\* A listing that reached the end of a directory nobody changed meanwhile has returned
\* every object once, in order, however many calls it took and wherever they began.
THEOREM ListingsAreComplete == ASSUME ~Retypes PROVE Spec => []ListingComplete
<1>1. Init => HostFsIInv /\ ListingOK
  BY HostFsStart, ListingStart
<1>2. HostFsIInv /\ ListingOK /\ [Next]_vars => (HostFsIInv /\ ListingOK)'
  BY HostFsStep, ListingStep
<1>3. HostFsIInv /\ ListingOK => ListingComplete
  BY ListingImplies
<1> QED BY <1>1, <1>2, <1>3, PTL DEF Spec

-----------------------------------------------------------------------------
\* The filing system that the guest sees.

\* The catalogue of a tree, and what it holds when names are unique.
CatalogueOf(t) ==
    [ro \in {RoPath(hp) : hp \in DOMAIN t} |->
       LET hp == CHOOSE hp \in DOMAIN t : RoPath(hp) = ro
       IN [kind |-> t[hp].kind, type |-> TypeOf(Last(hp)), data |-> t[hp].data]]

LEMMA CatalogueHolds ==
    ASSUME NEW t, \A p, q \in DOMAIN t : RoPath(p) = RoPath(q) => p = q
    PROVE  /\ DOMAIN CatalogueOf(t) = {RoPath(hp) : hp \in DOMAIN t}
           /\ CatalogueOf(t) = [ro \in {RoPath(hp) : hp \in DOMAIN t} |-> CatalogueOf(t)[ro]]
           /\ \A hp \in DOMAIN t : CatalogueOf(t)[RoPath(hp)] =
                [kind |-> t[hp].kind, type |-> TypeOf(Last(hp)), data |-> t[hp].data]
<1>1. ASSUME NEW hp \in DOMAIN t PROVE (CHOOSE p \in DOMAIN t : RoPath(p) = RoPath(hp)) = hp
  OBVIOUS
<1> QED BY <1>1 DEF CatalogueOf

LEMMA CatalogueNow ==
    ASSUME HostFsIInv, HostFsIInv', ~Retypes
    PROVE  /\ DOMAIN Catalogue = {RoPath(hp) : hp \in DOMAIN tree}
           /\ Catalogue = [ro \in {RoPath(hp) : hp \in DOMAIN tree} |-> Catalogue[ro]]
           /\ \A hp \in DOMAIN tree : Catalogue[RoPath(hp)] =
                [kind |-> tree[hp].kind, type |-> TypeOf(Last(hp)), data |-> tree[hp].data]
           /\ DOMAIN Catalogue' = {RoPath(hp) : hp \in DOMAIN tree'}
           /\ Catalogue' = [ro \in {RoPath(hp) : hp \in DOMAIN tree'} |-> Catalogue'[ro]]
           /\ \A hp \in DOMAIN tree' : Catalogue'[RoPath(hp)] =
                [kind |-> tree'[hp].kind, type |-> TypeOf(Last(hp)), data |-> tree'[hp].data]
<1>1. NamesUnique /\ NamesUnique'
  BY DEF HostFsIInv, Unique
<1>2. Catalogue = CatalogueOf(tree) /\ Catalogue' = CatalogueOf(tree')
  BY DEF Catalogue, CatalogueOf
<1>3. \A p, q \in DOMAIN tree : RoPath(p) = RoPath(q) => p = q
  BY <1>1 DEF NamesUnique
<1>4. \A p, q \in DOMAIN tree' : RoPath(p) = RoPath(q) => p = q
  BY <1>1 DEF NamesUnique
<1>5. /\ DOMAIN CatalogueOf(tree) = {RoPath(hp) : hp \in DOMAIN tree}
      /\ CatalogueOf(tree) = [ro \in {RoPath(hp) : hp \in DOMAIN tree} |-> CatalogueOf(tree)[ro]]
      /\ \A hp \in DOMAIN tree : CatalogueOf(tree)[RoPath(hp)] =
           [kind |-> tree[hp].kind, type |-> TypeOf(Last(hp)), data |-> tree[hp].data]
  BY <1>3, CatalogueHolds
<1>6. /\ DOMAIN CatalogueOf(tree') = {RoPath(hp) : hp \in DOMAIN tree'}
      /\ CatalogueOf(tree') = [ro \in {RoPath(hp) : hp \in DOMAIN tree'} |-> CatalogueOf(tree')[ro]]
      /\ \A hp \in DOMAIN tree' : CatalogueOf(tree')[RoPath(hp)] =
           [kind |-> tree'[hp].kind, type |-> TypeOf(Last(hp)), data |-> tree'[hp].data]
  BY <1>4, CatalogueHolds
<1> HIDE DEF Catalogue
<1> QED BY <1>2, <1>5, <1>6

LEMMA InCatalogue ==
    ASSUME HostFsIInv, HostFsIInv', ~Retypes, NEW hp \in DOMAIN tree
    PROVE  /\ RoPath(hp) \in DOMAIN Catalogue
           /\ Catalogue[RoPath(hp)].kind = tree[hp].kind
           /\ Catalogue[RoPath(hp)].type = TypeOf(Last(hp))
           /\ Catalogue[RoPath(hp)].data = tree[hp].data
<1>1. /\ DOMAIN Catalogue = {RoPath(p) : p \in DOMAIN tree}
      /\ \A p \in DOMAIN tree : Catalogue[RoPath(p)] =
           [kind |-> tree[p].kind, type |-> TypeOf(Last(p)), data |-> tree[p].data]
  BY CatalogueNow
<1>2. RoPath(hp) \in {RoPath(p) : p \in DOMAIN tree}
  OBVIOUS
<1>3. Catalogue[RoPath(hp)] = [kind |-> tree[hp].kind, type |-> TypeOf(Last(hp)), data |-> tree[hp].data]
  BY <1>1
<1>4. RoPath(hp) \in DOMAIN Catalogue
  BY <1>1, <1>2
<1> HIDE DEF Catalogue
<1> QED BY <1>3, <1>4

\* What the host writes out reaches files that are open for update only.
LEMMA FilingWrite ==
    ASSUME HostFsIInv, HostFsIInv', ~Retypes, tree' \in Rewritten(Handles)
    PROVE  FS!Write
<1> DEFINE writers == {RoPath(open_file[h].at) : h \in {h \in Used : open_file[h].update}}
           files == {p \in writers : p \in DOMAIN Catalogue /\ Catalogue[p].kind = "file"}
           C == [p \in files |-> Catalogue'[p].data]
<1>1. TreeOK /\ TreeOK' /\ FilesOK
  BY DEF HostFsIInv
<1>2. DOMAIN tree' = DOMAIN tree /\ \A q \in DOMAIN tree :
         \/ tree'[q] = tree[q]
         \/ tree'[q].kind = tree[q].kind /\ \E h \in Handles : open_file[h].update /\ open_file[h].at = q
  BY DEF Rewritten
<1>3. /\ DOMAIN Catalogue = {RoPath(hp) : hp \in DOMAIN tree}
      /\ \A hp \in DOMAIN tree : Catalogue[RoPath(hp)] =
           [kind |-> tree[hp].kind, type |-> TypeOf(Last(hp)), data |-> tree[hp].data]
      /\ DOMAIN Catalogue' = {RoPath(hp) : hp \in DOMAIN tree}
      /\ Catalogue' = [ro \in {RoPath(hp) : hp \in DOMAIN tree} |-> Catalogue'[ro]]
      /\ \A hp \in DOMAIN tree : Catalogue'[RoPath(hp)] =
           [kind |-> tree'[hp].kind, type |-> TypeOf(Last(hp)), data |-> tree'[hp].data]
  BY <1>2, CatalogueNow
<1>4. C \in [files -> Contents]
  <2>1. \A hp \in DOMAIN tree : tree'[hp].data \in Contents
    BY <1>1, <1>2 DEF TreeOK
  <2>2. ASSUME NEW p \in files PROVE Catalogue'[p].data \in Contents
    <3>1. PICK hp \in DOMAIN tree : p = RoPath(hp)
      BY <1>3
    <3>2. Catalogue'[p] = [kind |-> tree'[hp].kind, type |-> TypeOf(Last(hp)), data |-> tree'[hp].data]
      BY <1>3, <3>1
    <3> QED BY <2>1, <3>2
  <2> HIDE DEF files
  <2> QED BY <2>2
<1>5. ASSUME NEW p \in DOMAIN Catalogue
      PROVE  Catalogue'[p] = IF p \in DOMAIN C THEN [Catalogue[p] EXCEPT !.data = C[p]] ELSE Catalogue[p]
  <2>1. PICK hp \in DOMAIN tree : p = RoPath(hp)
    BY <1>3
  <2>2. /\ Catalogue[p] = [kind |-> tree[hp].kind, type |-> TypeOf(Last(hp)), data |-> tree[hp].data]
        /\ Catalogue'[p] = [kind |-> tree'[hp].kind, type |-> TypeOf(Last(hp)), data |-> tree'[hp].data]
    BY <1>3, <2>1
  <2>3. tree'[hp].kind = tree[hp].kind
    BY <1>2, <2>1
  <2>4. CASE p \in files
    <3>1. C[p] = tree'[hp].data /\ DOMAIN C = files
      BY <2>2, <2>4
    <3> HIDE DEF C, files
    <3> QED BY <2>2, <2>3, <2>4, <3>1
  <2>5. CASE p \notin files
    <3>1. tree'[hp] = tree[hp]
      <4> SUFFICES ASSUME NEW h \in Handles, open_file[h].update, open_file[h].at = hp PROVE FALSE
        BY <1>2, <2>1
      <4>1. open_file[h] # NULL /\ hp # Gone /\ h \in Used
        BY <1>1, <2>1, GoneNotThere DEF NULL, Used
      <4>2. tree[hp].kind = "file"
        BY <1>1, <4>1 DEF FilesOK
      <4>3. p \in writers
        BY <2>1, <4>1
      <4> QED BY <1>3, <2>1, <2>2, <2>5, <4>2, <4>3
    <3> QED BY <2>2, <2>5, <3>1
  <2> QED BY <2>4, <2>5
<1>6. Catalogue' = [p \in DOMAIN Catalogue |-> IF p \in DOMAIN C THEN [Catalogue[p] EXCEPT !.data = C[p]] ELSE Catalogue[p]]
  <2> HIDE DEF C
  <2> QED BY <1>3, <1>5
<1>7. \E D \in [files -> Contents] :
         Catalogue' = [p \in DOMAIN Catalogue |-> IF p \in DOMAIN D THEN [Catalogue[p] EXCEPT !.data = D[p]] ELSE Catalogue[p]]
  <2> HIDE DEF C, files
  <2> QED BY <1>4, <1>6
<1> HIDE DEF C
<1> QED BY <1>7 DEF FS!Write, FS!IsFile

LEMMA FilingStill ==
    ASSUME HostFsIInv, HostFsIInv', ~Retypes, tree' = tree
    PROVE  FS!Write
<1>1. tree' \in Rewritten(Handles)
  BY DEF HostFsIInv, TreeOK, Rewritten
<1> QED BY <1>1, FilingWrite

LEMMA FilingRoom ==
    ASSUME HostFsIInv, HostFsIInv', ~Retypes, NEW hp \in Seq(Made), hp # <<>>, IsDir(Front(hp))
    PROVE  FS!Room(RoPath(hp))
<1>1. /\ RoPath(Front(hp)) = Front(RoPath(hp)) /\ Len(RoPath(hp)) = Len(hp) /\ Len(hp) \in Nat \ {0}
      /\ Len(Front(hp)) = Len(hp) - 1 /\ Front(hp) \in Seq(Made)
  BY FrontFacts, RoPathFacts
<1>2. CASE Front(hp) = <<>>
  <2>1. Len(Front(hp)) = 0
    BY <1>2
  <2>2. Len(hp) = 1
    <3>1. Len(hp) - 1 = 0 /\ Len(hp) \in Nat
      BY <1>1, <2>1
    <3> QED BY <3>1
  <2> QED BY <1>1, <2>2 DEF FS!Room
<1>3. CASE Front(hp) # <<>>
  <2>1. Front(hp) \in DOMAIN tree /\ tree[Front(hp)].kind = "dir"
    BY <1>3 DEF IsDir
  <2>2. Front(RoPath(hp)) \in DOMAIN Catalogue /\ Catalogue[Front(RoPath(hp))].kind = "dir"
    <3>1. RoPath(Front(hp)) \in DOMAIN Catalogue /\ Catalogue[RoPath(Front(hp))].kind = "dir"
      BY <2>1, InCatalogue
    <3> QED BY <1>1, <3>1
  <2>3. FS!Front(RoPath(hp)) = Front(RoPath(hp))
    BY DEF FS!Front, Front
  <2> QED BY <2>2, <2>3 DEF FS!Room
<1> QED BY <1>2, <1>3

\* An object put into the tree is put into the catalogue.
LEMMA FilingPut ==
    ASSUME HostFsIInv, HostFsIInv', ~Retypes, NEW hp \in Seq(Made), hp # <<>>, NEW o, tree' = Put(tree, hp, o)
    PROVE  Catalogue' = FS!With(RoPath(hp), [kind |-> o.kind, type |-> TypeOf(Last(hp)), data |-> o.data])
<1> DEFINE c == [kind |-> o.kind, type |-> TypeOf(Last(hp)), data |-> o.data]
           p == RoPath(hp)
<1>1. DOMAIN tree' = DOMAIN tree \cup {hp} /\ tree'[hp] = o
      /\ \A q \in DOMAIN tree : q # hp => tree'[q] = tree[q]
  BY DEF Put
<1>2. /\ DOMAIN Catalogue = {RoPath(q) : q \in DOMAIN tree}
      /\ \A q \in DOMAIN tree : Catalogue[RoPath(q)] =
           [kind |-> tree[q].kind, type |-> TypeOf(Last(q)), data |-> tree[q].data]
      /\ DOMAIN Catalogue' = {RoPath(q) : q \in DOMAIN tree'}
      /\ Catalogue' = [ro \in {RoPath(q) : q \in DOMAIN tree'} |-> Catalogue'[ro]]
      /\ \A q \in DOMAIN tree' : Catalogue'[RoPath(q)] =
           [kind |-> tree'[q].kind, type |-> TypeOf(Last(q)), data |-> tree'[q].data]
  BY CatalogueNow
<1>3. {RoPath(q) : q \in DOMAIN tree'} = DOMAIN Catalogue \cup {p}
  BY <1>1, <1>2
<1>4. NamesUnique'
  BY DEF HostFsIInv, Unique
<1>5. ASSUME NEW q \in DOMAIN tree' PROVE Catalogue'[RoPath(q)] = IF RoPath(q) = p THEN c ELSE Catalogue[RoPath(q)]
  <2>1. CASE q = hp
    BY <1>1, <1>2, <2>1
  <2>2. CASE q # hp
    <3>1. RoPath(q) # p
      BY <1>1, <1>4, <2>2 DEF NamesUnique
    <3>2. q \in DOMAIN tree /\ tree'[q] = tree[q]
      BY <1>1, <2>2
    <3>3. Catalogue'[RoPath(q)] = [kind |-> tree'[q].kind, type |-> TypeOf(Last(q)), data |-> tree'[q].data]
      BY <1>2
    <3>4. Catalogue[RoPath(q)] = [kind |-> tree[q].kind, type |-> TypeOf(Last(q)), data |-> tree[q].data]
      BY <1>2, <3>2
    <3> HIDE DEF c, p
    <3> QED BY <3>1, <3>2, <3>3, <3>4
  <2> QED BY <2>1, <2>2
<1> HIDE DEF c, p
<1>6. \A r \in DOMAIN Catalogue \cup {p} : Catalogue'[r] = IF r = p THEN c ELSE Catalogue[r]
  BY <1>3, <1>5
<1>7. Catalogue' = [r \in DOMAIN Catalogue \cup {p} |-> IF r = p THEN c ELSE Catalogue[r]]
  BY <1>2, <1>3, <1>6
<1> QED BY <1>7 DEF FS!With, c, p

LEMMA FilingSave ==
    ASSUME HostFsIInv, HostFsIInv', ~Retypes, NEW ro \in Paths, NEW t \in Types, NEW d \in Contents,
           hostfs_write_file(ro, t, d)
    PROVE  FS!Write \/ FS!Save(ro, t, d)
<1>1. PICK w \in Process(ro) :
         /\ (w.found /\ ~Retypes) => TypeOf(Last(w.at)) = t
         /\ LET new == Construct(IF w.found THEN Front(w.at) ELSE w.at, ro, t)
            IN IF w.error \/ (w.found /\ IsDir(w.at)) \/ ~Writable(new) THEN Quiet
               ELSE /\ tree' = Put(tree, new, [kind |-> "file", data |-> d])
                    /\ Disturb /\ UNCHANGED <<open_file, held, hostfs_state>>
  BY DEF hostfs_write_file
<1> DEFINE new == Construct(IF w.found THEN Front(w.at) ELSE w.at, ro, t)
           o == [kind |-> "file", data |-> d]
<1>2. TreeOK /\ Unique
  BY DEF HostFsIInv
<1>3. CASE w.error \/ (w.found /\ IsDir(w.at)) \/ ~Writable(new)
  BY <1>1, <1>3, FilingStill DEF Quiet, vars
<1>4. CASE ~(w.error \/ (w.found /\ IsDir(w.at)) \/ ~Writable(new))
  <2>1. tree' = Put(tree, new, o)
    BY <1>1, <1>4
  <2>2. new \in Seq(Made) /\ new # <<>> /\ RoPath(new) = ro /\ TypeOf(Last(new)) = t
    BY <1>2, <1>4, NewObject, OldObject
  <2>3. IsDir(Front(new))
    BY <1>4 DEF Writable
  <2>4. FS!Room(ro)
    BY <2>2, <2>3, FilingRoom
  <2>5. ASSUME ro \in DOMAIN Catalogue PROVE Catalogue[ro].kind = "file" /\ Catalogue[ro].type = t
    <3>1. PICK q \in DOMAIN tree : RoPath(q) = ro
      BY <2>5, CatalogueNow
    <3>2. w.found
      BY <1>2, <1>4, <3>1, NewObject
    <3>3. w.at \in DOMAIN tree /\ RoPath(w.at) = ro
      BY <1>2, <3>2, OldObject
    <3>4. tree[w.at].kind = "file" /\ TypeOf(Last(w.at)) = t
      BY <1>1, <1>2, <1>4, <3>2, <3>3, TreeFacts DEF IsDir
    <3> QED BY <3>3, <3>4, InCatalogue
  <2> HIDE DEF new
  <2>6. Catalogue' = FS!With(ro, [kind |-> "file", type |-> t, data |-> d])
    <3>1. Catalogue' = FS!With(RoPath(new), [kind |-> o.kind, type |-> TypeOf(Last(new)), data |-> o.data])
      BY <2>1, <2>2, FilingPut
    <3> QED BY <2>2, <3>1
  <2> QED BY <2>4, <2>5, <2>6 DEF FS!Save, FS!IsFile
<1> QED BY <1>3, <1>4

\* A file that gets another type is known by the same path, with that type.
LEMMA FilingRetype ==
    ASSUME HostFsIInv, HostFsIInv', ~Retypes, NEW ro \in Paths, NEW t \in Types,
           hostfs_file_1_write_cat_info(ro, t)
    PROVE  FS!Write \/ FS!Retype(ro, t)
<1>1. PICK w \in Process(ro) :
         IF ~w.found \/ IsDir(w.at) THEN Quiet
         ELSE LET new == Construct(Front(w.at), ro, t)
              IN IF IsDir(new) THEN Quiet
                 ELSE HostRename(w.at, new) /\ Disturb /\ UNCHANGED <<held, hostfs_state>>
  BY DEF hostfs_file_1_write_cat_info
<1> DEFINE from == w.at
           to == Construct(Front(w.at), ro, t)
<1>2. TreeOK /\ NamesUnique
  BY DEF HostFsIInv, Unique
<1>3. CASE ~w.found \/ IsDir(w.at) \/ IsDir(to)
  BY <1>1, <1>3, FilingStill DEF Quiet, vars
<1>4. CASE ~(~w.found \/ IsDir(w.at) \/ IsDir(to))
  <2>1. HostRename(from, to)
    BY <1>1, <1>4
  <2>2. /\ from \in DOMAIN tree /\ RoPath(from) = ro
        /\ to \in Seq(Made) /\ RoPath(to) = ro /\ TypeOf(Last(to)) = t
    BY <1>2, <1>4, OldObject
  <2>3. tree[from].kind = "file" /\ ~IsDir(to)
    BY <1>2, <1>4, <2>2, TreeFacts DEF IsDir
  <2> HIDE DEF from, to
  <2>4. CASE to = from
    <3>1. tree' = tree
      <4>1. HostRename(from, from)
        BY <2>1, <2>4
      <4> QED BY <2>2, <4>1, RenameSelf DEF HostRename
    <3> QED BY <3>1, FilingStill
  <2>5. CASE to # from
    <3> DEFINE D == DOMAIN Catalogue
               c == [Catalogue EXCEPT ![ro].type = t]
    <3>1. /\ DOMAIN tree' = (DOMAIN tree \ {from}) \cup {to}
          /\ tree' = [q \in DOMAIN tree' |-> IF q = to THEN tree[from] ELSE tree[q]]
      BY <2>1, <2>2, <2>3, <2>5, RetypeIs DEF HostRename
    <3>2. /\ D = {RoPath(q) : q \in DOMAIN tree}
          /\ \A q \in DOMAIN tree : Catalogue[RoPath(q)] =
               [kind |-> tree[q].kind, type |-> TypeOf(Last(q)), data |-> tree[q].data]
          /\ DOMAIN Catalogue' = {RoPath(q) : q \in DOMAIN tree'}
          /\ Catalogue' = [r \in {RoPath(q) : q \in DOMAIN tree'} |-> Catalogue'[r]]
          /\ \A q \in DOMAIN tree' : Catalogue'[RoPath(q)] =
               [kind |-> tree'[q].kind, type |-> TypeOf(Last(q)), data |-> tree'[q].data]
      BY CatalogueNow
    <3>3. {RoPath(q) : q \in DOMAIN tree'} = D
      BY <2>2, <3>1, <3>2
    <3> HIDE DEF Catalogue, D
    <3>4. ro \in D /\ Catalogue[ro] = [kind |-> "file", type |-> TypeOf(Last(from)), data |-> tree[from].data]
      BY <2>2, <2>3, <3>2
    <3>5. Catalogue'[ro] = [kind |-> "file", type |-> t, data |-> tree[from].data]
      <4>1. to \in DOMAIN tree' /\ tree'[to] = tree[from]
        BY <3>1
      <4> QED BY <2>2, <2>3, <3>2, <4>1
    <3>6. ASSUME NEW r \in D, r # ro PROVE Catalogue'[r] = Catalogue[r]
      <4>1. PICK q \in DOMAIN tree' : r = RoPath(q)
        BY <3>3
      <4>2. q \in DOMAIN tree /\ tree'[q] = tree[q]
        BY <2>2, <3>1, <3>6, <4>1
      <4> QED BY <3>2, <4>1, <4>2
    <3>7. Catalogue'[ro] = [Catalogue[ro] EXCEPT !.type = t]
      BY <3>4, <3>5
    <3>8. Catalogue' = [r \in D |-> Catalogue'[r]]
      BY <3>2, <3>3
    <3>9. Catalogue = [r \in D |-> Catalogue[r]]
      <4>1. Catalogue = [r \in {RoPath(q) : q \in DOMAIN tree} |-> Catalogue[r]]
        BY CatalogueNow
      <4> QED BY <3>2, <4>1
    <3>10. c = [r \in D |-> IF r = ro THEN [Catalogue[ro] EXCEPT !.type = t] ELSE Catalogue[r]]
      BY <3>4, <3>9 DEF D
    <3> HIDE DEF c
    <3>11. Catalogue' = c
      BY <3>6, <3>7, <3>8, <3>10
    <3>12. FS!IsFile(ro)
      BY <3>4 DEF FS!IsFile, D
    <3> QED BY <3>11, <3>12 DEF FS!Retype, c
  <2> QED BY <2>4, <2>5
<1> QED BY <1>3, <1>4

LEMMA FilingMakeDir ==
    ASSUME HostFsIInv, HostFsIInv', ~Retypes, NEW ro \in Paths, hostfs_file_8_create_dir(ro)
    PROVE  FS!Write \/ FS!MakeDir(ro, DEFAULT)
<1>1. PICK w \in Process(ro) :
         LET new == Append(w.at, riscos_path_to_host(Last(ro)))
         IN IF w.found \/ w.error \/ ~IsDir(w.at) \/ new \in DOMAIN tree THEN Quiet
            ELSE /\ tree' = Put(tree, new, [kind |-> "dir", data |-> <<>>])
                 /\ Disturb /\ UNCHANGED <<open_file, held, hostfs_state>>
  BY DEF hostfs_file_8_create_dir
<1> DEFINE new == Append(w.at, riscos_path_to_host(Last(ro)))
           o == [kind |-> "dir", data |-> <<>>]
<1>2. TreeOK /\ Unique
  BY DEF HostFsIInv
<1>3. CASE w.found \/ w.error \/ ~IsDir(w.at) \/ new \in DOMAIN tree
  BY <1>1, <1>3, FilingStill DEF Quiet, vars
<1>4. CASE ~(w.found \/ w.error \/ ~IsDir(w.at) \/ new \in DOMAIN tree)
  <2>1. tree' = Put(tree, new, o)
    BY <1>1, <1>4
  <2>2. new = Construct(w.at, ro, DEFAULT) /\ DEFAULT \in Types
    BY PlainName
  <2>3. /\ new \in Seq(Made) /\ new # <<>> /\ RoPath(new) = ro /\ Front(new) = w.at
        /\ TypeOf(Last(new)) = DEFAULT /\ \A q \in DOMAIN tree : RoPath(q) # ro
    BY <1>2, <1>4, <2>2, NewObject
  <2>4. IsDir(Front(new))
    BY <1>4, <2>3
  <2> HIDE DEF new
  <2>5. FS!Room(ro)
    BY <2>3, <2>4, FilingRoom
  <2>6. DOMAIN Catalogue = {RoPath(q) : q \in DOMAIN tree}
    BY CatalogueNow
  <2>7. ro \notin DOMAIN Catalogue
    BY <2>3, <2>6
  <2>8. Catalogue' = FS!With(ro, [kind |-> "dir", type |-> DEFAULT, data |-> <<>>])
    <3>1. Catalogue' = FS!With(RoPath(new), [kind |-> o.kind, type |-> TypeOf(Last(new)), data |-> o.data])
      BY <2>1, <2>3, FilingPut
    <3> QED BY <2>3, <3>1
  <2> QED BY <2>5, <2>7, <2>8 DEF FS!MakeDir
<1> QED BY <1>3, <1>4

LEMMA FilingDelete ==
    ASSUME HostFsIInv, HostFsIInv', ~Retypes, NEW ro \in Paths, hostfs_file_6_delete(ro)
    PROVE  FS!Write \/ FS!Delete(ro)
<1>1. PICK w \in Process(ro) :
         IF ~w.found \/ (IsDir(w.at) /\ ReadDir(w.at) # {}) THEN Quiet
         ELSE /\ tree' = Restrict(tree, DOMAIN tree \ {w.at})
              /\ open_file' = [h \in Handles |->
                   IF open_file[h].at = w.at THEN [open_file[h] EXCEPT !.at = Gone] ELSE open_file[h]]
              /\ Disturb /\ UNCHANGED <<held, hostfs_state>>
  BY DEF hostfs_file_6_delete
<1>2. TreeOK /\ NamesUnique
  BY DEF HostFsIInv, Unique
<1>3. CASE ~w.found \/ (IsDir(w.at) /\ ReadDir(w.at) # {})
  BY <1>1, <1>3, FilingStill DEF Quiet, vars
<1>4. CASE ~(~w.found \/ (IsDir(w.at) /\ ReadDir(w.at) # {}))
  <2>1. tree' = Restrict(tree, DOMAIN tree \ {w.at})
    BY <1>1, <1>4
  <2>2. w.at \in DOMAIN tree /\ RoPath(w.at) = ro
    <3>1. DEFAULT \in Types
      BY DEF Types
    <3> QED BY <1>2, <1>4, <3>1, OldObject
  <2>3. DOMAIN tree' = DOMAIN tree \ {w.at} /\ \A q \in DOMAIN tree' : tree'[q] = tree[q]
    BY <2>1 DEF Restrict
  <2>4. /\ DOMAIN Catalogue = {RoPath(q) : q \in DOMAIN tree}
        /\ \A q \in DOMAIN tree : Catalogue[RoPath(q)] =
             [kind |-> tree[q].kind, type |-> TypeOf(Last(q)), data |-> tree[q].data]
        /\ DOMAIN Catalogue' = {RoPath(q) : q \in DOMAIN tree'}
        /\ Catalogue' = [r \in {RoPath(q) : q \in DOMAIN tree'} |-> Catalogue'[r]]
        /\ \A q \in DOMAIN tree' : Catalogue'[RoPath(q)] =
             [kind |-> tree'[q].kind, type |-> TypeOf(Last(q)), data |-> tree'[q].data]
    BY CatalogueNow
  <2> HIDE DEF Catalogue
  <2>5. {RoPath(q) : q \in DOMAIN tree'} = DOMAIN Catalogue \ {ro}
    <3>1. \A q \in DOMAIN tree : q # w.at => RoPath(q) # ro
      BY <1>2, <2>2 DEF NamesUnique
    <3> QED BY <2>2, <2>3, <2>4, <3>1
  <2>6. \A r \in DOMAIN Catalogue \ {ro} : Catalogue'[r] = Catalogue[r]
    <3> SUFFICES ASSUME NEW r \in DOMAIN Catalogue \ {ro} PROVE Catalogue'[r] = Catalogue[r]
      OBVIOUS
    <3>1. PICK q \in DOMAIN tree' : r = RoPath(q)
      BY <2>5
    <3>2. q \in DOMAIN tree /\ tree'[q] = tree[q]
      BY <2>3, <3>1
    <3> QED BY <2>4, <3>1, <3>2
  <2>7. Catalogue' = FS!Restrict(Catalogue, DOMAIN Catalogue \ {ro})
    BY <2>4, <2>5, <2>6 DEF FS!Restrict
  <2>8. FS!Under(ro) = {ro}
    <3>1. ASSUME NEW r \in DOMAIN Catalogue PROVE FS!IsPrefix(ro, r) <=> r = ro
      <4>1. PICK q \in DOMAIN tree : r = RoPath(q)
        BY <2>4, <3>1
      <4>2. FS!IsPrefix(ro, r) <=> IsPrefix(RoPath(w.at), RoPath(q))
        BY <2>2, <4>1 DEF FS!IsPrefix, IsPrefix
      <4>3. \A p \in DOMAIN tree : RoPath(w.at) = RoPath(p) => w.at = p
        BY <1>2, <2>2 DEF NamesUnique
      <4>4. IsPrefix(RoPath(w.at), RoPath(q)) <=> IsPrefix(w.at, q)
        BY <1>2, <2>2, <4>3, PrefixUnique
      <4>5. IsPrefix(w.at, q) <=> q = w.at
        <5>1. ~IsDir(w.at) \/ ReadDir(w.at) = {}
          BY <1>4
        <5>2. IsPrefix(w.at, q) => q = w.at
          BY <1>2, <2>2, <5>1, NothingBelow
        <5>3. w.at \in Seq(Made)
          BY <1>2, <2>2, TreeFacts
        <5>4. IsPrefix(w.at, w.at)
          BY <5>3, MovedSelf
        <5> QED BY <5>2, <5>4
      <4> QED BY <2>2, <4>1, <4>2, <4>3, <4>4, <4>5
    <3>2. ro \in DOMAIN Catalogue
      BY <2>2, <2>4
    <3> QED BY <3>1, <3>2 DEF FS!Under
  <2> QED BY <2>7, <2>8 DEF FS!Delete
<1> QED BY <1>3, <1>4

\* Where an object is moved to, in the guest's words and in the host's, and that its
\* type, the end of its name, comes along.
LEMMA MovedPath ==
    ASSUME TreeOK, NamesUnique, NEW from \in DOMAIN tree, NEW to \in Seq(Made), NEW r \in DOMAIN tree
    PROVE  RoPath(Moved(from, to, r)) = FS!Moved(RoPath(from), RoPath(to), RoPath(r))
<1> DEFINE m == Moved(from, to, r)
           n == Moved(RoPath(from), RoPath(to), RoPath(r))
<1>1. /\ from \in Seq(Made) /\ r \in Seq(Made) /\ Len(from) \in Nat /\ Len(to) \in Nat /\ Len(r) \in Nat
  BY TreeFacts, LenProperties
<1>2. /\ RoPath(from) \in Seq(Leaves) /\ Len(RoPath(from)) = Len(from)
      /\ RoPath(to) \in Seq(Leaves) /\ Len(RoPath(to)) = Len(to) /\ \A i \in 1 .. Len(to) : RoPath(to)[i] = RoLeaf(to[i])
      /\ RoPath(r) \in Seq(Leaves) /\ Len(RoPath(r)) = Len(r) /\ \A i \in 1 .. Len(r) : RoPath(r)[i] = RoLeaf(r[i])
  BY <1>1, RoPathFacts
<1>3. n = FS!Moved(RoPath(from), RoPath(to), RoPath(r))
  BY DEF Moved, FS!Moved, FS!IsPrefix, IsPrefix
<1>4. IsPrefix(RoPath(from), RoPath(r)) <=> IsPrefix(from, r)
  <2>1. \A p \in DOMAIN tree : RoPath(from) = RoPath(p) => from = p
    BY DEF NamesUnique
  <2> QED BY <2>1, PrefixUnique
<1>5. CASE ~IsPrefix(from, r)
  BY <1>3, <1>4, <1>5 DEF Moved
<1>6. CASE IsPrefix(from, r)
  <2>1. /\ m \in Seq(Made) /\ Len(from) <= Len(r)
        /\ Len(m) = Len(to) + (Len(r) - Len(from))
        /\ \A i \in 1 .. Len(to) : m[i] = to[i]
        /\ \A i \in 1 .. Len(r) - Len(from) : m[Len(to) + i] = r[Len(from) + i]
    <3>1. from \in Seq(Made) /\ to \in Seq(Made) /\ r \in Seq(Made) /\ IsPrefix(from, r)
      BY <1>1, <1>6
    <3>2. m \in Seq(Made) /\ Len(from) <= Len(r) /\ Len(m) = Len(to) + (Len(r) - Len(from))
      BY <3>1, MovedMade
    <3>3. \A i \in 1 .. Len(to) : m[i] = to[i]
      BY <3>1, MovedMade
    <3>4. \A i \in 1 .. Len(r) - Len(from) : m[Len(to) + i] = r[Len(from) + i]
      BY <3>1, MovedMade
    <3> QED BY <3>2, <3>3, <3>4
  <2>2. /\ n \in Seq(Leaves) /\ Len(n) = Len(to) + (Len(r) - Len(from))
        /\ \A i \in 1 .. Len(to) : n[i] = RoPath(to)[i]
        /\ \A i \in 1 .. Len(r) - Len(from) : n[Len(to) + i] = RoPath(r)[Len(from) + i]
    <3>1. /\ RoPath(from) \in Seq(Leaves) /\ RoPath(to) \in Seq(Leaves) /\ RoPath(r) \in Seq(Leaves)
          /\ IsPrefix(RoPath(from), RoPath(r))
      BY <1>2, <1>4, <1>6
    <3>2. /\ n \in Seq(Leaves)
          /\ Len(n) = Len(RoPath(to)) + (Len(RoPath(r)) - Len(RoPath(from)))
      BY <3>1, MovedIs
    <3>3. \A i \in 1 .. Len(RoPath(to)) : n[i] = RoPath(to)[i]
      BY <3>1, MovedIs
    <3>4. \A i \in 1 .. Len(RoPath(r)) - Len(RoPath(from)) : n[Len(RoPath(to)) + i] = RoPath(r)[Len(RoPath(from)) + i]
      BY <3>1, MovedIs
    <3> HIDE DEF n
    <3> QED BY <1>2, <3>2, <3>3, <3>4
  <2> HIDE DEF m, n
  <2>3. RoPath(m) \in Seq(Leaves) /\ Len(RoPath(m)) = Len(m) /\ \A i \in 1 .. Len(m) : RoPath(m)[i] = RoLeaf(m[i])
    BY <2>1, RoPathFacts
  <2>4. ASSUME NEW j \in 1 .. Len(m) PROVE RoPath(m)[j] = n[j]
    <3>1. CASE j <= Len(to)
      BY <1>1, <1>2, <2>1, <2>2, <2>3, <3>1
    <3>2. CASE ~(j <= Len(to))
      <4>1. PICK i \in 1 .. Len(r) - Len(from) : j = Len(to) + i
        <5>1. j - Len(to) \in 1 .. Len(r) - Len(from) /\ j = Len(to) + (j - Len(to))
          BY <1>1, <2>1, <3>2
        <5> QED BY <5>1
      <4>2. m[j] = r[Len(from) + i] /\ n[j] = RoPath(r)[Len(from) + i]
        BY <2>1, <2>2, <4>1
      <4>3. Len(from) + i \in 1 .. Len(r)
        BY <1>1, <2>1
      <4> QED BY <1>2, <2>3, <4>2, <4>3
    <3> QED BY <3>1, <3>2
  <2>5. RoPath(m) = n
    BY <2>1, <2>2, <2>3, <2>4, SeqEqual
  <2> QED BY <1>3, <2>5 DEF m, n
<1> QED BY <1>5, <1>6

LEMMA MovedType ==
    ASSUME TreeOK, NEW from \in DOMAIN tree, NEW to \in Seq(Made), to # <<>>,
           TypeOf(Last(to)) = TypeOf(Last(from)), NEW r \in DOMAIN tree
    PROVE  TypeOf(Last(Moved(from, to, r))) = TypeOf(Last(r))
<1> DEFINE m == Moved(from, to, r)
<1>1. /\ from \in Seq(Made) /\ r \in Seq(Made) /\ Len(from) \in Nat /\ Len(to) \in Nat \ {0} /\ Len(r) \in Nat
  BY TreeFacts, EmptySeq
<1>2. CASE ~IsPrefix(from, r)
  BY <1>2 DEF Moved
<1>3. CASE IsPrefix(from, r)
  <2>1. /\ m \in Seq(Made) /\ Len(from) <= Len(r) /\ \A i \in 1 .. Len(from) : from[i] = r[i]
        /\ Len(m) = Len(to) + (Len(r) - Len(from))
        /\ \A i \in 1 .. Len(r) - Len(from) : m[Len(to) + i] = r[Len(from) + i]
    <3>1. from \in Seq(Made) /\ r \in Seq(Made) /\ IsPrefix(from, r)
      BY <1>1, <1>3
    <3>2. m \in Seq(Made) /\ Len(from) <= Len(r) /\ \A i \in 1 .. Len(from) : from[i] = r[i]
      BY <3>1, MovedMade
    <3>3. Len(m) = Len(to) + (Len(r) - Len(from))
      BY <3>1, MovedMade
    <3>4. \A i \in 1 .. Len(r) - Len(from) : m[Len(to) + i] = r[Len(from) + i]
      BY <3>1, MovedMade
    <3> QED BY <3>2, <3>3, <3>4
  <2>2. CASE Len(r) = Len(from)
    <3>1. r = from
      BY <1>1, <2>1, <2>2, SeqEqual
    <3>2. m = to
      BY <1>1, <3>1, MovedSelf
    <3> QED BY <3>1, <3>2
  <2>3. CASE Len(r) # Len(from)
    <3>1. Len(r) - Len(from) \in 1 .. Len(r) - Len(from) /\ Len(from) + (Len(r) - Len(from)) = Len(r)
      BY <1>1, <2>1, <2>3
    <3>2. m[Len(to) + (Len(r) - Len(from))] = r[Len(from) + (Len(r) - Len(from))]
      BY <2>1, <3>1
    <3>3. Last(m) = Last(r)
      BY <2>1, <3>1, <3>2 DEF Last
    <3> QED BY <3>3
  <2> QED BY <2>2, <2>3
<1> QED BY <1>2, <1>3

\* A rename moves the object and all that lies below it, types and data with them.
LEMMA FilingRename ==
    ASSUME HostFsIInv, HostFsIInv', ~Retypes, NEW ro1 \in Paths, NEW ro2 \in Paths, hostfs_func_8_rename(ro1, ro2)
    PROVE  FS!Write \/ FS!Rename(ro1, ro2)
<1>1. PICK w1 \in Process(ro1), w2 \in Process(ro2) :
         LET new == Construct(IF w2.found THEN Front(w2.at) ELSE w2.at, ro2, TypeOf(Last(w1.at)))
         IN IF \/ ~w1.found \/ (w2.found /\ ro1 # ro2) \/ w2.error
               \/ ~IsDir(Front(new)) \/ (IsPrefix(w1.at, new) /\ w1.at # new)
            THEN Quiet
            ELSE /\ \A q \in DOMAIN tree : RoPath(Moved(w1.at, new, q)) \in Paths
                 /\ HostRename(w1.at, new) /\ Disturb /\ UNCHANGED <<held, hostfs_state>>
  BY DEF hostfs_func_8_rename
<1> DEFINE from == w1.at
           to == Construct(IF w2.found THEN Front(w2.at) ELSE w2.at, ro2, TypeOf(Last(w1.at)))
           fails == \/ ~w1.found \/ (w2.found /\ ro1 # ro2) \/ w2.error
                    \/ ~IsDir(Front(to)) \/ (IsPrefix(from, to) /\ from # to)
<1>2. TreeOK /\ Unique /\ NamesUnique /\ FilesOK
  BY DEF HostFsIInv, Unique
<1>3. CASE fails
  BY <1>1, <1>3, FilingStill DEF Quiet, vars
<1>4. CASE ~fails
  <2>1. HostRename(from, to) /\ \A q \in DOMAIN tree : RoPath(Moved(from, to, q)) \in Paths
    BY <1>1, <1>4
  <2>2. from \in DOMAIN tree /\ RoPath(from) = ro1 /\ TypeOf(Last(from)) \in Types
    <3>1. DEFAULT \in Types
      BY DEF Types
    <3> QED BY <1>2, <1>4, <3>1, OldObject
  <2>3. CASE w2.found
    <3>1. ro1 = ro2
      BY <1>4, <2>3
    <3>2. w2.at = from
      <4>1. w2.at \in DOMAIN tree /\ RoPath(w2.at) = ro2
        BY <1>2, <2>2, <2>3, OldObject
      <4> QED BY <1>2, <2>2, <3>1, <4>1 DEF NamesUnique
    <3>3. to = from
      <4>1. from \in Seq(Made) /\ from # <<>>
        BY <1>2, <2>2, TreeFacts
      <4>2. Construct(Front(from), ro1, TypeOf(Last(from))) = from
        BY <2>2, <4>1, HostPathOf
      <4> QED BY <2>3, <3>1, <3>2, <4>2
    <3>4. tree' = tree
      <4>1. HostRename(from, from)
        BY <2>1, <3>3
      <4> QED BY <2>2, <4>1, RenameSelf DEF HostRename
    <3> QED BY <3>4, FilingStill
  <2>4. CASE ~w2.found
    <3>1. /\ to \in Seq(Made) /\ to # <<>> /\ RoPath(to) = ro2 /\ to \notin DOMAIN tree
          /\ TypeOf(Last(to)) = TypeOf(Last(from))
          /\ \A q \in DOMAIN tree : RoPath(q) # ro2 /\ ~IsPrefix(ro2, RoPath(q))
      BY <1>2, <1>4, <2>2, <2>4, NewObject
    <3>2. IsDir(Front(to)) /\ ~IsPrefix(from, to)
      BY <1>4, <2>2, <3>1
    <3> HIDE DEF from, to
    <3>3. Renames(from, to)
      BY <2>1, <2>2, <3>1, <3>2 DEF Renames
    <3>4. /\ DOMAIN tree' = {Moved(from, to, r) : r \in DOMAIN tree}
          /\ \A r \in DOMAIN tree : tree'[Moved(from, to, r)] = tree[r]
      BY <1>2, <2>1, <3>3, RenameIs DEF HostRename
    <3>5. /\ DOMAIN Catalogue = {RoPath(q) : q \in DOMAIN tree}
          /\ \A q \in DOMAIN tree : Catalogue[RoPath(q)] =
               [kind |-> tree[q].kind, type |-> TypeOf(Last(q)), data |-> tree[q].data]
          /\ DOMAIN Catalogue' = {RoPath(q) : q \in DOMAIN tree'}
          /\ \A q \in DOMAIN tree' : Catalogue'[RoPath(q)] =
               [kind |-> tree'[q].kind, type |-> TypeOf(Last(q)), data |-> tree'[q].data]
      BY CatalogueNow
    <3>6. FS!Room(ro2)
      BY <3>1, <3>2, FilingRoom
    <3> HIDE DEF Catalogue
    <3>7. ro1 \in DOMAIN Catalogue /\ ro2 \notin DOMAIN Catalogue
      BY <2>2, <3>1, <3>5
    <3>8. \A r \in DOMAIN tree : RoPath(Moved(from, to, r)) = FS!Moved(ro1, ro2, RoPath(r))
      <4> SUFFICES ASSUME NEW r \in DOMAIN tree
                   PROVE  RoPath(Moved(from, to, r)) = FS!Moved(ro1, ro2, RoPath(r))
        OBVIOUS
      <4>1. RoPath(Moved(from, to, r)) = FS!Moved(RoPath(from), RoPath(to), RoPath(r))
        BY <1>2, <2>2, <3>1, MovedPath
      <4> QED BY <2>2, <3>1, <4>1
    <3>9. DOMAIN Catalogue' = {FS!Moved(ro1, ro2, r) : r \in DOMAIN Catalogue}
      BY <3>4, <3>5, <3>8
    <3>10. ASSUME NEW r \in DOMAIN Catalogue PROVE Catalogue'[FS!Moved(ro1, ro2, r)] = Catalogue[r]
      <4>1. PICK q \in DOMAIN tree : r = RoPath(q)
        BY <3>5
      <4>2. Moved(from, to, q) \in DOMAIN tree' /\ tree'[Moved(from, to, q)] = tree[q]
        BY <3>4
      <4>3. TypeOf(Last(Moved(from, to, q))) = TypeOf(Last(q))
        BY <1>2, <2>2, <3>1, MovedType
      <4>4. FS!Moved(ro1, ro2, r) = RoPath(Moved(from, to, q))
        BY <3>8, <4>1
      <4> QED BY <3>5, <4>1, <4>2, <4>3, <4>4
    <3> QED BY <3>6, <3>7, <3>9, <3>10 DEF FS!Rename
  <2> QED BY <2>3, <2>4
<1> QED BY <1>3, <1>4

LEMMA FilingStep ==
    ASSUME ~Retypes, HostFsIInv, HostFsIInv', [Next]_vars
    PROVE  FS!Next
<1>1. FS!Write => FS!Next
  BY DEF FS!Next
<1>2. CASE UNCHANGED vars \/ (\E supported \in BOOLEAN : hostfs_register(supported)) \/ Ignored \/ ListCall
  <2>1. tree' = tree
    BY <1>2 DEF vars, hostfs_register, Ignored, ListCall, hostfs_read_dir
  <2> QED BY <1>1, <2>1, FilingStill
<1>3. CASE hostfs_reset
  <2>1. tree' \in Rewritten(Used)
    BY <1>3, FlushedIs DEF hostfs_reset, HostFsIInv, Used
  <2>2. tree' \in Rewritten(Handles)
    BY <2>1 DEF Rewritten, Used
  <2> QED BY <1>1, <2>2, FilingWrite
<1>4. ASSUME NEW h \in held, FileCall(h) PROVE FS!Next
  <2>1. tree' \in Rewritten(Handles)
    <3>1. CASE \/ hostfs_getbytes(h) \/ hostfs_args_7_ensure_file_size(h) \/ hostfs_args_8_write_zeros(h)
               \/ hostfs_close(h)
      BY <3>1, FlushOne DEF hostfs_getbytes, hostfs_args_7_ensure_file_size, hostfs_args_8_write_zeros,
         hostfs_close, Positioned
    <3>2. CASE \E n \in 0 .. MaxLen : hostfs_args_3_write_file_extent(h, n)
      BY <3>2, ExtentWrites
    <3>3. CASE \E off \in 0 .. MaxLen - 1, b \in Bytes, at_once \in BOOLEAN : hostfs_putbytes(h, off, b, at_once)
      BY <3>3, PutBytesWrites
    <3> QED BY <1>4, <3>1, <3>2, <3>3 DEF FileCall
  <2> QED BY <1>1, <2>1, FilingWrite
<1>5. ASSUME NEW ro \in Paths, ObjectCall(ro) PROVE FS!Next
  <2>1. CASE \E update \in BOOLEAN : hostfs_open(ro, update)
    <3>1. tree' = tree
      BY <2>1 DEF hostfs_open, Quiet, vars
    <3> QED BY <1>1, <3>1, FilingStill
  <2>2. ASSUME NEW t \in Types, NEW d \in Contents, hostfs_write_file(ro, t, d) PROVE FS!Next
    <3>1. FS!Write \/ FS!Save(ro, t, d)
      BY <2>2, FilingSave
    <3> QED BY <1>1, <3>1 DEF FS!Next
  <2>3. ASSUME NEW t \in Types, hostfs_file_1_write_cat_info(ro, t) PROVE FS!Next
    <3>1. FS!Write \/ FS!Retype(ro, t)
      BY <2>3, FilingRetype
    <3> QED BY <1>1, <3>1 DEF FS!Next
  <2>4. CASE hostfs_file_6_delete(ro)
    <3>1. FS!Write \/ FS!Delete(ro)
      BY <2>4, FilingDelete
    <3> QED BY <1>1, <3>1 DEF FS!Next
  <2>5. CASE hostfs_file_8_create_dir(ro)
    <3>1. FS!Write \/ FS!MakeDir(ro, DEFAULT)
      BY <2>5, FilingMakeDir
    <3>2. DEFAULT \in Types
      BY DEF Types
    <3> QED BY <1>1, <3>1, <3>2 DEF FS!Next
  <2>6. ASSUME NEW ro2 \in Paths, hostfs_func_8_rename(ro, ro2) PROVE FS!Next
    <3>1. FS!Write \/ FS!Rename(ro, ro2)
      BY <2>6, FilingRename
    <3> QED BY <1>1, <3>1 DEF FS!Next
  <2> QED BY <1>5, <2>1, <2>2, <2>3, <2>4, <2>5, <2>6 DEF ObjectCall
<1> QED BY <1>2, <1>3, <1>4, <1>5 DEF Next

\* Seen through the name conversion, each call does what the guest's filing system
\* promises: it changes only what it names, a rename takes along everything below the
\* object with its type and data, and data changes only in files open for update.
THEOREM HostFsIsAFilingSystem == ASSUME ~Retypes PROVE Spec => Filing
<1> DEFINE writers == {RoPath(open_file[h].at) : h \in {h \in Used : open_file[h].update}}
<1>1. Init => FS!Init
  BY DEF FS!Init, Init, Used
<1>2. HostFsIInv /\ HostFsIInv' /\ [Next]_vars => [FS!Next]_<<Catalogue, writers>>
  BY FilingStep
<1>3. Spec => []HostFsIInv
  BY HostFsStart, HostFsStep, PTL DEF Spec
<1>4. Spec => FS!Init /\ [][FS!Next]_<<Catalogue, writers>>
  BY <1>1, <1>2, <1>3, PTL DEF Spec
<1>5. FS!Init /\ [][FS!Next]_<<Catalogue, writers>> => Filing
  BY DEF Filing, FS!Spec
<1> HIDE DEF writers
<1> QED BY <1>4, <1>5, PTL
=============================================================================
