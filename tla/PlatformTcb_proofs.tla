------------------------- MODULE PlatformTcb_proofs -------------------------
(***************************************************************************)
(* Proofs about module PlatformTcb, for any number of components, any      *)
(* certificates, quotes and TCB Info documents.                            *)
(* For the searches, what counts is that they stop at the entries of a     *)
(* certificate and nowhere else (NamedIsEntry); for the loops, what each   *)
(* early return leaves to those after it (DecisionInv).                    *)
(***************************************************************************)
EXTENDS PlatformTcb, WellFoundedInduction, SequenceTheorems, TLAPS

LEMMA Least ==
    ASSUME NEW I, I \subseteq Nat, I # {}
    PROVE  \E x \in I : \A y \in I : x <= y
  <1>1. IsWellFoundedOn(OpToRel(<, Nat), Nat)
    BY NatLessThanWellFounded
  <1> DEFINE R == OpToRel(<, Nat)
  <1>2. \A x, y \in Nat : y < x => <<y, x>> \in R
    BY DEF OpToRel
  <1> HIDE DEF R
  <1>3. PICK x \in I : \A y \in I : <<y, x>> \notin R
    BY <1>1, WFMin DEF R
  <1>4. \A y \in I : y \in Nat /\ ~ y < x
    BY <1>2, <1>3
  <1>5. \A y \in I : x <= y
    BY <1>4
  <1> QED BY <1>5

\* Where the first met level of a list is, and what there being none says.
LEMMA FirstMet ==
    ASSUME NEW have, NEW tdxSVNs, NEW levels \in Seq(Level)
    PROVE  LET n == MatchedTCBLevel(have, tdxSVNs, levels)
               met(i) == PlatformTCBMeetsLevel(have, tdxSVNs, levels[i])
           IN  \/ /\ n = 0
                  /\ \A i \in 1..Len(levels) : ~met(i)
               \/ /\ n \in 1..Len(levels) /\ met(n)
                  /\ \A i \in 1..Len(levels) : met(i) => n <= i
  <1> DEFINE met(i) == PlatformTCBMeetsLevel(have, tdxSVNs, levels[i])
             I == {i \in 1..Len(levels) : met(i)}
             n == MatchedTCBLevel(have, tdxSVNs, levels)
  <1>1. n = IF I # {} THEN Min(I) ELSE 0
    BY DEF MatchedTCBLevel, SelectInSeq
  <1>2. CASE I = {}
    BY <1>1, <1>2
  <1>3. CASE I # {}
    <2>1. I \in SUBSET Nat /\ I # {}
      BY <1>3
    <2>2. PICK least \in I : \A i \in I : least <= i
      BY <2>1, Least
    <2>3. Min(I) \in I /\ \A i \in I : Min(I) <= i
      BY <2>2 DEF Min
    <2> QED BY <1>1, <1>3, <2>3
  <1> QED BY <1>2, <1>3
----------------------------------------------------------------------------
(* What is read, and its types *)

\* An integer looked up in the root extension is one.
LEMMA IntTyped ==
    ASSUME NEW c \in Certificate, NEW oid, IntInRoot(c, oid)
    PROVE  RootValue(c, oid).value \in Nat
  <1> DEFINE n == ExtensionRoot(c)
             I == {i \in 1..Len(c.extensions) : c.extensions[i].id = RootOID}
             tree == c.extensions[n].tree
             N == Named(tree, oid)
             k == CHOOSE i \in N : \A j \in N : i <= j
  <1>1. Len(c.extensions) \in Nat
    BY CertificateAssumption
  <1>2. n # 0 /\ n = IF I # {} THEN Min(I) ELSE 0
    BY DEF ExtensionRoot, SelectInSeq, IntInRoot, InRoot
  <1>3. n \in I
    <2>1. I \subseteq Nat /\ I # {}
      BY <1>1, <1>2
    <2>2. \E x \in I : \A y \in I : x <= y
      BY <2>1, Least
    <2> QED BY <1>2, <2>1, <2>2 DEF Min
  <1>4. n \in 1..Len(c.extensions)
    BY <1>3
  <1>5. Len(tree) \in Nat /\ \A i \in 1..Len(tree) : tree[i].tag = "int" => tree[i].value \in Nat
    BY <1>4, CertificateAssumption
  <1>6. N \subseteq 2..(Len(tree) - 1) /\ N # {}
    BY DEF Named, Found, InRoot, IntInRoot
  <1> HIDE DEF N
  <1>7. N \subseteq Nat
    BY <1>5, <1>6
  <1>8. k \in N
    <2>1. \E x \in N : \A y \in N : x <= y
      BY <1>6, <1>7, Least
    <2> QED BY <2>1
  <1>9. 1 + k \in 1..Len(tree)
    <2> HIDE DEF k
    <2> QED BY <1>5, <1>6, <1>8
  <1>10. RootValue(c, oid) = tree[1 + k]
    BY DEF RootValue, ValueOf, N
  <1>11. tree[1 + k].tag = "int"
    BY <1>10 DEF IntInRoot
  <1> HIDE DEF k, tree
  <1> QED BY <1>5, <1>9, <1>10, <1>11

----------------------------------------------------------------------------
(* The searches find the entries *)

\* What an OID leads to is what the entry of that name holds: an OID that is a
\* value is passed over.
LEMMA NamedIsEntry ==
    ASSUME NEW tree, Len(tree) \in Nat, Written(tree), NEW oid
    PROVE  /\ \A i \in Named(tree, oid) :
                  i \in Nat /\ i - 1 \in Entries(tree) /\ tree[(i - 1) + 1].value = oid
           /\ \A j \in Entries(tree) : tree[j + 1].value = oid => j + 1 \in Named(tree, oid)
  <1>1. ASSUME NEW i \in Named(tree, oid)
        PROVE  i \in Nat /\ i - 1 \in Entries(tree) /\ tree[(i - 1) + 1].value = oid
    <2>1. /\ i \in 2..(Len(tree) - 1) /\ tree[i].tag = "oid" /\ tree[i].value = oid
          /\ tree[i + 1].depth = tree[i].depth
      BY DEF Named
    <2>2. tree[i].depth \in Nat
      BY <2>1 DEF Written
    <2>3. i - 1 \in Entries(tree)
      <3>1. ~(tree[i + 1].depth < tree[i].depth)
        BY <2>1, <2>2
      <3> QED BY <2>1, <3>1 DEF Written
    <2>4. (i - 1) + 1 = i
      BY <2>1
    <2> QED BY <2>1, <2>3, <2>4
  <1>2. ASSUME NEW j \in Entries(tree), tree[j + 1].value = oid
        PROVE  j + 1 \in Named(tree, oid)
    <2>1. /\ j \in 1..(Len(tree) - 2) /\ tree[j + 1].tag = "oid"
          /\ tree[j + 2].depth = tree[j + 1].depth
      BY DEF Entries
    <2>2. j + 1 \in 2..(Len(tree) - 1) /\ (j + 1) + 1 = j + 2
      BY <2>1
    <2> QED BY <1>2, <2>1, <2>2 DEF Named
  <1> QED BY <1>1, <1>2

\* findASN1ValueByOID finds the value an entry holds under that name, and
\* nothing if there is no such entry.
LEMMA SearchFinds ==
    ASSUME NEW tree, Len(tree) \in Nat, Written(tree), NEW oid
    PROVE  /\ Found(tree, oid) <=> Values(tree, oid) # {}
           /\ Found(tree, oid) => Values(tree, oid) = {ValueOf(tree, oid)}
  <1> DEFINE N == Named(tree, oid)
             k == CHOOSE i \in N : \A j \in N : i <= j
             E == {j \in Entries(tree) : tree[j + 1].value = oid}
  <1>1. /\ \A i \in N : i \in Nat /\ i - 1 \in E
        /\ \A j \in E : j + 1 \in N
    BY NamedIsEntry
  <1>2. \A i, j \in E : i = j
    BY DEF Written
  <1>3. Values(tree, oid) = {tree[j + 2] : j \in E}
    BY DEF Values
  <1>4. Found(tree, oid) <=> N # {}
    BY DEF Found
  <1>5. ValueOf(tree, oid) = tree[1 + k]
    BY DEF ValueOf
  <1>6. E \subseteq Nat
    BY DEF Entries
  <1> HIDE DEF N, E
  <1>7. N # {} <=> E # {}
    BY <1>1
  <1>8. ASSUME N # {}
        PROVE  \E j \in E : 1 + k = j + 2
    <2>1. N \subseteq Nat
      BY <1>1
    <2>2. \E x \in N : \A y \in N : x <= y
      BY <1>8, <2>1, Least
    <2>3. k \in N
      BY <2>2
    <2> HIDE DEF k
    <2>4. k \in Nat /\ k - 1 \in E
      BY <1>1, <2>3
    <2>5. 1 + k = (k - 1) + 2
      BY <2>4
    <2> QED BY <2>4, <2>5
  <1> HIDE DEF k
  <1>9. Values(tree, oid) # {} <=> E # {}
    BY <1>3
  <1>10. ASSUME N # {}
         PROVE  Values(tree, oid) = {tree[1 + k]}
    <2>1. PICK j \in E : 1 + k = j + 2
      BY <1>8, <1>10
    <2>2. E = {j}
      BY <1>2, <2>1
    <2> QED BY <1>3, <2>1, <2>2
  <1> QED BY <1>4, <1>5, <1>7, <1>9, <1>10

\* The one root extension is the one that is searched.
LEMMA RootFound ==
    ASSUME NEW c \in Certificate, LayoutOK(c)
    PROVE  LET I == {m \in 1..Len(c.extensions) : c.extensions[m].id = RootOID}
           IN  IF ExtensionRoot(c) = 0 THEN I = {} ELSE I = {ExtensionRoot(c)}
  <1> DEFINE I == {m \in 1..Len(c.extensions) : c.extensions[m].id = RootOID}
             n == ExtensionRoot(c)
  <1>1. Len(c.extensions) \in Nat
    BY CertificateAssumption
  <1>2. n = IF I # {} THEN Min(I) ELSE 0
    BY DEF ExtensionRoot, SelectInSeq
  <1>3. CASE I = {}
    BY <1>2, <1>3
  <1>4. CASE I # {}
    <2>1. I \subseteq Nat
      BY <1>1
    <2>2. \E x \in I : \A y \in I : x <= y
      BY <1>4, <2>1, Least
    <2>3. n \in I
      BY <1>2, <1>4, <2>2 DEF Min
    <2>4. \A m \in I : m = n
      BY <2>3 DEF LayoutOK
    <2>5. n # 0
      BY <1>1, <2>3
    <2> HIDE DEF n, I
    <2>6. I = {n}
      BY <2>3, <2>4
    <2> QED BY <2>5, <2>6 DEF n, I
  <1> QED BY <1>3, <1>4

LEMMA RootFinds ==
    ASSUME NEW c \in Certificate, LayoutOK(c), NEW oid
    PROVE  /\ InRoot(c, oid) <=> RootValues(c, oid) # {}
           /\ InRoot(c, oid) => RootValues(c, oid) = {RootValue(c, oid)}
  <1> DEFINE I == {m \in 1..Len(c.extensions) : c.extensions[m].id = RootOID}
             n == ExtensionRoot(c)
             tree == c.extensions[n].tree
  <1>1. IF n = 0 THEN I = {} ELSE I = {n}
    BY RootFound
  <1>2. CASE n = 0
    <2>1. RootValues(c, oid) = {}
      BY <1>1, <1>2 DEF RootValues
    <2> QED BY <1>2, <2>1 DEF InRoot
  <1>3. CASE n # 0
    <2>1. I = {n} /\ n \in 1..Len(c.extensions)
      BY <1>1, <1>3
    <2>2. RootValues(c, oid) = Values(tree, oid)
      BY <2>1 DEF RootValues
    <2>3. Len(tree) \in Nat /\ Written(tree)
      BY <2>1, CertificateAssumption DEF LayoutOK
    <2>4. /\ Found(tree, oid) <=> Values(tree, oid) # {}
          /\ Found(tree, oid) => Values(tree, oid) = {ValueOf(tree, oid)}
      BY <2>3, SearchFinds
    <2> QED BY <1>3, <2>2, <2>4 DEF InRoot, RootValue
  <1> QED BY <1>2, <1>3

\* The content of an octet string of some size.
LEMMA UnwrapOctets ==
    ASSUME NEW v, v.tag = "octets", v.size \in Nat \ {0}, NEW size
    PROVE  Unwrap(v).size = v.size /\ Unwrap(v).bytes = v.value
           /\ BytesOfSize(Unwrap(v), size) = OctetsOfSize(v, size)
  <1>1. v.size > 0
    OBVIOUS
  <1> QED BY <1>1 DEF Unwrap, BytesOfSize, OctetsOfSize

LEMMA PCEIDFound ==
    ASSUME NEW c \in Certificate, LayoutOK(c), HoldsPCEID(c)
    PROVE  ExtractPCEID(c) = c.holds.pceid
  <1> DEFINE V == RootValues(c, PCEIDOID)
             v == RootValue(c, PCEIDOID)
  <1>1. InRoot(c, PCEIDOID) <=> V # {}
    BY RootFinds
  <1>2. InRoot(c, PCEIDOID) => V = {v}
    BY RootFinds
  <1>3. CASE V = {}
    BY <1>1, <1>3 DEF HoldsPCEID, ExtractPCEID
  <1>4. CASE V # {}
    <2>1. V = {v}
      BY <1>1, <1>2, <1>4
    <2>2. v.tag = "octets" /\ v.size \in Nat \ {0}
      BY <2>1 DEF LayoutOK
    <2>3. c.holds.pceid = OctetsOfSize(v, PCEIDSize)
      BY <2>1 DEF HoldsPCEID
    <2>4. BytesOfSize(Unwrap(v), PCEIDSize) = OctetsOfSize(v, PCEIDSize)
      BY <2>2, UnwrapOctets
    <2> QED BY <1>1, <1>4, <2>3, <2>4 DEF ExtractPCEID
  <1> QED BY <1>3, <1>4

\* What one extension says of the FMSPC.
LEMMA ExtensionFMSPC ==
    ASSUME NEW c \in Certificate, LayoutOK(c), NEW n \in 1..Len(c.extensions)
    PROVE  LET ext == c.extensions[n]
           IN  /\ FMSPCItself(ext) \/ FMSPCWithin(ext) <=> FmspcValues(ext) # {}
               /\ FMSPCItself(ext) =>
                     \A v \in FmspcValues(ext) :
                         Unwrap(ext.tree[1]).bytes = OctetsOfSize(v, FMSPCSize)
               /\ ~FMSPCItself(ext) =>
                     \A v \in FmspcValues(ext) :
                         BytesOfSize(Unwrap(ValueOf(ext.tree, FMSPCOID)), FMSPCSize)
                             = OctetsOfSize(v, FMSPCSize)
  <1> DEFINE ext == c.extensions[n]
  <1>1. RootOID # FMSPCOID
    BY DEF RootOID, FMSPCOID
  <1>2. Len(ext.tree) \in Nat /\ Written(ext.tree)
    BY CertificateAssumption DEF LayoutOK
  <1>3. /\ Found(ext.tree, FMSPCOID) <=> Values(ext.tree, FMSPCOID) # {}
        /\ Found(ext.tree, FMSPCOID) =>
              Values(ext.tree, FMSPCOID) = {ValueOf(ext.tree, FMSPCOID)}
    BY <1>2, SearchFinds
  <1>4. CASE ext.id = RootOID
    <2>1. FmspcValues(ext) = Values(ext.tree, FMSPCOID)
      BY <1>1, <1>4 DEF FmspcValues
    <2>2. ~FMSPCItself(ext) /\ (FMSPCWithin(ext) <=> Found(ext.tree, FMSPCOID))
      BY <1>1, <1>4 DEF FMSPCItself, FMSPCWithin
    <2>3. ASSUME NEW v \in FmspcValues(ext)
          PROVE  BytesOfSize(Unwrap(ValueOf(ext.tree, FMSPCOID)), FMSPCSize)
                     = OctetsOfSize(v, FMSPCSize)
      <3>1. v = ValueOf(ext.tree, FMSPCOID)
        BY <1>3, <2>1
      <3>2. v \in RootValues(c, FMSPCOID)
        BY <1>4, <2>1 DEF RootValues
      <3>3. v.tag = "octets" /\ v.size \in Nat \ {0}
        BY <3>2 DEF LayoutOK
      <3> QED BY <3>1, <3>3, UnwrapOctets
    <2> QED BY <1>3, <2>1, <2>2, <2>3
  <1>5. CASE ext.id = FMSPCOID
    <2>1. Len(ext.tree) = 1 /\ ext.tree[1].tag = "octets" /\ ext.tree[1].size \in Nat \ {0}
      BY <1>5 DEF LayoutOK
    <2>2. FmspcValues(ext) = {v \in {ext.tree[1]} : v.size = FMSPCSize}
      BY <1>1, <1>5 DEF FmspcValues
    <2>3. ~Found(ext.tree, FMSPCOID)
      BY <2>1 DEF Found, Named
    <2>4. Unwrap(ext.tree[1]).size = ext.tree[1].size /\ Unwrap(ext.tree[1]).bytes = ext.tree[1].value
      BY <2>1, UnwrapOctets
    <2>5. FMSPCItself(ext) <=> ext.tree[1].size = FMSPCSize
      BY <1>5, <2>4 DEF FMSPCItself
    <2>6. ~FMSPCWithin(ext)
      BY <2>3 DEF FMSPCWithin
    <2> QED BY <2>2, <2>4, <2>5, <2>6 DEF OctetsOfSize
  <1>6. CASE ext.id # RootOID /\ ext.id # FMSPCOID
    BY <1>6 DEF FmspcValues, FMSPCItself, FMSPCWithin
  <1> QED BY <1>4, <1>5, <1>6

LEMMA FMSPCFound ==
    ASSUME NEW c \in Certificate, LayoutOK(c), HoldsFMSPC(c)
    PROVE  ExtractFMSPC(c) = c.holds.fmspc
  <1> DEFINE Says(ext) == FMSPCItself(ext) \/ FMSPCWithin(ext)
             I == {i \in 1..Len(c.extensions) : Says(c.extensions[i])}
             n == IF I # {} THEN Min(I) ELSE 0
             ext == c.extensions[n]
  <1>1. ExtractFMSPC(c) =
            IF n = 0 THEN Blank
            ELSE IF FMSPCItself(ext) THEN Unwrap(ext.tree[1]).bytes
            ELSE BytesOfSize(Unwrap(ValueOf(ext.tree, FMSPCOID)), FMSPCSize)
    BY DEF ExtractFMSPC, SelectInSeq
  <1>2. Len(c.extensions) \in Nat
    BY CertificateAssumption
  <1>3. \A i \in 1..Len(c.extensions) : i \in I <=> FmspcValues(c.extensions[i]) # {}
    BY ExtensionFMSPC
  <1>4. CASE I = {}
    <2>1. n = 0
      BY <1>4
    <2>2. \A i \in 1..Len(c.extensions) : FmspcValues(c.extensions[i]) = {}
      BY <1>3, <1>4
    <2> HIDE DEF n
    <2> QED BY <1>1, <2>1, <2>2 DEF HoldsFMSPC
  <1>5. CASE I # {}
    <2>1. I \subseteq Nat
      BY <1>2
    <2>2. \E x \in I : \A y \in I : x <= y
      BY <1>5, <2>1, Least
    <2>3. Min(I) \in I /\ \A y \in I : Min(I) <= y
      BY <2>2 DEF Min
    <2>4. n \in I /\ \A y \in I : n <= y
      BY <1>5, <2>3
    <2>5. I \subseteq 1..Len(c.extensions)
      OBVIOUS
    <2>6. PICK m \in 1..Len(c.extensions) :
              /\ \A l \in 1..(m - 1) : FmspcValues(c.extensions[l]) = {}
              /\ \E v \in FmspcValues(c.extensions[m]) :
                    c.holds.fmspc = OctetsOfSize(v, FMSPCSize)
      BY <1>3, <1>5, <2>5 DEF HoldsFMSPC
    <2>7. PICK v \in FmspcValues(c.extensions[m]) : c.holds.fmspc = OctetsOfSize(v, FMSPCSize)
      BY <2>6
    <2>8. /\ FMSPCItself(ext) => ExtractFMSPC(c) = Unwrap(ext.tree[1]).bytes
          /\ ~FMSPCItself(ext) =>
                ExtractFMSPC(c) =
                    BytesOfSize(Unwrap(ValueOf(ext.tree, FMSPCOID)), FMSPCSize)
      <3>1. n # 0
        BY <1>2, <2>4, <2>5
      <3> HIDE DEF n
      <3> QED BY <1>1, <3>1
    <2> HIDE DEF I, n
    <2>9. m \in I
      BY <1>3, <2>7
    <2>10. n = m
      <3>1. n \in 1..Len(c.extensions) /\ n <= m
        BY <2>4, <2>5, <2>9
      <3>2. n \notin 1..(m - 1)
        BY <1>3, <2>4, <2>6, <3>1
      <3> QED BY <1>2, <3>1, <3>2
    <2>11. CASE FMSPCItself(ext)
      BY <2>7, <2>8, <2>10, <2>11, ExtensionFMSPC
    <2>12. CASE ~FMSPCItself(ext)
      BY <2>7, <2>8, <2>10, <2>12, ExtensionFMSPC
    <2> QED BY <2>11, <2>12
  <1> QED BY <1>4, <1>5

\* An entry that is an integer is the one that is found, and it is found as one.
LEMMA IntFound ==
    ASSUME NEW c \in Certificate, LayoutOK(c), NEW oid
    PROVE  /\ IntInRoot(c, oid) <=> \E v \in RootValues(c, oid) : v.tag = "int"
           /\ \A n : HasInt(c, oid, n) => RootValue(c, oid).value = n
  <1>1. InRoot(c, oid) <=> RootValues(c, oid) # {}
    BY RootFinds
  <1>2. InRoot(c, oid) => RootValues(c, oid) = {RootValue(c, oid)}
    BY RootFinds
  <1> QED BY <1>1, <1>2 DEF IntInRoot, HasInt

LEMMA TCBFound ==
    ASSUME NEW c \in Certificate, LayoutOK(c), HoldsTCB(c)
    PROVE  /\ c.holds.tcb # Blank <=> \A oid \in TcbOIDs : IntInRoot(c, oid)
           /\ c.holds.tcb # Blank =>
                 c.holds.tcb =
                     [sgx |-> [i \in 1..Components |-> RootValue(c, ComponentOID(i)).value],
                      pcesvn |-> RootValue(c, PCESVNOID).value]
  <1> DEFINE tcb == c.holds.tcb
  <1>1. \A oid : IntInRoot(c, oid) <=> \E v \in RootValues(c, oid) : v.tag = "int"
    BY IntFound
  <1>2. CASE tcb = Blank
    <2>1. PICK oid \in TcbOIDs : \A v \in RootValues(c, oid) : v.tag # "int"
      BY <1>2 DEF HoldsTCB
    <2> QED BY <1>1, <1>2, <2>1
  <1>3. CASE tcb # Blank
    <2>1. /\ tcb \in [sgx : [1..Components -> Nat], pcesvn : Nat]
          /\ \A i \in 1..Components : HasInt(c, ComponentOID(i), tcb.sgx[i])
          /\ HasInt(c, PCESVNOID, tcb.pcesvn)
      BY <1>3 DEF HoldsTCB
    <2>2. \A oid, n : HasInt(c, oid, n) => IntInRoot(c, oid) /\ RootValue(c, oid).value = n
      BY <1>1, IntFound DEF HasInt
    <2>3. ASSUME NEW oid \in TcbOIDs
          PROVE  IntInRoot(c, oid)
      <3>1. oid = PCESVNOID \/ \E i \in 1..Components : oid = ComponentOID(i)
        BY DEF TcbOIDs
      <3> QED BY <2>1, <2>2, <3>1
    <2>4. \A i \in 1..Components : tcb.sgx[i] = RootValue(c, ComponentOID(i)).value
      BY <2>1, <2>2
    <2>5. tcb.pcesvn = RootValue(c, PCESVNOID).value
      BY <2>1, <2>2
    <2>6. tcb.sgx = [i \in 1..Components |-> RootValue(c, ComponentOID(i)).value]
      BY <2>1, <2>4
    <2>7. tcb = [sgx |-> tcb.sgx, pcesvn |-> tcb.pcesvn]
      BY <2>1
    <2> HIDE DEF tcb
    <2>8. tcb = [sgx |-> [i \in 1..Components |-> RootValue(c, ComponentOID(i)).value],
                 pcesvn |-> RootValue(c, PCESVNOID).value]
      BY <2>5, <2>6, <2>7
    <2> QED BY <1>3, <2>3, <2>8 DEF tcb
  <1> QED BY <1>2, <1>3

\* The searches find in a certificate what its entries hold, in whatever order
\* they are written.
LEMMA HeldIsFound ==
    ASSUME NEW c \in Certificate, c.holds # Blank
    PROVE  FoundAsHeld(c)
  <1>1. LayoutOK(c) /\ HoldsFMSPC(c) /\ HoldsPCEID(c) /\ HoldsTCB(c)
    BY LayoutAssumption
  <1> QED BY <1>1, FMSPCFound, PCEIDFound, TCBFound DEF FoundAsHeld
----------------------------------------------------------------------------
(* Types *)

Chosen == cert \in Certificate /\ quote \in Quote /\ body \in Body

TypeInv ==
    /\ Chosen
    /\ pc \in {"fmspc", "pceid", "module", "components", "levels"} \cup Final
    /\ svns \in Seq(Nat)
    /\ Len(svns) <= Components
    /\ pcesvn \in Nat
    /\ level \in 0..Len(body.levels)
    /\ pc = "levels" => Len(svns) = Components

LEMMA LevelsTyped ==
    ASSUME Chosen
    PROVE  body.levels \in Seq(Level) /\ Len(body.levels) \in Nat
  <1>1. body.levels \in Seq(Level)
    BY DocumentAssumption DEF Chosen
  <1> QED BY <1>1

LEMMA InitType ==
    ASSUME Init
    PROVE  TypeInv
  <1>1. Chosen
    BY DEF Init, Chosen
  <1>2. Len(body.levels) \in Nat
    BY <1>1, LevelsTyped
  <1> QED BY <1>1, <1>2, PlatformAssumption DEF Init, TypeInv, Final

LEMMA NextType ==
    ASSUME TypeInv, [Next]_vars
    PROVE  TypeInv'
  <1> USE DEF TypeInv, Final
  <1>1. Chosen' /\ body' = body
    BY DEF Chosen, Next, CheckFMSPC, CheckPCEID, CheckModule, ReadComponent, ReadPCESVN,
           TryLevel, NoLevel, vars, inputs
  <1>2. Len(body.levels) \in Nat
    BY LevelsTyped
  <1>3. CASE CheckFMSPC
    BY <1>1, <1>3 DEF CheckFMSPC, inputs
  <1>4. CASE CheckPCEID
    BY <1>1, <1>4 DEF CheckPCEID, inputs
  <1>5. CASE CheckModule
    BY <1>1, <1>5 DEF CheckModule, inputs
  <1>6. CASE ReadComponent
    <2> DEFINE oid == ComponentOID(Len(svns) + 1)
    <2>1. pc = "components" /\ Len(svns) < Components /\ UNCHANGED <<inputs, pcesvn, level>>
      BY <1>6 DEF ReadComponent
    <2>2. CASE IntInRoot(cert, oid)
      <3>1. RootValue(cert, oid).value \in Nat
        BY <2>2, IntTyped DEF Chosen
      <3>2. svns' = Append(svns, RootValue(cert, oid).value) /\ pc' = pc
        BY <1>6, <2>2 DEF ReadComponent
      <3>3. svns' \in Seq(Nat) /\ Len(svns') = Len(svns) + 1
        BY <3>1, <3>2
      <3>4. Len(svns) \in Nat
        OBVIOUS
      <3> QED BY <1>1, <2>1, <3>2, <3>3, <3>4, PlatformAssumption DEF inputs
    <2>3. CASE ~IntInRoot(cert, oid)
      BY <1>1, <1>6, <2>1, <2>3 DEF ReadComponent, inputs
    <2> QED BY <2>2, <2>3
  <1>7. CASE ReadPCESVN
    <2>1. CASE IntInRoot(cert, PCESVNOID)
      <3>1. RootValue(cert, PCESVNOID).value \in Nat
        BY <2>1, IntTyped DEF Chosen
      <3> QED BY <1>1, <1>7, <2>1, <3>1 DEF ReadPCESVN, inputs
    <2>2. CASE ~IntInRoot(cert, PCESVNOID)
      BY <1>1, <1>7, <2>2 DEF ReadPCESVN, inputs
    <2> QED BY <2>1, <2>2
  <1>8. CASE TryLevel
    <2>1. level' \in 0..Len(body.levels)
      BY <1>2, <1>8 DEF TryLevel
    <2>2. pc' \in {"levels", "accepted", "refused"} /\ pc = "levels"
      BY <1>8 DEF TryLevel
    <2> QED BY <1>1, <1>8, <2>1, <2>2 DEF TryLevel, inputs
  <1>9. CASE NoLevel
    BY <1>1, <1>9 DEF NoLevel, inputs
  <1>10. CASE UNCHANGED vars
    BY <1>1, <1>10 DEF vars, inputs
  <1> QED BY <1>3, <1>4, <1>5, <1>6, <1>7, <1>8, <1>9, <1>10 DEF Next

\* The searches and loops of the decision keep the types of what they read and
\* hold on to the inputs they started from.
THEOREM PlatformInv == Spec => []TypeInv
  BY InitType, NextType, PTL DEF Spec

\* Whatever certificates, quotes and documents there are, the searches and
\* loops of verifyTCBInfoCollateralBytes stay within their types.
THEOREM PlatformTypeCorrect == Spec => []PlatformTypeOK
  <1>1. TypeInv => PlatformTypeOK
    <2>1. TypeInv => Len(svns) \in Nat
      BY DEF TypeInv
    <2> QED BY <2>1, PlatformAssumption DEF TypeInv, Chosen, PlatformTypeOK
  <1> QED BY <1>1, PlatformInv, PTL
----------------------------------------------------------------------------
(* What was decided so far, and from what *)

FmspcTaken == ExtractFMSPC(cert) # Blank /\ ExtractFMSPC(cert) = body.fmspc

PceidTaken == ExtractPCEID(cert) # Blank /\ body.pceid \in {Blank, ExtractPCEID(cert)}

ModuleTaken == quote.tdx => TDXModuleMatches(quote, body)

Checked == PlatformTCBChecked(quote, body)

SvnsRead ==
    \A i \in 1..Len(svns) :
        IntInRoot(cert, ComponentOID(i)) /\ svns[i] = RootValue(cert, ComponentOID(i)).value

PcesvnRead == IntInRoot(cert, PCESVNOID) /\ pcesvn = RootValue(cert, PCESVNOID).value

TcbRead == Len(svns) = Components /\ SvnsRead /\ PcesvnRead

Readable == \A oid \in TcbOIDs : IntInRoot(cert, oid)

LevelTaken == EvaluatePlatformTCB(Have, quote.tdxSVNs, body.levels)

NoneMetUpTo(n) ==
    \A i \in 1..n : ~PlatformTCBMeetsLevel(Have, quote.tdxSVNs, body.levels[i])

\* Each early return stands between the steps before it and those after it.
ReadInv ==
    /\ pc \in {"pceid", "module", "components", "levels"} => FmspcTaken
    /\ pc \in {"module", "components", "levels"} => PceidTaken
    /\ pc \in {"components", "levels"} => ModuleTaken /\ Checked
    /\ SvnsRead
    /\ pc = "levels" => PcesvnRead /\ NoneMetUpTo(level)
    /\ pc \in {"fmspc", "pceid", "module", "components"} => level = 0

AcceptInv ==
    pc = "accepted" =>
        FmspcTaken /\ PceidTaken /\ ModuleTaken /\ (Checked => TcbRead /\ LevelTaken)

RefuseInv ==
    pc = "refused" =>
        \/ ~FmspcTaken \/ ~PceidTaken \/ ~ModuleTaken
        \/ Checked /\ ~Readable
        \/ Checked /\ TcbRead /\ ~LevelTaken

DecisionInv == ReadInv /\ AcceptInv /\ RefuseInv

LEMMA InitDecision ==
    ASSUME Init
    PROVE  DecisionInv
  BY DEF Init, DecisionInv, ReadInv, AcceptInv, RefuseInv, SvnsRead

\* What is decided about does not change.
LEMMA Kept ==
    ASSUME UNCHANGED inputs
    PROVE  /\ FmspcTaken' <=> FmspcTaken
           /\ PceidTaken' <=> PceidTaken
           /\ ModuleTaken' <=> ModuleTaken
           /\ Checked' <=> Checked
           /\ Readable' <=> Readable
  BY DEF inputs, FmspcTaken, PceidTaken, ModuleTaken, Checked, Readable

LEMMA KeptRead ==
    ASSUME UNCHANGED <<inputs, svns, pcesvn>>
    PROVE  /\ SvnsRead' <=> SvnsRead
           /\ PcesvnRead' <=> PcesvnRead
           /\ TcbRead' <=> TcbRead
           /\ LevelTaken' <=> LevelTaken
           /\ \A n \in Nat : NoneMetUpTo(n)' <=> NoneMetUpTo(n)
  BY DEF inputs, SvnsRead, PcesvnRead, TcbRead, LevelTaken, NoneMetUpTo, Have

\* The level that is met after none before it was is the one that decides.
LEMMA FirstMetDecides ==
    ASSUME TypeInv, NEW n \in 1..Len(body.levels),
           \A i \in 1..(n - 1) : ~PlatformTCBMeetsLevel(Have, quote.tdxSVNs, body.levels[i]),
           PlatformTCBMeetsLevel(Have, quote.tdxSVNs, body.levels[n])
    PROVE  LevelTaken <=> body.levels[n].status \in AcceptableStatus
  <1> DEFINE m == MatchedTCBLevel(Have, quote.tdxSVNs, body.levels)
             Met(i) == PlatformTCBMeetsLevel(Have, quote.tdxSVNs, body.levels[i])
  <1>1. body.levels \in Seq(Level) /\ Len(body.levels) \in Nat
    BY LevelsTyped DEF TypeInv
  <1>2. \/ m = 0 /\ \A i \in 1..Len(body.levels) : ~Met(i)
        \/ /\ m \in 1..Len(body.levels) /\ Met(m)
           /\ \A i \in 1..Len(body.levels) : Met(i) => m <= i
    BY <1>1, FirstMet
  <1>3. \A i \in 1..(n - 1) : ~Met(i)
    OBVIOUS
  <1>4. Met(n)
    OBVIOUS
  <1>5. LevelTaken <=> m # 0 /\ body.levels[m].status \in AcceptableStatus
    BY DEF LevelTaken, EvaluatePlatformTCB
  <1> HIDE DEF m, Met
  <1>6. m \in 1..Len(body.levels) /\ Met(m) /\ m <= n
    BY <1>2, <1>4
  <1>7. m = n
    BY <1>1, <1>3, <1>6
  <1> QED BY <1>1, <1>5, <1>7

LEMMA NoneMetRefuses ==
    ASSUME TypeInv, NoneMetUpTo(Len(body.levels))
    PROVE  ~LevelTaken
  <1>1. body.levels \in Seq(Level)
    BY LevelsTyped DEF TypeInv
  <1>2. MatchedTCBLevel(Have, quote.tdxSVNs, body.levels) = 0
    BY <1>1, FirstMet DEF NoneMetUpTo
  <1> QED BY <1>2 DEF LevelTaken, EvaluatePlatformTCB

LEMMA NextDecision ==
    ASSUME TypeInv, DecisionInv, [Next]_vars
    PROVE  DecisionInv'
  <1> USE DEF DecisionInv
  <1>1. CASE CheckFMSPC
    <2>1. /\ pc = "fmspc" /\ UNCHANGED <<inputs, svns, pcesvn>> /\ level' = level
          /\ pc' = IF FmspcTaken THEN "pceid" ELSE "refused"
      BY <1>1 DEF CheckFMSPC, FmspcTaken
    <2> QED BY <2>1, Kept, KeptRead DEF ReadInv, AcceptInv, RefuseInv
  <1>2. CASE CheckPCEID
    <2>1. /\ pc = "pceid" /\ UNCHANGED <<inputs, svns, pcesvn>> /\ level' = level
          /\ pc' = IF PceidTaken THEN "module" ELSE "refused"
      BY <1>2 DEF CheckPCEID, PceidTaken
    <2> QED BY <2>1, Kept, KeptRead DEF ReadInv, AcceptInv, RefuseInv
  <1>3. CASE CheckModule
    <2>1. pc = "module" /\ UNCHANGED <<inputs, svns, pcesvn>> /\ level' = level
      BY <1>3 DEF CheckModule
    <2>2. pc' = IF ~ModuleTaken THEN "refused" ELSE IF Checked THEN "components" ELSE "accepted"
      BY <1>3 DEF CheckModule, ModuleTaken, Checked
    <2> QED BY <2>1, <2>2, Kept, KeptRead DEF ReadInv, AcceptInv, RefuseInv
  <1>4. CASE ReadComponent
    <2> DEFINE oid == ComponentOID(Len(svns) + 1)
    <2>1. pc = "components" /\ UNCHANGED <<inputs, pcesvn, level>> /\ Len(svns) < Components
      BY <1>4 DEF ReadComponent
    <2>2. CASE IntInRoot(cert, oid)
      <3>1. svns' = Append(svns, RootValue(cert, oid).value) /\ pc' = pc
        BY <1>4, <2>2 DEF ReadComponent
      <3>2. svns \in Seq(Nat) /\ Len(svns) \in Nat
        BY DEF TypeInv
      <3>3. /\ Len(svns') = Len(svns) + 1
            /\ \A i \in 1..Len(svns) : svns'[i] = svns[i]
            /\ svns'[Len(svns) + 1] = RootValue(cert, oid).value
        BY <3>1, <3>2
      <3>4. cert' = cert
        BY <2>1 DEF inputs
      <3>5. ASSUME NEW i \in 1..Len(svns')
            PROVE  /\ IntInRoot(cert, ComponentOID(i))
                   /\ svns'[i] = RootValue(cert, ComponentOID(i)).value
        <4>1. CASE i = Len(svns) + 1
          BY <2>2, <3>3, <4>1
        <4>2. CASE i # Len(svns) + 1
          <5>1. i \in 1..Len(svns)
            BY <3>2, <3>3, <4>2
          <5> QED BY <3>3, <5>1 DEF ReadInv, SvnsRead
        <4> QED BY <4>1, <4>2
      <3>6. SvnsRead'
        BY <3>4, <3>5 DEF SvnsRead
      <3> QED BY <2>1, <3>1, <3>6, Kept DEF ReadInv, AcceptInv, RefuseInv
    <2>3. CASE ~IntInRoot(cert, oid)
      <3>1. pc' = "refused" /\ svns' = svns
        BY <1>4, <2>3 DEF ReadComponent
      <3>2. ~Readable
        <4>1. Len(svns) + 1 \in 1..Components
          BY <2>1, PlatformAssumption DEF TypeInv
        <4>2. oid \in TcbOIDs
          BY <4>1 DEF TcbOIDs
        <4> HIDE DEF oid
        <4> QED BY <2>3, <4>2 DEF Readable
      <3>3. UNCHANGED <<inputs, svns, pcesvn>>
        BY <2>1, <3>1
      <3> QED BY <2>1, <3>1, <3>2, <3>3, Kept, KeptRead DEF ReadInv, AcceptInv, RefuseInv
    <2> QED BY <2>2, <2>3
  <1>5. CASE ReadPCESVN
    <2>1. pc = "components" /\ UNCHANGED <<inputs, svns, level>> /\ Len(svns) = Components
      BY <1>5 DEF ReadPCESVN
    <2>2. SvnsRead'
      BY <2>1 DEF inputs, SvnsRead, ReadInv
    <2>3. CASE IntInRoot(cert, PCESVNOID)
      <3>1. pc' = "levels" /\ pcesvn' = RootValue(cert, PCESVNOID).value
        BY <1>5, <2>3 DEF ReadPCESVN
      <3>2. PcesvnRead'
        BY <2>1, <2>3, <3>1 DEF inputs, PcesvnRead
      <3>3. NoneMetUpTo(level)'
        BY <2>1 DEF NoneMetUpTo, ReadInv
      <3> QED BY <2>1, <2>2, <3>1, <3>2, <3>3, Kept DEF ReadInv, AcceptInv, RefuseInv
    <2>4. CASE ~IntInRoot(cert, PCESVNOID)
      <3>1. pc' = "refused" /\ pcesvn' = pcesvn
        BY <1>5, <2>4 DEF ReadPCESVN
      <3>2. ~Readable
        BY <2>4 DEF Readable, TcbOIDs
      <3>3. UNCHANGED <<inputs, svns, pcesvn>>
        BY <2>1, <3>1
      <3> QED BY <2>1, <3>1, <3>2, <3>3, Kept, KeptRead DEF ReadInv, AcceptInv, RefuseInv
    <2> QED BY <2>3, <2>4
  <1>6. CASE TryLevel
    <2> DEFINE n == level + 1
               l == body.levels[n]
               met == PlatformTCBMeetsLevel(Have, quote.tdxSVNs, l)
    <2>1. /\ pc = "levels" /\ level < Len(body.levels) /\ level' = n
          /\ UNCHANGED <<inputs, svns, pcesvn>>
          /\ pc' = IF ~met THEN "levels"
                   ELSE IF l.status \in AcceptableStatus THEN "accepted" ELSE "refused"
      BY <1>6 DEF TryLevel
    <2>2. level \in Nat /\ Len(body.levels) \in Nat /\ n \in 1..Len(body.levels)
      BY <2>1, LevelsTyped DEF TypeInv
    <2>3. NoneMetUpTo(level) /\ TcbRead /\ FmspcTaken /\ PceidTaken /\ ModuleTaken /\ Checked
      BY <2>1 DEF ReadInv, TcbRead, TypeInv
    <2>4. CASE ~met
      <3>1. ASSUME NEW i \in 1..n
            PROVE  ~PlatformTCBMeetsLevel(Have, quote.tdxSVNs, body.levels[i])
        <4>1. i = n \/ i \in 1..level
          BY <2>2
        <4> QED BY <2>3, <2>4, <4>1 DEF NoneMetUpTo
      <3>2. /\ svns' = svns /\ pcesvn' = pcesvn /\ quote' = quote /\ body' = body
            /\ level' = n
        BY <2>1 DEF inputs
      <3> HIDE DEF n, l, met
      <3>3. NoneMetUpTo(level)'
        BY <3>1, <3>2 DEF NoneMetUpTo, Have
      <3>4. pc' = "levels" /\ SvnsRead' /\ PcesvnRead'
        BY <2>1, <2>3, <2>4, KeptRead DEF TcbRead
      <3> QED BY <2>1, <2>3, <3>3, <3>4, Kept DEF ReadInv, AcceptInv, RefuseInv
    <2>5. CASE met
      <3>1. \A i \in 1..(n - 1) : ~PlatformTCBMeetsLevel(Have, quote.tdxSVNs, body.levels[i])
        BY <2>2, <2>3 DEF NoneMetUpTo
      <3>2. LevelTaken <=> l.status \in AcceptableStatus
        BY <2>2, <2>5, <3>1, FirstMetDecides
      <3>3. pc' = IF LevelTaken THEN "accepted" ELSE "refused"
        BY <2>1, <2>5, <3>2
      <3>4. SvnsRead'
        BY <2>1, <2>3, KeptRead DEF TcbRead
      <3> HIDE DEF n, l, met
      <3> QED BY <2>1, <2>3, <3>3, <3>4, Kept, KeptRead DEF ReadInv, AcceptInv, RefuseInv
    <2> QED BY <2>4, <2>5
  <1>7. CASE NoLevel
    <2>1. /\ pc = "levels" /\ level = Len(body.levels) /\ pc' = "refused"
          /\ UNCHANGED <<inputs, svns, pcesvn>> /\ level' = level
      BY <1>7 DEF NoLevel
    <2>2. TcbRead /\ Checked /\ NoneMetUpTo(Len(body.levels))
      BY <2>1 DEF ReadInv, TcbRead, TypeInv
    <2>3. ~LevelTaken
      BY <2>2, NoneMetRefuses
    <2> QED BY <2>1, <2>2, <2>3, Kept, KeptRead DEF ReadInv, AcceptInv, RefuseInv
  <1>8. CASE UNCHANGED vars
    <2>1. UNCHANGED <<inputs, svns, pcesvn>> /\ pc' = pc /\ level' = level /\ UNCHANGED inputs
      BY <1>8 DEF vars, inputs
    <2>2. level \in Nat
      BY LevelsTyped DEF TypeInv
    <2>3. NoneMetUpTo(level)' <=> NoneMetUpTo(level)
      BY <2>1 DEF inputs, NoneMetUpTo, Have
    <2> QED BY <2>1, <2>2, <2>3, Kept, KeptRead DEF ReadInv, AcceptInv, RefuseInv
  <1> QED BY <1>1, <1>2, <1>3, <1>4, <1>5, <1>6, <1>7, <1>8 DEF Next

\* Wherever the decision has got to, it has read what the certificate says so
\* far, and what it accepted or refused it had reason to
\* (collateral.go:152-200).
THEOREM PlatformDecision == Spec => [](TypeInv /\ DecisionInv)
  BY InitType, NextType, InitDecision, NextDecision, PTL DEF Spec
----------------------------------------------------------------------------
(* The theorems *)

\* For every certificate written as entries, in any order and with decoys, the
\* searches of extractFMSPCFromPCKCert, extractPCEIDFromPCKCert and
\* extractPlatformTCBFromPCKCert find what it was built from.
THEOREM SearchesAlwaysFind == Spec => []SearchesFindWhatIsHeld
  <1>1. TypeInv => SearchesFindWhatIsHeld
    BY HeldIsFound DEF TypeInv, Chosen, SearchesFindWhatIsHeld
  <1> QED BY <1>1, PlatformInv, PTL

\* For those certificates the searches, early returns and loops of
\* verifyTCBInfoCollateralBytes take a platform exactly when TakesPlatform does.
THEOREM LoopsImplementTakesPlatform == Spec => []ImplementsTakesPlatform
  <1> DEFINE held == cert.holds.tcb
  <1>1. ASSUME TypeInv, DecisionInv, pc \in Final, cert.holds # Blank
        PROVE  pc = "accepted" <=> TakesPlatform(cert.holds, quote, body)
    <2>1. FoundAsHeld(cert)
      BY <1>1, HeldIsFound DEF TypeInv, Chosen
    <2>2. /\ ExtractFMSPC(cert) = cert.holds.fmspc
          /\ ExtractPCEID(cert) = cert.holds.pceid
          /\ held # Blank <=> Readable
      BY <2>1 DEF FoundAsHeld, Readable
    <2>3. ASSUME TcbRead
          PROVE  held # Blank /\ held = Have
      <3>1. Readable
        BY <2>3 DEF Readable, TcbOIDs, TcbRead, SvnsRead, PcesvnRead
      <3>2. held = [sgx |-> [i \in 1..Components |-> RootValue(cert, ComponentOID(i)).value],
                    pcesvn |-> RootValue(cert, PCESVNOID).value]
        BY <2>1, <2>2, <3>1 DEF FoundAsHeld
      <3>3. svns = [i \in 1..Components |-> RootValue(cert, ComponentOID(i)).value]
        <4>1. svns = [i \in 1..Len(svns) |-> svns[i]]
          BY <1>1 DEF TypeInv
        <4> QED BY <2>3, <4>1 DEF TcbRead, SvnsRead
      <3> QED BY <2>2, <2>3, <3>1, <3>2, <3>3 DEF Have, TcbRead, PcesvnRead
    <2>4. TakesPlatform(cert.holds, quote, body) <=>
            /\ FmspcTaken /\ PceidTaken /\ ModuleTaken
            /\ Checked => Readable /\ EvaluatePlatformTCB(held, quote.tdxSVNs, body.levels)
      BY <2>2 DEF TakesPlatform, FmspcTaken, PceidTaken, ModuleTaken, Checked
    <2>5. CASE pc = "accepted"
      <3>1. FmspcTaken /\ PceidTaken /\ ModuleTaken /\ (Checked => TcbRead /\ LevelTaken)
        BY <1>1, <2>5 DEF DecisionInv, AcceptInv
      <3>2. Checked => Readable /\ EvaluatePlatformTCB(held, quote.tdxSVNs, body.levels)
        BY <2>2, <2>3, <3>1 DEF LevelTaken
      <3> QED BY <2>4, <2>5, <3>1, <3>2
    <2>6. CASE pc = "refused"
      <3>1. \/ ~FmspcTaken \/ ~PceidTaken \/ ~ModuleTaken
            \/ Checked /\ ~Readable
            \/ Checked /\ TcbRead /\ ~LevelTaken
        BY <1>1, <2>6 DEF DecisionInv, RefuseInv
      <3>2. TcbRead /\ ~LevelTaken => ~EvaluatePlatformTCB(held, quote.tdxSVNs, body.levels)
        BY <2>3 DEF LevelTaken
      <3> QED BY <2>4, <2>6, <3>1, <3>2
    <2> QED BY <1>1, <2>5, <2>6 DEF Final
  <1>2. TypeInv /\ DecisionInv => ImplementsTakesPlatform
    BY <1>1 DEF ImplementsTakesPlatform
  <1> QED BY <1>2, PlatformDecision, PTL

\* What a search comes back with stands beside the OID it looked for.
LEMMA ValueIsBeside ==
    ASSUME NEW n \in 1..Len(cert.extensions), Chosen, NEW oid,
           Found(cert.extensions[n].tree, oid)
    PROVE  ValueOf(cert.extensions[n].tree, oid) \in Beside(cert.extensions[n], oid)
  <1> DEFINE tree == cert.extensions[n].tree
             N == Named(tree, oid)
             k == CHOOSE i \in N : \A j \in N : i <= j
  <1>1. Len(tree) \in Nat
    BY CertificateAssumption DEF Chosen
  <1>2. N # {} /\ N \subseteq Nat
    BY <1>1 DEF Found, Named
  <1>3. k \in N
    <2>1. \E x \in N : \A y \in N : x <= y
      BY <1>2, Least
    <2> QED BY <2>1
  <1>4. ValueOf(tree, oid) = tree[1 + k]
    BY DEF ValueOf
  <1>5. Beside(cert.extensions[n], oid) = {tree[i + 1] : i \in N}
    BY DEF Beside
  <1> HIDE DEF k, N, tree
  <1>6. 1 + k = k + 1
    <2>1. \A i \in Nat : 1 + i = i + 1
      OBVIOUS
    <2>2. k \in Nat
      BY <1>2, <1>3
    <2> QED BY <2>1, <2>2
  <1>7. ValueOf(tree, oid) = tree[k + 1]
    BY <1>4, <1>6
  <1>8. tree[k + 1] \in {tree[i + 1] : i \in N}
    BY <1>3
  <1> QED BY <1>5, <1>7, <1>8 DEF tree

\* So does what is looked up in the root extension.
LEMMA RootValueIsBeside ==
    ASSUME Chosen, NEW oid, InRoot(cert, oid)
    PROVE  RootValue(cert, oid) \in BesideInRoot(oid)
  <1> DEFINE n == ExtensionRoot(cert)
             I == {m \in 1..Len(cert.extensions) : cert.extensions[m].id = RootOID}
  <1>1. n # 0 /\ Found(cert.extensions[n].tree, oid)
    BY DEF InRoot
  <1>2. n = IF I # {} THEN Min(I) ELSE 0
    BY DEF ExtensionRoot, SelectInSeq
  <1>3. n \in I
    <2>1. I \subseteq Nat /\ I # {}
      BY <1>1, <1>2, CertificateAssumption DEF Chosen
    <2>2. \E x \in I : \A y \in I : x <= y
      BY <2>1, Least
    <2> QED BY <1>2, <2>1, <2>2 DEF Min
  <1>4. cert.extensions[n] \in ExtensionsWith({RootOID})
    BY <1>3 DEF ExtensionsWith
  <1>5. RootValue(cert, oid) \in Beside(cert.extensions[n], oid)
    BY <1>1, <1>3, ValueIsBeside DEF RootValue
  <1> QED BY <1>4, <1>5 DEF BesideInRoot

\* A value of some size that is not what an encoding gives is an octet string's.
LEMMA TakenFromOctets ==
    ASSUME NEW v, NEW size, NEW value, value # Blank, value # "encoding",
           BytesOfSize(Unwrap(v), size) = value
    PROVE  v.tag = "octets" /\ v.size = size /\ v.value = value
  BY DEF BytesOfSize, Unwrap

\* Whatever a certificate looks like, its header bytes, a value of another type
\* or one of a wrong size let no platform pass (collateral.go:152-200, 348-379).
THEOREM AcceptedOnWrittenValuesAlways == Spec => []AcceptedOnWrittenValues
  <1>1. ASSUME Chosen, FmspcTaken, body.fmspc # "encoding"
        PROVE  HasOctets(FMSPCWritten, FMSPCSize, body.fmspc)
    <2> DEFINE Holds(ext) == FMSPCItself(ext) \/ FMSPCWithin(ext)
               I == {m \in 1..Len(cert.extensions) : Holds(cert.extensions[m])}
               n == SelectInSeq(cert.extensions, Holds)
               ext == cert.extensions[n]
    <2>1. n = IF I # {} THEN Min(I) ELSE 0
      BY DEF SelectInSeq
    <2>2. ExtractFMSPC(cert) =
              IF n = 0 THEN Blank
              ELSE IF FMSPCItself(ext) THEN Unwrap(ext.tree[1]).bytes
              ELSE BytesOfSize(Unwrap(ValueOf(ext.tree, FMSPCOID)), FMSPCSize)
      BY DEF ExtractFMSPC
    <2>3. n # 0 /\ body.fmspc # Blank /\ ExtractFMSPC(cert) = body.fmspc
      BY <1>1, <2>2 DEF FmspcTaken
    <2>4. n \in I
      <3>1. I \subseteq Nat /\ I # {}
        BY <1>1, <2>1, <2>3, CertificateAssumption DEF Chosen
      <3>2. \E x \in I : \A y \in I : x <= y
        BY <3>1, Least
      <3> QED BY <2>1, <3>1, <3>2 DEF Min
    <2>5. n \in 1..Len(cert.extensions) /\ (FMSPCItself(ext) \/ FMSPCWithin(ext))
      BY <2>4
    <2> HIDE DEF n, I, Holds
    <2>6. CASE FMSPCItself(ext)
      <3>1. BytesOfSize(Unwrap(ext.tree[1]), FMSPCSize) = body.fmspc
        BY <2>2, <2>3, <2>6 DEF FMSPCItself, BytesOfSize
      <3>2. ext.tree[1] \in FMSPCWritten
        <4>1. ext \in ExtensionsWith({FMSPCOID})
          BY <2>5, <2>6 DEF FMSPCItself, ExtensionsWith
        <4>2. ext.tree[1] \in {e.tree[1] : e \in ExtensionsWith({FMSPCOID})}
          BY <4>1
        <4> QED BY <4>2 DEF FMSPCWritten
      <3> QED BY <1>1, <2>3, <3>1, <3>2, TakenFromOctets DEF HasOctets
    <2>7. CASE ~FMSPCItself(ext)
      <3> DEFINE v == ValueOf(ext.tree, FMSPCOID)
      <3>1. BytesOfSize(Unwrap(v), FMSPCSize) = body.fmspc
        BY <2>2, <2>3, <2>7
      <3>2. ext.id \in {RootOID, FMSPCOID} /\ Found(ext.tree, FMSPCOID)
        BY <2>5, <2>7 DEF FMSPCWithin
      <3>3. v \in Beside(ext, FMSPCOID)
        BY <1>1, <2>5, <3>2, ValueIsBeside
      <3>4. ext \in ExtensionsWith({RootOID, FMSPCOID})
        BY <2>5, <3>2 DEF ExtensionsWith
      <3>5. v \in FMSPCWritten
        BY <3>3, <3>4 DEF FMSPCWritten
      <3> HIDE DEF v
      <3> QED BY <1>1, <2>3, <3>1, <3>5, TakenFromOctets DEF HasOctets
    <2> QED BY <2>6, <2>7
  <1>2. ASSUME Chosen, PceidTaken, body.pceid # "encoding", body.pceid # Blank
        PROVE  HasOctets(BesideInRoot(PCEIDOID), PCEIDSize, body.pceid)
    <2> DEFINE v == RootValue(cert, PCEIDOID)
    <2>1. InRoot(cert, PCEIDOID) /\ BytesOfSize(Unwrap(v), PCEIDSize) = body.pceid
      BY <1>2 DEF PceidTaken, ExtractPCEID
    <2>2. v \in BesideInRoot(PCEIDOID)
      BY <1>2, <2>1, RootValueIsBeside
    <2> HIDE DEF v
    <2> QED BY <1>2, <2>1, <2>2, TakenFromOctets DEF HasOctets
  <1>3. ASSUME TypeInv, TcbRead, LevelTaken
        PROVE  \E l \in ToSet(body.levels) :
                  /\ l.status \in AcceptableStatus /\ Len(l.sgx) <= Components
                  /\ \A i \in DOMAIN l.sgx : HasIntFrom(BesideInRoot(ComponentOID(i)), l.sgx[i])
                  /\ HasIntFrom(BesideInRoot(PCESVNOID), l.pcesvn)
    <2> DEFINE n == MatchedTCBLevel(Have, quote.tdxSVNs, body.levels)
               l == body.levels[n]
    <2>1. body.levels \in Seq(Level) /\ Len(body.levels) \in Nat
      BY <1>3, LevelsTyped DEF TypeInv
    <2>2. n # 0 /\ l.status \in AcceptableStatus
      BY <1>3 DEF LevelTaken, EvaluatePlatformTCB
    <2>3. n \in 1..Len(body.levels) /\ PlatformTCBMeetsLevel(Have, quote.tdxSVNs, l)
      BY <2>1, <2>2, FirstMet
    <2> HIDE DEF n
    <2>4. l \in Level /\ l \in ToSet(body.levels)
      BY <2>1, <2>3 DEF ToSet
    <2> HIDE DEF l
    <2>5. pcesvn >= l.pcesvn /\ ComponentsMeet(svns, l.sgx)
      BY <2>3 DEF PlatformTCBMeetsLevel, Have
    <2>6. l.sgx \in Seq(Nat)
      BY <2>4 DEF Level
    <2>7. Len(l.sgx) <= Components
      BY <1>3, <2>5 DEF ComponentsMeet, TcbRead
    <2>8. ASSUME NEW i \in DOMAIN l.sgx
          PROVE  HasIntFrom(BesideInRoot(ComponentOID(i)), l.sgx[i])
      <3>1. i \in 1..Len(svns)
        BY <2>5, <2>6, <2>7, <1>3, PlatformAssumption DEF TcbRead
      <3>2. /\ IntInRoot(cert, ComponentOID(i)) /\ svns[i] = RootValue(cert, ComponentOID(i)).value
            /\ svns[i] >= l.sgx[i]
        BY <1>3, <2>5, <3>1 DEF TcbRead, SvnsRead, ComponentsMeet
      <3> QED BY <1>3, <3>2, RootValueIsBeside DEF IntInRoot, HasIntFrom, TypeInv
    <2>9. HasIntFrom(BesideInRoot(PCESVNOID), l.pcesvn)
      <3>1. IntInRoot(cert, PCESVNOID) /\ pcesvn = RootValue(cert, PCESVNOID).value
        BY <1>3 DEF TcbRead, PcesvnRead
      <3> QED BY <1>3, <2>5, <3>1, RootValueIsBeside DEF IntInRoot, HasIntFrom, TypeInv
    <2> QED BY <2>2, <2>4, <2>7, <2>8, <2>9 DEF l
  <1>4. TypeInv /\ DecisionInv => AcceptedOnWrittenValues
    BY <1>1, <1>2, <1>3 DEF TypeInv, DecisionInv, AcceptInv, Checked, AcceptedOnWrittenValues,
                            PceidTaken
  <1> QED BY <1>4, PlatformDecision, PTL

\* A platform that is nowhere behind one that meets a level meets it too.
LEMMA UpgradeMeets ==
    ASSUME TypeInv, Len(svns) = Components, quote.tdxSVNs \in Seq(Nat),
           NEW up \in Upgrades, NEW l \in Level,
           PlatformTCBMeetsLevel(Have, quote.tdxSVNs, l)
    PROVE  PlatformTCBMeetsLevel([sgx |-> up.sgx, pcesvn |-> up.pcesvn], up.tdx, l)
  <1>1. /\ up.sgx \in [1..Components -> 0..MaxSVN] /\ up.pcesvn \in 0..MaxSVN
        /\ up.tdx \in [DOMAIN quote.tdxSVNs -> 0..MaxSVN]
        /\ up.pcesvn >= pcesvn
        /\ \A i \in 1..Components : up.sgx[i] >= svns[i]
        /\ \A i \in DOMAIN quote.tdxSVNs : up.tdx[i] >= quote.tdxSVNs[i]
    BY DEF Upgrades
  <1>2. /\ l.sgx \in Seq(Nat) /\ l.tdx \in Seq(Nat) /\ l.pcesvn \in Nat
    BY DEF Level
  <1>3. pcesvn >= l.pcesvn /\ ComponentsMeet(svns, l.sgx) /\ ComponentsMeet(quote.tdxSVNs, l.tdx)
    BY DEF PlatformTCBMeetsLevel, Have
  <1>4. up.pcesvn >= l.pcesvn
    <2>1. up.pcesvn \in Nat /\ pcesvn \in Nat
      BY <1>1, PlatformAssumption DEF TypeInv
    <2> QED BY <1>1, <1>2, <1>3, <2>1
  <1>5. ASSUME NEW have \in Seq(Nat), NEW more \in [1..Len(have) -> Nat], NEW want \in Seq(Nat),
               \A i \in 1..Len(have) : more[i] >= have[i],
               ComponentsMeet(have, want)
        PROVE  ComponentsMeet(more, want)
    <2>1. Len(have) \in Nat /\ Len(want) \in Nat /\ DOMAIN want = 1..Len(want)
      OBVIOUS
    <2>2. more \in Seq(Nat) /\ Len(more) = Len(have)
      <3>1. more \in Seq(Nat)
        <4>1. more \in UNION {[1..n -> Nat] : n \in Nat}
          BY <2>1
        <4> QED BY <4>1, SeqDef, Zenon
      <3>2. DOMAIN more = 1..Len(more) /\ Len(more) \in Nat
        BY <3>1
      <3> QED BY <2>1, <3>1, <3>2
    <2>3. Len(want) <= Len(more)
      BY <1>5, <2>2 DEF ComponentsMeet
    <2>4. ASSUME NEW i \in DOMAIN want
          PROVE  more[i] >= want[i]
      <3>1. have[i] >= want[i] /\ i \in 1..Len(have)
        BY <1>5, <2>1 DEF ComponentsMeet
      <3>2. more[i] \in Nat /\ have[i] \in Nat /\ want[i] \in Nat
        BY <2>1, <3>1
      <3> QED BY <1>5, <3>1, <3>2
    <2> QED BY <2>3, <2>4 DEF ComponentsMeet
  <1>6. ComponentsMeet(up.sgx, l.sgx)
    <2>1. up.sgx \in [1..Len(svns) -> Nat]
      BY <1>1, PlatformAssumption
    <2> QED BY <1>1, <1>2, <1>3, <1>5, <2>1 DEF TypeInv
  <1>7. ComponentsMeet(up.tdx, l.tdx)
    <2>1. DOMAIN quote.tdxSVNs = 1..Len(quote.tdxSVNs)
      OBVIOUS
    <2>2. up.tdx \in [1..Len(quote.tdxSVNs) -> Nat]
      BY <1>1, <2>1, PlatformAssumption
    <2> QED BY <1>1, <1>2, <1>3, <1>5, <2>1, <2>2
  <1> QED BY <1>4, <1>6, <1>7 DEF PlatformTCBMeetsLevel

\* However a list that puts the acceptable levels first compares components,
\* a platform that is taken is still taken after any upgrade.
THEOREM UpgradeNeverRefusedAlways == Spec => []UpgradeNeverRefused
  <1>1. ASSUME TypeInv, DecisionInv, pc = "accepted", Checked, AcceptableFirst(body.levels),
               NEW up \in Upgrades
        PROVE  EvaluatePlatformTCB([sgx |-> up.sgx, pcesvn |-> up.pcesvn], up.tdx, body.levels)
    <2> DEFINE n == MatchedTCBLevel(Have, quote.tdxSVNs, body.levels)
               better == [sgx |-> up.sgx, pcesvn |-> up.pcesvn]
               m == MatchedTCBLevel(better, up.tdx, body.levels)
               Meets(i) == PlatformTCBMeetsLevel(better, up.tdx, body.levels[i])
    <2>1. body.levels \in Seq(Level) /\ Len(body.levels) \in Nat
      BY <1>1, LevelsTyped DEF TypeInv
    <2>2. quote.tdxSVNs \in Seq(Nat)
      BY <1>1, DocumentAssumption DEF TypeInv, Chosen, Checked, PlatformTCBChecked
    <2>3. Len(svns) = Components /\ LevelTaken
      BY <1>1 DEF DecisionInv, AcceptInv, TcbRead
    <2>4. n # 0 /\ body.levels[n].status \in AcceptableStatus
      BY <2>3 DEF LevelTaken, EvaluatePlatformTCB
    <2>5. n \in 1..Len(body.levels) /\ PlatformTCBMeetsLevel(Have, quote.tdxSVNs, body.levels[n])
      BY <2>1, <2>4, FirstMet
    <2>6. body.levels[n] \in Level
      BY <2>1, <2>5
    <2>7. Meets(n)
      BY <1>1, <2>2, <2>3, <2>5, <2>6, UpgradeMeets
    <2>8. \/ m = 0 /\ \A i \in 1..Len(body.levels) : ~Meets(i)
          \/ /\ m \in 1..Len(body.levels)
             /\ \A i \in 1..Len(body.levels) : Meets(i) => m <= i
      BY <2>1, FirstMet
    <2> HIDE DEF Meets, m, n
    <2>9. m \in 1..Len(body.levels) /\ m <= n
      BY <2>5, <2>7, <2>8
    <2>10. body.levels[m].status \in AcceptableStatus
      <3>1. m < n \/ m = n
        BY <2>1, <2>5, <2>9
      <3>2. DOMAIN body.levels = 1..Len(body.levels)
        BY <2>1
      <3> QED BY <1>1, <2>4, <2>5, <2>9, <3>1, <3>2 DEF AcceptableFirst
    <2>11. m # 0
      BY <2>1, <2>9
    <2> QED BY <2>10, <2>11 DEF EvaluatePlatformTCB, m
  <1>2. TypeInv /\ DecisionInv => UpgradeNeverRefused
    BY <1>1 DEF UpgradeNeverRefused, Checked
  <1> QED BY <1>2, PlatformDecision, PTL

QELevel == [isvsvn : Nat, status : STRING]

\* The quoting enclave's levels are searched the same way (collateral.go:628-649):
\* where the acceptable levels come first, an enclave with a higher ISVSVN than
\* one that is taken is taken too.
THEOREM NewerEnclaveNeverRefused ==
    ASSUME NEW levels \in Seq(QELevel), AcceptableFirst(levels),
           NEW old \in Nat, NEW new \in Nat, old <= new,
           CheckQETCBLevel(old, levels)
    PROVE  CheckQETCBLevel(new, levels)
  <1> DEFINE Met(svn) == {i \in 1..Len(levels) : svn >= levels[i].isvsvn}
             n == MatchedQELevel(old, levels)
             m == MatchedQELevel(new, levels)
  <1>1. DOMAIN levels = 1..Len(levels) /\ Len(levels) \in Nat
    OBVIOUS
  <1>2. \A svn : MatchedQELevel(svn, levels) = IF Met(svn) # {} THEN Min(Met(svn)) ELSE 0
    BY DEF MatchedQELevel, SelectInSeq
  <1>3. \A svn : Met(svn) \subseteq Nat
    BY <1>1
  <1>4. Met(old) \subseteq Met(new)
    <2>1. \A i \in 1..Len(levels) : levels[i].isvsvn \in Nat
      <3>1. \A i \in 1..Len(levels) : levels[i] \in QELevel
        BY <1>1
      <3> QED BY <3>1 DEF QELevel
    <2>2. \A k \in Nat : old >= k => new >= k
      OBVIOUS
    <2> QED BY <2>1, <2>2
  <1> HIDE DEF Met
  <1>5. ASSUME NEW svn, Met(svn) # {}
        PROVE  /\ MatchedQELevel(svn, levels) \in Met(svn)
               /\ \A i \in Met(svn) : MatchedQELevel(svn, levels) <= i
    <2>1. \E x \in Met(svn) : \A y \in Met(svn) : x <= y
      BY <1>3, <1>5, Least
    <2>2. Min(Met(svn)) \in Met(svn) /\ \A i \in Met(svn) : Min(Met(svn)) <= i
      BY <2>1 DEF Min
    <2> QED BY <1>2, <1>5, <2>2
  <1>6. CASE levels = <<>>
    BY <1>6 DEF CheckQETCBLevel
  <1>7. CASE levels # <<>>
    <2>1. n # 0 /\ levels[n].status \in AcceptableStatus
      BY <1>7 DEF CheckQETCBLevel
    <2>2. Met(old) # {}
      BY <1>2, <2>1
    <2>3. n \in Met(old)
      BY <1>5, <2>2
    <2>4. m \in Met(new) /\ m <= n
      BY <1>4, <1>5, <2>2, <2>3
    <2>5. m \in 1..Len(levels) /\ n \in 1..Len(levels)
      BY <2>3, <2>4 DEF Met
    <2> HIDE DEF m, n
    <2>6. levels[m].status \in AcceptableStatus
      <3>1. m < n \/ m = n
        BY <1>1, <2>4, <2>5
      <3> QED BY <1>1, <2>1, <2>5, <3>1 DEF AcceptableFirst
    <2>7. m # 0
      BY <1>1, <2>5
    <2> QED BY <2>6, <2>7 DEF CheckQETCBLevel, m
  <1> QED BY <1>6, <1>7
=============================================================================
