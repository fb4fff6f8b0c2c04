---------------------------- MODULE PlatformTcb ----------------------------
(***************************************************************************)
(* How verifyTCBInfoCollateralBytes of internal/tdxattest/collateral.go    *)
(* decides whether a TCB Info document takes a platform, once the document *)
(* is believed: it looks up FMSPC, PCEID and one SVN after the other in    *)
(* the ASN.1 of the PCK certificate, and then goes through the TCB levels. *)
(* Module Collateral says the same without the searches and the loops.     *)
(*                                                                         *)
(* An ASN.1 value is the sequence of its elements in the order they are    *)
(* written, each with its depth, its tag, its value, and its size without  *)
(* the two bytes of its header; the first is the value itself, at depth 0. *)
(* An OID is what follows the Intel SGX prefix 1.2.840.113741.1.13.1.      *)
(***************************************************************************)
EXTENDS Collateral

CONSTANTS
    Components,     \* how many SVNs a platform has (16)
    Certificate,    \* PCK certificates: extensions, and what they were built from
    Quote,          \* what of a quote is compared: tdx, tdxSVNs, the TDX module
    Body,           \* bodies of TCB Info documents
    MaxSVN          \* bound: the SVNs an upgraded platform is tried with

ASSUME PlatformAssumption == Components \in Nat /\ MaxSVN \in Nat

Level == [sgx : Seq(Nat), tdx : Seq(Nat), pcesvn : Nat, status : STRING]

ASSUME DocumentAssumption ==
    /\ \A b \in Body : b.levels \in Seq(Level)
    /\ \A q \in Quote : q.tdx \in BOOLEAN /\ (q.tdx => q.tdxSVNs \in Seq(Nat))

\* What ASN.1 calls an integer is one.
ASSUME CertificateAssumption ==
    \A c \in Certificate :
        /\ Len(c.extensions) \in Nat
        /\ \A n \in 1..Len(c.extensions) :
              LET tree == c.extensions[n].tree
              IN  /\ Len(tree) \in Nat
                  /\ \A i \in 1..Len(tree) : tree[i].tag = "int" => tree[i].value \in Nat

RootOID == <<>>
PCEIDOID == <<3>>
FMSPCOID == <<4>>
ComponentOID(i) == <<2, i>>
PCESVNOID == <<2, Components + 1>>

FMSPCSize == 6
PCEIDSize == 2
----------------------------------------------------------------------------
(* How a certificate is written, and what it holds: its entries, each a    *)
(* SEQUENCE of an OID and a value.  No search is mentioned here.           *)

\* Where the entries begin.
Entries(tree) ==
    {i \in 1..(Len(tree) - 2) :
        /\ tree[i].tag = "seq" /\ tree[i + 1].tag = "oid"
        /\ tree[i + 1].depth = tree[i].depth + 1 /\ tree[i + 2].depth = tree[i + 1].depth}

\* An OID that does not name an entry comes last in what it is part of, and no
\* two entries have the same name.
Written(tree) ==
    /\ \A i \in 1..Len(tree) : tree[i].depth \in Nat
    /\ \A i \in 2..(Len(tree) - 1) :
          tree[i].tag = "oid" /\ i - 1 \notin Entries(tree) => tree[i + 1].depth < tree[i].depth
    /\ \A i, j \in Entries(tree) : tree[i + 1].value = tree[j + 1].value => i = j

\* The value that is named so, if there is one.
Values(tree, oid) == {tree[i + 2] : i \in {j \in Entries(tree) : tree[j + 1].value = oid}}

RootValues(c, oid) ==
    UNION {Values(c.extensions[n].tree, oid) :
              n \in {m \in 1..Len(c.extensions) : c.extensions[m].id = RootOID}}

FmspcValues(ext) ==
    {v \in Values(ext.tree, FMSPCOID) : ext.id = RootOID}
    \cup {v \in {ext.tree[1]} : ext.id = FMSPCOID /\ v.size = FMSPCSize}

OctetsOfSize(v, size) == IF v.size = size THEN v.value ELSE Blank

\* The first extension with an FMSPC counts, and one of another size is none.
HoldsFMSPC(c) ==
    \/ /\ c.holds.fmspc = Blank
       /\ \A n \in 1..Len(c.extensions) : FmspcValues(c.extensions[n]) = {}
    \/ \E n \in 1..Len(c.extensions) :
          /\ \A m \in 1..(n - 1) : FmspcValues(c.extensions[m]) = {}
          /\ \E v \in FmspcValues(c.extensions[n]) : c.holds.fmspc = OctetsOfSize(v, FMSPCSize)

HoldsPCEID(c) ==
    \/ c.holds.pceid = Blank /\ RootValues(c, PCEIDOID) = {}
    \/ \E v \in RootValues(c, PCEIDOID) : c.holds.pceid = OctetsOfSize(v, PCEIDSize)

TcbOIDs == {ComponentOID(i) : i \in 1..Components} \cup {PCESVNOID}

HasInt(c, oid, n) == \E v \in RootValues(c, oid) : v.tag = "int" /\ v.value = n

HoldsTCB(c) ==
    IF c.holds.tcb = Blank
    THEN \E oid \in TcbOIDs : \A v \in RootValues(c, oid) : v.tag # "int"
    ELSE /\ c.holds.tcb \in [sgx : [1..Components -> Nat], pcesvn : Nat]
         /\ \A i \in 1..Components : HasInt(c, ComponentOID(i), c.holds.tcb.sgx[i])
         /\ HasInt(c, PCESVNOID, c.holds.tcb.pcesvn)

\* No two extensions have one OID, and what an FMSPC or PCEID names is an octet
\* string of some size.
LayoutOK(c) ==
    /\ \A n \in 1..Len(c.extensions) :
          LET ext == c.extensions[n]
          IN  /\ Written(ext.tree)
              /\ ext.id = FMSPCOID => Len(ext.tree) = 1 /\ ext.tree[1].tag = "octets"
                                      /\ ext.tree[1].size \in Nat \ {0}
    /\ \A m, n \in 1..Len(c.extensions) : c.extensions[m].id = c.extensions[n].id => m = n
    /\ \A v \in RootValues(c, FMSPCOID) \cup RootValues(c, PCEIDOID) :
          v.tag = "octets" /\ v.size \in Nat \ {0}

ASSUME LayoutAssumption ==
    \A c \in Certificate :
        c.holds # Blank => LayoutOK(c) /\ HoldsFMSPC(c) /\ HoldsPCEID(c) /\ HoldsTCB(c)
----------------------------------------------------------------------------
VARIABLES
    cert,       \* the PCK leaf
    quote,      \* the quote
    body,       \* the TCB Info
    pc,         \* what is looked up next, or the decision
    svns,       \* the SGX component SVNs read so far
    pcesvn,     \* and the PCESVN
    level       \* how many levels were tried

vars == <<cert, quote, body, pc, svns, pcesvn, level>>
inputs == <<cert, quote, body>>
----------------------------------------------------------------------------
(* The ASN.1 search *)

\* A bug that takes what comes after an OID even if that OID is a value.
NamedAnything(tree, oid) ==
    {i \in 2..(Len(tree) - 1) : tree[i].tag = "oid" /\ tree[i].value = oid}

\* Where the OID is followed by another element of the same parent.
Named(tree, oid) ==
    {i \in 2..(Len(tree) - 1) :
        tree[i].tag = "oid" /\ tree[i].value = oid /\ tree[i + 1].depth = tree[i].depth}

Found(tree, oid) == Named(tree, oid) # {}

\* findASN1ValueByOID goes through the elements in the order they are written.
ValueOf(tree, oid) ==
    tree[1 + CHOOSE i \in Named(tree, oid) : \A j \in Named(tree, oid) : i <= j]

\* A bug that takes the content of whatever it is given.
UnwrapAnything(element) ==
    IF element.size > 0
    THEN [size |-> element.size, bytes |-> element.value]
    ELSE [size |-> element.size + 2, bytes |-> "encoding"]

\* The content of an octet string; anything else, and an empty octet string,
\* is taken as it is written.
Unwrap(element) ==
    IF element.tag = "octets" /\ element.size > 0
    THEN [size |-> element.size, bytes |-> element.value]
    ELSE [size |-> element.size + 2, bytes |-> "encoding"]

BytesOfSize(value, size) == IF value.size = size THEN value.bytes ELSE Blank

\* An extension that is the FMSPC itself, or that names it somewhere.
FMSPCItself(ext) == ext.id = FMSPCOID /\ Unwrap(ext.tree[1]).size = FMSPCSize

FMSPCWithin(ext) == ext.id \in {RootOID, FMSPCOID} /\ Found(ext.tree, FMSPCOID)

\* The first of them decides.
ExtractFMSPC(c) ==
    LET n == SelectInSeq(c.extensions, LAMBDA ext : FMSPCItself(ext) \/ FMSPCWithin(ext))
        ext == c.extensions[n]
    IN  IF n = 0 THEN Blank
        ELSE IF FMSPCItself(ext) THEN Unwrap(ext.tree[1]).bytes
        ELSE BytesOfSize(Unwrap(ValueOf(ext.tree, FMSPCOID)), FMSPCSize)

\* The first extension with the Intel root OID, and 0 stands for none.
ExtensionRoot(c) == SelectInSeq(c.extensions, LAMBDA ext : ext.id = RootOID)

InRoot(c, oid) == ExtensionRoot(c) # 0 /\ Found(c.extensions[ExtensionRoot(c)].tree, oid)

RootValue(c, oid) == ValueOf(c.extensions[ExtensionRoot(c)].tree, oid)

ExtractPCEID(c) ==
    IF InRoot(c, PCEIDOID) THEN BytesOfSize(Unwrap(RootValue(c, PCEIDOID)), PCEIDSize) ELSE Blank

IntInRoot(c, oid) == InRoot(c, oid) /\ RootValue(c, oid).tag = "int"
----------------------------------------------------------------------------
(* The decision *)

Final == {"accepted", "refused"}

Init ==
    /\ cert \in Certificate /\ quote \in Quote /\ body \in Body
    /\ pc = "fmspc" /\ svns = <<>> /\ pcesvn = 0 /\ level = 0

CheckFMSPC ==
    /\ pc = "fmspc"
    /\ LET fmspc == ExtractFMSPC(cert)
       IN  pc' = IF fmspc # Blank /\ fmspc = body.fmspc THEN "pceid" ELSE "refused"
    /\ UNCHANGED <<inputs, svns, pcesvn, level>>

CheckPCEID ==
    /\ pc = "pceid"
    /\ pc' = IF ExtractPCEID(cert) # Blank /\ body.pceid \in {Blank, ExtractPCEID(cert)}
             THEN "module" ELSE "refused"
    /\ UNCHANGED <<inputs, svns, pcesvn, level>>

\* An SGX quote, or a document without levels, is accepted here.
CheckModule ==
    /\ pc = "module"
    /\ pc' = IF quote.tdx /\ ~TDXModuleMatches(quote, body) THEN "refused"
             ELSE IF PlatformTCBChecked(quote, body) THEN "components" ELSE "accepted"
    /\ UNCHANGED <<inputs, svns, pcesvn, level>>

\* A bug that looks for one component too many.
ReadComponentOneMore ==
    /\ pc = "components" /\ Len(svns) <= Components
    /\ LET oid == ComponentOID(Len(svns) + 1) IN
       IF IntInRoot(cert, oid)
       THEN svns' = Append(svns, RootValue(cert, oid).value) /\ UNCHANGED pc
       ELSE pc' = "refused" /\ UNCHANGED svns
    /\ UNCHANGED <<inputs, pcesvn, level>>

ReadComponent ==
    /\ pc = "components" /\ Len(svns) < Components
    /\ LET oid == ComponentOID(Len(svns) + 1) IN
       IF IntInRoot(cert, oid)
       THEN svns' = Append(svns, RootValue(cert, oid).value) /\ UNCHANGED pc
       ELSE pc' = "refused" /\ UNCHANGED svns
    /\ UNCHANGED <<inputs, pcesvn, level>>

ReadPCESVN ==
    /\ pc = "components" /\ Len(svns) = Components
    /\ IF IntInRoot(cert, PCESVNOID)
       THEN pcesvn' = RootValue(cert, PCESVNOID).value /\ pc' = "levels"
       ELSE pc' = "refused" /\ UNCHANGED pcesvn
    /\ UNCHANGED <<inputs, svns, level>>

\* What the platform has, once everything is read.
Have == [sgx |-> svns, pcesvn |-> pcesvn]

\* A bug that goes on when the level that is met is not acceptable.
TryLevelGoesOn ==
    /\ pc = "levels" /\ level < Len(body.levels) /\ level' = level + 1
    /\ LET l == body.levels[level + 1] IN
       pc' = IF PlatformTCBMeetsLevel(Have, quote.tdxSVNs, l) /\ l.status \in AcceptableStatus
             THEN "accepted" ELSE "levels"
    /\ UNCHANGED <<inputs, svns, pcesvn>>

\* The first level that is met decides.
TryLevel ==
    /\ pc = "levels" /\ level < Len(body.levels) /\ level' = level + 1
    /\ LET l == body.levels[level + 1] IN
       pc' = IF ~PlatformTCBMeetsLevel(Have, quote.tdxSVNs, l) THEN "levels"
             ELSE IF l.status \in AcceptableStatus THEN "accepted" ELSE "refused"
    /\ UNCHANGED <<inputs, svns, pcesvn>>

NoLevel ==
    /\ pc = "levels" /\ level = Len(body.levels)
    /\ pc' = "refused"
    /\ UNCHANGED <<inputs, svns, pcesvn, level>>

Next ==
    \/ CheckFMSPC \/ CheckPCEID \/ CheckModule
    \/ ReadComponent \/ ReadPCESVN \/ TryLevel \/ NoLevel

Spec == Init /\ [][Next]_vars
----------------------------------------------------------------------------
(* Properties *)

PlatformTypeOK ==
    /\ cert \in Certificate /\ quote \in Quote /\ body \in Body
    /\ pc \in {"fmspc", "pceid", "module", "components", "levels"} \cup Final
    /\ Len(svns) \in 0..Components
    /\ level \in 0..Len(body.levels)
    /\ pc = "levels" => Len(svns) = Components

\* What the searches find in a certificate is what it was built from.
FoundAsHeld(c) ==
    /\ ExtractFMSPC(c) = c.holds.fmspc
    /\ ExtractPCEID(c) = c.holds.pceid
    /\ c.holds.tcb # Blank <=> \A oid \in TcbOIDs : IntInRoot(c, oid)
    /\ c.holds.tcb # Blank =>
          c.holds.tcb = [sgx |-> [i \in 1..Components |-> RootValue(c, ComponentOID(i)).value],
                         pcesvn |-> RootValue(c, PCESVNOID).value]

\* In whatever order a certificate writes its entries, and whatever else it
\* holds, findASN1ValueByOID finds each of its values: an OID that is itself
\* a value does not lead it astray, nor does an extension before the root.
SearchesFindWhatIsHeld == cert.holds # Blank => FoundAsHeld(cert)

\* Read off value by value and compared level by level, with every early
\* return, a platform is taken exactly when verifyTCBInfoCollateralBytes
\* promises it for the values its certificate was built from.
ImplementsTakesPlatform ==
    pc \in Final /\ cert.holds # Blank =>
        (pc = "accepted" <=> TakesPlatform(cert.holds, quote, body))

\* What is written next to an OID, where the code may look for it.
Beside(ext, oid) == {ext.tree[i + 1] : i \in Named(ext.tree, oid)}

ExtensionsWith(ids) ==
    {ext \in {cert.extensions[n] : n \in 1..Len(cert.extensions)} : ext.id \in ids}

BesideInRoot(oid) == UNION {Beside(ext, oid) : ext \in ExtensionsWith({RootOID})}

FMSPCWritten ==
    (UNION {Beside(ext, FMSPCOID) : ext \in ExtensionsWith({RootOID, FMSPCOID})})
    \cup {ext.tree[1] : ext \in ExtensionsWith({FMSPCOID})}

HasOctets(elements, size, value) ==
    \E v \in elements : v.tag = "octets" /\ v.size = size /\ v.value = value

HasIntFrom(elements, n) == \E v \in elements : v.tag = "int" /\ v.value >= n

\* However a certificate is written, in Intel's layout or not, what a platform
\* is accepted on stands in it: FMSPC and PCEID as octet strings of six and two
\* bytes, and for some acceptable level every SVN as an integer, each at its OID.
\* No header that unwrapASN1OctetString leaves in place, and no value that is
\* too long or of another type, ever counts (collateral.go:152-200, 348-379),
\* unless the document itself asks for the bytes of an encoding.
AcceptedOnWrittenValues ==
    pc = "accepted" /\ "encoding" \notin {body.fmspc, body.pceid} =>
        /\ HasOctets(FMSPCWritten, FMSPCSize, body.fmspc)
        /\ body.pceid # Blank => HasOctets(BesideInRoot(PCEIDOID), PCEIDSize, body.pceid)
        /\ PlatformTCBChecked(quote, body) =>
              \E l \in ToSet(body.levels) :
                 /\ l.status \in AcceptableStatus /\ Len(l.sgx) <= Components
                 /\ \A i \in DOMAIN l.sgx : HasIntFrom(BesideInRoot(ComponentOID(i)), l.sgx[i])
                 /\ HasIntFrom(BesideInRoot(PCESVNOID), l.pcesvn)

\* Every platform that is nowhere behind this one.
Upgrades ==
    {up \in [sgx : [1..Components -> 0..MaxSVN], pcesvn : 0..MaxSVN,
             tdx : [DOMAIN quote.tdxSVNs -> 0..MaxSVN]] :
        /\ up.pcesvn >= pcesvn
        /\ \A i \in 1..Components : up.sgx[i] >= svns[i]
        /\ \A i \in DOMAIN quote.tdxSVNs : up.tdx[i] >= quote.tdxSVNs[i]}

\* Intel lists the levels it accepts before those it does not.
AcceptableFirst(levels) ==
    \A i, j \in DOMAIN levels :
        i < j /\ levels[j].status \in AcceptableStatus => levels[i].status \in AcceptableStatus

\* The search stops at the first level met, so a newer platform may be matched
\* to another level than the one that let the older one pass: it still passes.
UpgradeNeverRefused ==
    pc = "accepted" /\ PlatformTCBChecked(quote, body) /\ AcceptableFirst(body.levels) =>
        \A up \in Upgrades :
            EvaluatePlatformTCB([sgx |-> up.sgx, pcesvn |-> up.pcesvn], up.tdx, body.levels)
=============================================================================
