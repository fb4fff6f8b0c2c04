------------------------- MODULE Acceptance_proofs -------------------------
(***************************************************************************)
(* What acceptance and refusal by VerifyQuoteWithCollateral (module        *)
(* Verifier) mean for the documents a check was decided on: which of them  *)
(* are the same, which certificates they clear and when they are valid;    *)
(* and that nothing acceptable is refused unless a document of a planned   *)
(* check is replaced meanwhile.  All of it follows from the invariant of   *)
(* Verifier_proofs, that what was read was available, and from the reasons *)
(* that module finds for a refusal.  SourceInv adds when a document is     *)
(* available as one thing only.                                            *)
(***************************************************************************)
EXTENDS Verifier_proofs, FiniteSetTheorems
----------------------------------------------------------------------------
(* What a run was decided on *)

\* When a run has accepted, every planned check lies behind it, passed on its
\* documents, and these are blobs that could be read.
LEMMA AcceptedChecks ==
    ASSUME VerifierInv, pc = "accepted", NEW check \in Check \cap plan
    PROVE  /\ used[check] \in Seq(Blob) /\ Len(used[check]) = Len(Documents[check])
           /\ Verified(check, used[check], req)
           /\ \A i \in DOMAIN Documents[check] : used[check][i] \in Blob
  <1>1. pc \in Checking /\ check \in Behind[pc] \cap plan
    BY DEF Checking, Behind
  <1>2. /\ used[check] \in Seq(Blob) /\ Len(used[check]) = Len(Documents[check])
        /\ Verified(check, used[check], req)
    BY <1>1 DEF VerifierInv, DocumentInv
  <1>3. \A i \in DOMAIN Documents[check] : used[check][i] \in Blob
    BY <1>2, CheckDocuments
  <1>4. QED
    BY <1>2, <1>3

\* With both revocation checks, neither the leaf nor a certificate that issued
\* it is on the list of its issuer, for chains of any length and order and
\* whatever happened to the files between the two reads (verifier.go:126-139).
\* What counts is that the list a run takes for the leaf is signed by the
\* second certificate: a list of the leaf's issuer makes them the same.
THEOREM NoRevokedCertificateAlways == Spec => []NoRevokedCertificateOnPath
  <1> DEFINE certs == req.quote.certs
             leaf == PCKLeaf(req)
             second == PCKIssuer(req)
             list == used["pckCRL"][1]
             rootList == used["rootCRL"][1]
  <1>1. ASSUME VerifierInv, pc = "accepted", ChainCollateral \subseteq plan,
               Issued(second, leaf) \/ list.signer = leaf.signer,
               \A cert \in ToSet(certs) : cert.key = second.key => cert = second
        PROVE  /\ leaf.serial \notin list.revoked
               /\ \A issuer \in ToSet(certs) : Issued(issuer, leaf) =>
                     /\ CRLSignedBy(list, issuer) /\ CRLSignedBy(rootList, req.root)
                     /\ issuer.serial \notin rootList.revoked
    <2>1. {"pckCRL", "rootCRL"} \subseteq Check \cap plan
      BY <1>1 DEF ChainCollateral, Check
    <2>2. Verified("pckCRL", used["pckCRL"], req) /\ Verified("rootCRL", used["rootCRL"], req)
      BY <1>1, <2>1, AcceptedChecks
    <2>3. VerifyPCKCRL(list, second, leaf, req.time, req.ignoreFreshness)
      BY <2>2 DEF Verified
    <2>4. VerifyRootCACRL(rootList, req.root, {second}, req.time, req.ignoreFreshness)
      BY <2>2 DEF Verified
    <2> HIDE DEF list, rootList, second, leaf, certs
    <2>5. /\ CRLSignedBy(list, second) /\ leaf.serial \notin list.revoked
          /\ CRLSignedBy(rootList, req.root) /\ second.serial \notin rootList.revoked
      BY <2>3, <2>4 DEF VerifyPCKCRL, VerifyRootCACRL, IsSerialRevoked
    <2>6. leaf.signer = second.key
      BY <1>1, <2>5 DEF CRLSignedBy, Issued
    <2>7. \A issuer \in ToSet(certs) : Issued(issuer, leaf) => issuer = second
      BY <1>1, <2>6 DEF Issued
    <2>8. QED
      BY <2>5, <2>7
  <1>2. VerifierInv => NoRevokedCertificateOnPath
    BY <1>1 DEF NoRevokedCertificateOnPath
  <1>3. QED
    BY <1>2, VerifierInvAlways, PTL

\* What a signed document was accepted on: a chain that leads to the root, and
\* a list of the root that clears its first certificate.
LEMMA AcceptedSigned ==
    ASSUME VerifierInv, pc = "accepted", NEW check \in SignedChecks \cap plan
    PROVE  /\ check \in Check /\ \A i \in 1..3 : used[check][i] \in Blob
           /\ SignedUnderRoot(used[check][1], used[check][2], used[check][3], req.root,
                              req.time, req.ignoreFreshness)
  <1>1. check \in Check \cap plan
    BY DEF SignedChecks, Check
  <1>2. Verified(check, used[check], req) /\ \A i \in DOMAIN Documents[check] : used[check][i] \in Blob
    BY <1>1, AcceptedChecks
  <1>3. CASE check = "tcbInfo"
    <2>1. 1..3 \subseteq DOMAIN Documents["tcbInfo"]
      BY DEF Documents
    <2>2. VerifyTCBInfo(used[check][1], used[check][2], used[check][3], req.root, PCKLeaf(req),
                        req.quote, req.time, req.ignoreFreshness)
      BY <1>2, <1>3 DEF Verified
    <2>3. QED
      BY <1>1, <1>2, <1>3, <2>1, <2>2 DEF VerifyTCBInfo
  <1>4. CASE check = "qeIdentity"
    <2>1. 1..3 \subseteq DOMAIN Documents["qeIdentity"]
      BY DEF Documents
    <2>2. VerifyQEIdentity(used[check][1], used[check][2], used[check][3], req.root,
                           req.quote.qe, req.time, req.ignoreFreshness)
      BY <1>2, <1>4 DEF Verified
    <2>3. QED
      BY <1>1, <1>2, <1>4, <2>1, <2>2 DEF VerifyQEIdentity
  <1>5. QED
    BY <1>3, <1>4 DEF SignedChecks

\* The list the Root CA check was passed on, and that of the PCK check.
LEMMA AcceptedLists ==
    ASSUME VerifierInv, pc = "accepted"
    PROVE  /\ "rootCRL" \in plan =>
                 used["rootCRL"][1] \in Blob
                 /\ VerifyRootCACRL(used["rootCRL"][1], req.root, {PCKIssuer(req)}, req.time,
                                    req.ignoreFreshness)
           /\ "pckCRL" \in plan =>
                 used["pckCRL"][1] \in Blob
                 /\ VerifyPCKCRL(used["pckCRL"][1], PCKIssuer(req), PCKLeaf(req), req.time,
                                 req.ignoreFreshness)
  <1>1. \A check \in Check \cap plan : Verified(check, used[check], req)
           /\ \A i \in DOMAIN Documents[check] : used[check][i] \in Blob
    BY AcceptedChecks
  <1>2. 1 \in DOMAIN Documents["rootCRL"] /\ 1 \in DOMAIN Documents["pckCRL"]
    BY DEF Documents
  <1>3. QED
    BY <1>1, <1>2 DEF Verified, Check

\* Where the Root CA list was available as one thing only, every check that
\* consults it consults that.
LEMMA AcceptedRootList ==
    ASSUME VerifierInv, pc = "accepted", \A l, m \in available["RootCRL"] : l = m
    PROVE  /\ \A l \in RootLists : l \in available["RootCRL"]
           /\ \A l, m \in RootLists : l = m
  <1>1. ASSUME NEW check \in Check \cap plan
        PROVE  \A i \in DOMAIN Documents[check] :
                  used[check][i] \in available[Documents[check][i]]
    <2>1. check \in Behind[pc] \cap plan /\ pc \in Checking
      BY <1>1 DEF Behind, Checking
    <2>2. /\ ReadAs(check, used[check]) /\ used[check] \in Seq(Blob)
          /\ Len(used[check]) = Len(Documents[check])
      BY <1>1, <2>1 DEF VerifierInv, DocumentInv
    <2>3. QED
      BY <1>1, <2>2, CheckDocuments DEF ReadAs
  <1>2. /\ 1 \in DOMAIN Documents["rootCRL"] /\ Documents["rootCRL"][1] = "RootCRL"
        /\ 3 \in DOMAIN Documents["tcbInfo"] /\ Documents["tcbInfo"][3] = "RootCRL"
        /\ 3 \in DOMAIN Documents["qeIdentity"] /\ Documents["qeIdentity"][3] = "RootCRL"
    BY DEF Documents
  <1>3. \A l \in RootLists : l \in available["RootCRL"]
    BY <1>1, <1>2 DEF RootLists, SignedChecks, Check
  <1>4. QED
    BY <1>3

\* With a Root CA list that nobody replaces, one list clears the intermediate
\* and both signing certificates (collateral.go:137, 242, verifier.go:133-139).
THEOREM OneRootListAlways == Spec => []OneRootListClearsAll
  <1>1. ASSUME VerifierInv PROVE OneRootListClearsAll
    <2> SUFFICES ASSUME pc = "accepted", \A l, m \in available["RootCRL"] : l = m
                 PROVE  /\ Cardinality(RootLists) <= 1
                        /\ \A l \in RootLists :
                              \A c \in SigningCerts \cup
                                       {cert \in {PCKIssuer(req)} : "rootCRL" \in plan} :
                                 ~IsSerialRevoked(l, c.serial)
      BY DEF OneRootListClearsAll
    <2>1. \A l, m \in RootLists : l = m
      BY <1>1, AcceptedRootList
    <2>2. Cardinality(RootLists) <= 1
      <3>1. RootLists = {} \/ \E list : RootLists = {list}
        BY <2>1
      <3>2. \A S : S = {} => Cardinality(S) = 0
        BY FS_EmptySet
      <3>3. \A x : Cardinality({x}) = 1
        BY FS_Singleton
      <3>4. Cardinality(RootLists) \in {0, 1}
        BY <3>1, <3>2, <3>3, Zenon
      <3>5. QED
        BY <3>4
    <2>3. ASSUME NEW l \in RootLists, NEW check \in SignedChecks \cap plan
          PROVE  ~IsSerialRevoked(l, Head(used[check][2].certs).serial)
      <3>1. used[check][3] \in RootLists
        BY DEF RootLists
      <3>2. l = used[check][3]
        BY <2>1, <3>1
      <3>3. VerifyRootCACRL(used[check][3], req.root, {Head(used[check][2].certs)}, req.time,
                            req.ignoreFreshness)
        BY <1>1, AcceptedSigned DEF SignedUnderRoot
      <3>4. QED
        BY <3>2, <3>3 DEF VerifyRootCACRL
    <2>4. ASSUME NEW l \in RootLists, "rootCRL" \in plan
          PROVE  ~IsSerialRevoked(l, PCKIssuer(req).serial)
      <3>1. used["rootCRL"][1] \in RootLists
        BY <2>4 DEF RootLists
      <3>2. l = used["rootCRL"][1]
        BY <2>1, <3>1
      <3>3. QED
        BY <1>1, <2>4, <3>2, AcceptedLists DEF VerifyRootCACRL
    <2>5. QED
      BY <2>2, <2>3, <2>4 DEF SigningCerts
  <1>2. QED
    BY <1>1, VerifierInvAlways, PTL

\* The two ends of a chain are valid when it is verified.
LEMMA EndsAreValid ==
    ASSUME NEW leaf, NEW chain, NEW root, NEW time, time # ZeroTime,
           VerifyCertChain(leaf, chain, root, time)
    PROVE  ValidAt(leaf, time) /\ ValidAt(root, time)
  BY DEF VerifyCertChain, CurrentTime, PathToRoot

\* A list that is fresh is in force at a time that is not the zero time.
LEMMA FreshList ==
    ASSUME NEW blob \in Blob, blob.kind = "crl", NEW time \in Nat, CRLFresh(blob, time, FALSE)
    PROVE  /\ time # ZeroTime /\ blob.thisUpdate <= time
           /\ blob.nextUpdate = ZeroTime \/ time <= blob.nextUpdate
  <1>1. blob.thisUpdate \in Nat \ {0} /\ blob.thisUpdate <= time
    BY DatesAssumption DEF CRLFresh, ZeroTime
  <1>2. time # 0
    BY <1>1
  <1>3. QED
    BY <1>1, <1>2 DEF CRLFresh, ZeroTime

\* The lists of a run that accepted are fresh.
LEMMA ListsAreFresh ==
    ASSUME VerifierInv, pc = "accepted", ~req.ignoreFreshness, NEW l \in Lists
    PROVE  l \in Blob /\ l.kind = "crl" /\ CRLFresh(l, req.time, FALSE)
  <1>1. CASE l \in {used[c][1] : c \in {"rootCRL"} \cap plan}
    BY <1>1, AcceptedLists DEF VerifyRootCACRL, CRLFresh
  <1>2. CASE l \in {used[c][1] : c \in {"pckCRL"} \cap plan}
    BY <1>2, AcceptedLists DEF VerifyPCKCRL, CRLFresh
  <1>3. CASE l \in {used[c][3] : c \in SignedChecks \cap plan}
    <2>1. PICK check \in SignedChecks \cap plan : l = used[check][3]
      BY <1>3
    <2>2. l \in Blob
      BY <2>1, AcceptedSigned
    <2>3. VerifyRootCACRL(l, req.root, {Head(used[check][2].certs)}, req.time, req.ignoreFreshness)
      BY <2>1, AcceptedSigned DEF SignedUnderRoot
    <2>4. QED
      BY <2>2, <2>3 DEF VerifyRootCACRL, CRLFresh
  <1>4. QED
    BY <1>1, <1>2, <1>3 DEF Lists, RootLists

\* Unless freshness is relaxed, everything a run accepted is valid at the one
\* verification time, however long it took to read it (crl.go:66-81,
\* collateral.go:309-346, certs.go:63-87).
THEOREM ValidAtOneInstantAlways == Spec => []ValidAtOneInstant
  <1>1. ASSUME VerifierInv PROVE ValidAtOneInstant
    <2> SUFFICES ASSUME pc = "accepted", ~req.ignoreFreshness, Lists # {}
                 PROVE  /\ req.time # ZeroTime
                        /\ \A l \in Lists :
                              /\ l.thisUpdate <= req.time
                              /\ l.nextUpdate = ZeroTime \/ req.time <= l.nextUpdate
                        /\ \A d \in SignedDocuments :
                              d.body.issue <= req.time /\ req.time <= d.body.next
                        /\ \A c \in SigningCerts \cup {PCKLeaf(req), req.root} :
                              ValidAt(c, req.time)
      BY DEF ValidAtOneInstant
    <2>1. req.time \in Nat
      <3>1. req \in Request
        BY <1>1 DEF VerifierInv, PlanInv, PlanTypeOK
      <3>2. QED
        BY <3>1, DatesAssumption
    <2>2. \A l \in Lists : /\ req.time # ZeroTime /\ l.thisUpdate <= req.time
                           /\ l.nextUpdate = ZeroTime \/ req.time <= l.nextUpdate
      BY <1>1, <2>1, ListsAreFresh, FreshList
    <2>3. req.time # ZeroTime
      BY <2>2
    <2>4. \A d \in SignedDocuments : d.body.issue <= req.time /\ req.time <= d.body.next
      BY <1>1, AcceptedSigned DEF SignedDocuments, SignedUnderRoot, CollateralFresh
    <2>5. \A c \in SigningCerts : ValidAt(c, req.time)
      BY <1>1, <2>3, AcceptedSigned, EndsAreValid DEF SigningCerts, SignedUnderRoot
    <2>6. ValidAt(PCKLeaf(req), req.time) /\ ValidAt(req.root, req.time)
      <3>1. EvidenceOK(req)
        BY <1>1 DEF VerifierInv, ControlInv, Checking
      <3>2. QED
        BY <2>3, <3>1, EndsAreValid DEF EvidenceOK
    <2>7. QED
      BY <2>2, <2>3, <2>4, <2>5, <2>6
  <1>2. QED
    BY <1>1, VerifierInvAlways, PTL

----------------------------------------------------------------------------
(* Exactness *)

\* Documents a check may be given are what there is to be read now, unless
\* one of them was there as something else.
LEMMA ObtainableIsNow ==
    ASSUME Undisturbed, NEW check \in Check \cap PlannedFlags(req),
           NEW docs \in Promise!Obtainable(check)
    PROVE  docs = DocumentsFrom(check, CollateralNow)
  <1>1. /\ docs \in [DOMAIN Documents[check] ->
                       UNION {available[Documents[check][i]] : i \in DOMAIN Documents[check]}]
        /\ \A i \in DOMAIN docs : docs[i] \in available[Documents[check][i]]
    BY Zenon DEF Promise!Obtainable
  <1>2. \A i \in DOMAIN Documents[check] : docs[i] = CollateralNow[Documents[check][i]]
    BY <1>1 DEF Undisturbed
  <1>3. docs = [i \in DOMAIN Documents[check] |-> docs[i]]
    BY <1>1
  <1>4. QED
    BY <1>2, <1>3 DEF DocumentsFrom

\* When nothing that a planned check reads was ever there as something else,
\* the verdict is exact: what is acceptable is accepted, and what is accepted
\* is acceptable (verifier.go:77-186).
THEOREM ExactAlways == Spec => []ExactWhenUndisturbed
  <1>1. ASSUME AcceptedInv, RefusedInv PROVE ExactWhenUndisturbed
    <2> SUFFICES ASSUME ~Running, Undisturbed, fetch # "failed"
                 PROVE  pc = "accepted" <=> Acceptable
      BY DEF ExactWhenUndisturbed
    <2>1. CASE pc = "accepted"
      <3>1. Promise!Proper /\ \A check \in Promise!Planned : Promise!Justified(check)
        BY <1>1, <2>1 DEF AcceptedInv
      <3>2. ASSUME NEW check \in Check \cap PlannedFlags(req)
            PROVE  PassesOn(check, CollateralNow)
        <4>1. PICK docs \in Promise!Obtainable(check) : Verified(check, docs, req)
          BY <3>1, <3>2 DEF Promise!Planned, Promise!Justified
        <4>2. docs = DocumentsFrom(check, CollateralNow)
          BY <3>2, ObtainableIsNow
        <4>3. /\ check = "tdxPolicy" => PolicyGiven(req)
              /\ \A i \in DOMAIN Documents[check] : docs[i] \notin {Missing, NoContent}
          BY <3>2, <4>1, NothingPassesOnNothing
        <4>4. \A i \in DOMAIN Documents[check] : docs[i] = CollateralNow[Documents[check][i]]
          BY <4>2 DEF DocumentsFrom
        <4>5. QED
          BY <4>1, <4>2, <4>3, <4>4 DEF PassesOn
      <3>3. QED
        BY <2>1, <3>1, <3>2 DEF Acceptable, Promise!Proper
    <2>2. CASE pc = "rejected"
      <3>1. Reason
        BY <1>1, <2>2 DEF RefusedInv
      <3>2. CASE ~Promise!Proper
        BY <2>2, <3>2 DEF Acceptable, Promise!Proper
      <3>3. CASE Promise!Proper
        <4>1. PICK check \in Promise!Planned : Promise!Contested(check)
          BY <3>1, <3>3 DEF Reason
        <4>2. check \in Check \cap PlannedFlags(req)
          BY DEF Promise!Planned
        <4>3. PICK docs \in Promise!Obtainable(check) : ~Verified(check, docs, req)
          BY <4>1 DEF Promise!Contested
        <4>4. docs = DocumentsFrom(check, CollateralNow)
          BY <4>2, ObtainableIsNow
        <4>5. ~PassesOn(check, CollateralNow)
          BY <4>3, <4>4 DEF PassesOn
        <4>6. QED
          BY <2>2, <4>2, <4>5 DEF Acceptable
      <3>4. QED
        BY <3>2, <3>3
    <2>3. QED
      BY <2>1, <2>2 DEF Running, Final
  <1>2. QED
    BY <1>1, VerifierInvAlways, AcceptedFromInv, RefusedInvAlways, PTL
----------------------------------------------------------------------------
(* When nothing is disturbed *)

\* A document comes from one source: a bundle gives it once, and so does a
\* file that nobody replaces.
SourceInv ==
    /\ edits = 0 => \A d \in Document : ReadsFile(d) => available[d] = {files[PathOf[d]]}
    /\ Source(req) = "pcs" =>
          \A d \in Slot : available[d] = IF fetch = "ok" THEN {bundle[d]} ELSE {}
    /\ Source(req) # "pcs" /\ req.bundle # NoBundle =>
          \A d \in Slot : available[d] = {req.bundle[d]}

LEMMA SourceInvStep ==
    ASSUME VerifierInv, SourceInv, [Next]_vars
    PROVE  SourceInv'
  <1>1. req' = req /\ \A d : ReadsFile(d)' = ReadsFile(d)
    BY RequestFixed DEF ReadsFile
  <1>2. \A d \in Slot : d \in Document /\ (ReadsFile(d) => Source(req) # "pcs" /\ req.bundle = NoBundle)
    BY SlotDocuments DEF ReadsFile
  <1>3. CASE UNCHANGED <<worldVars, fetch, bundle>>
    BY <1>1, <1>3 DEF SourceInv, worldVars
  <1>4. ASSUME NEW path \in Path, NEW content \in FileContent[path], ReplaceFile(path, content)
        PROVE  SourceInv'
    <2>1. /\ edits' = edits + 1 /\ fetch' = fetch /\ bundle' = bundle
          /\ available' = [d \in Document |->
                IF PathOf[d] = path /\ ReadsFile(d) THEN available[d] \cup {content}
                                                   ELSE available[d]]
      BY <1>4 DEF ReplaceFile, fetchVars, clientVars
    <2>2. edits' # 0
      <3>1. edits \in Nat
        BY VerifierAssumption DEF VerifierInv, WorldInv
      <3>2. QED
        BY <2>1, <3>1
    <2>3. \A d \in Slot : ~ReadsFile(d) => available'[d] = available[d]
      BY <1>2, <2>1
    <2>4. QED
      BY <1>1, <1>2, <2>1, <2>2, <2>3 DEF SourceInv
  <1>5. CASE Fetch
    <2>1. /\ UNCHANGED <<files, edits>> /\ pc = "fetch" /\ fetch # "ok" /\ Source(req) = "pcs"
      BY <1>5 DEF Fetch, VerifierInv, ControlInv, NeedsFetch
    <2>2. CASE fetch' = "ok"
      <3>1. available' = [d \in Document |-> IF d \in Slot THEN available[d] \cup {bundle'[d]}
                                                           ELSE available[d]]
        BY <1>5, <2>2 DEF Fetch
      <3>2. \A d \in Slot : available'[d] = {bundle'[d]}
        BY <1>2, <2>1, <3>1 DEF SourceInv
      <3>3. \A d \in Document : ReadsFile(d) => available'[d] = available[d]
        BY <1>2, <2>1, <3>1
      <3>4. QED
        BY <1>1, <2>1, <2>2, <3>2, <3>3 DEF SourceInv
    <2>3. CASE fetch' # "ok"
      <3>1. available' = available
        BY <1>5, <2>3 DEF Fetch
      <3>2. QED
        BY <1>1, <2>1, <2>3, <3>1 DEF SourceInv
    <2>4. QED
      BY <2>2, <2>3
  <1>6. QED
    BY <1>3, <1>4, <1>5
    DEF Next, VerifierStep, WorldStep, Start, ResolvePlan, VerifyEvidence, Skip, ReadFile,
        TakeFromBundle, Decide, PCSPublish, PublishStep, Publish, vars, worldVars, fetchVars,
        clientVars

LEMMA SourceInvAlways == Spec => []SourceInv
  <1>1. Init => SourceInv
    BY SlotDocuments DEF Init, FetchInit, SourceInv, ReadsFile
  <1>2. VerifierInv /\ SourceInv /\ [Next]_vars => SourceInv'
    BY SourceInvStep
  <1>3. QED
    BY <1>1, <1>2, VerifierInvAlways, PTL DEF Spec

\* What a document was available as is what there is to be read now.
LEMMA AvailableIsNow ==
    ASSUME VerifierInv, SourceInv, edits = 0, NEW d \in Document
    PROVE  available[d] \subseteq {CollateralNow[d]}
  <1>1. CollateralNow[d] = IF d \in Slot /\ Collateral # NoBundle
                           THEN Collateral[d] ELSE files[PathOf[d]]
    BY DEF CollateralNow
  <1>2. CASE ReadsFile(d)
    <2>1. available[d] = {files[PathOf[d]]}
      BY <1>2 DEF SourceInv
    <2>2. d \in Slot => Collateral = NoBundle
      BY <1>2 DEF ReadsFile, VerifierInv, ControlInv, NeedsFetch, Collateral
    <2>3. QED
      BY <1>1, <2>1, <2>2
  <1>3. CASE ~ReadsFile(d) /\ Source(req) = "pcs"
    <2>1. d \in Slot
      BY <1>3 DEF ReadsFile
    <2>2. available[d] = IF fetch = "ok" THEN {bundle[d]} ELSE {}
      BY <1>3, <2>1 DEF SourceInv
    <2>3. fetch = "ok" => Collateral = bundle /\ bundle # NoBundle
      BY BundleContents DEF Collateral, VerifierInv
    <2>4. QED
      BY <1>1, <2>1, <2>2, <2>3
  <1>4. CASE ~ReadsFile(d) /\ Source(req) # "pcs"
    <2>1. d \in Slot /\ req.bundle # NoBundle
      BY <1>4 DEF ReadsFile
    <2>2. available[d] = {req.bundle[d]}
      BY <1>4, <2>1 DEF SourceInv
    <2>3. Collateral = req.bundle
      BY <1>4 DEF VerifierInv, ControlInv, NeedsFetch, Collateral
    <2>4. QED
      BY <1>1, <2>1, <2>2, <2>3
  <1>5. QED
    BY <1>2, <1>3, <1>4

\* As long as no file is replaced, whatever the service publishes meanwhile,
\* nothing is disturbed.  And with a bundle, given or fetched, the Root CA
\* list is one and the same for all checks, whatever happens to the files
\* (verifier.go:113-139).
THEOREM StandingStillDisturbsNothing ==
    Spec => [](/\ edits = 0 => Undisturbed
               /\ edits = 0 \/ ~ReadsFile("RootCRL") => \A l, m \in available["RootCRL"] : l = m)
  <1>1. ASSUME VerifierInv, SourceInv, edits = 0 PROVE Undisturbed
    BY <1>1, AvailableIsNow, CheckDocuments DEF Undisturbed
  <1>2. ASSUME SourceInv, edits = 0 \/ ~ReadsFile("RootCRL")
        PROVE  \A l, m \in available["RootCRL"] : l = m
    <2>1. "RootCRL" \in Slot /\ "RootCRL" \in Document
      BY DEF Slot, Document
    <2>2. CASE ReadsFile("RootCRL")
      <3>1. available["RootCRL"] = {files[PathOf["RootCRL"]]}
        BY <1>2, <2>1, <2>2 DEF SourceInv
      <3>2. QED
        BY <3>1
    <2>3. CASE ~ReadsFile("RootCRL")
      <3>1. available["RootCRL"] \in {{}, {bundle["RootCRL"]}, {req.bundle["RootCRL"]}}
        BY <1>2, <2>1, <2>3 DEF SourceInv, ReadsFile
      <3>2. QED
        BY <3>1
    <2>4. QED
      BY <2>2, <2>3
  <1>3. VerifierInv /\ SourceInv =>
           /\ edits = 0 => Undisturbed
           /\ edits = 0 \/ ~ReadsFile("RootCRL") => \A l, m \in available["RootCRL"] : l = m
    BY <1>1, <1>2
  <1>4. QED
    BY <1>3, VerifierInvAlways, SourceInvAlways, PTL
----------------------------------------------------------------------------
(* What the report of tcbinfo stands for *)

\* docs/output-guide.md:106 takes line [7] for a matched TCB level
\* (TCBLevelMatchedWhenReported).  That is so whenever the quote is a TDX quote
\* and the document lists levels, and then the level met first is one that is
\* acceptable (collateral.go:185-200, 444).
LevelMatchedWhereThereAreAny ==
    pc = "accepted" /\ "tcbInfo" \in plan
      /\ PlatformTCBChecked(req.quote, used["tcbInfo"][1].body) =>
        /\ TCBLevelMatchedWhenReported
        /\ LET levels == used["tcbInfo"][1].body.levels
           IN  levels[MatchedTCBLevel(PCKLeaf(req).tcb, req.quote.tdxSVNs, levels)].status
                   \in AcceptableStatus

THEOREM LevelMatchedAlways == Spec => []LevelMatchedWhereThereAreAny
  <1>1. ASSUME VerifierInv, pc = "accepted", "tcbInfo" \in plan,
               PlatformTCBChecked(req.quote, used["tcbInfo"][1].body)
        PROVE  /\ req.quote.tdx /\ PCKLeaf(req).tcb # Blank
               /\ EvaluatePlatformTCB(PCKLeaf(req).tcb, req.quote.tdxSVNs,
                                      used["tcbInfo"][1].body.levels)
    <2>1. "tcbInfo" \in Check \cap plan
      BY <1>1 DEF Check
    <2>2. Verified("tcbInfo", used["tcbInfo"], req)
      BY <1>1, <2>1, AcceptedChecks
    <2>3. TakesPlatform(PCKLeaf(req), req.quote, used["tcbInfo"][1].body)
      BY <2>2 DEF Verified, VerifyTCBInfo
    <2>4. QED
      BY <1>1, <2>3 DEF TakesPlatform, PlatformTCBChecked
  <1>2. VerifierInv => LevelMatchedWhereThereAreAny
    BY <1>1 DEF LevelMatchedWhereThereAreAny, TCBLevelMatchedWhenReported, EvaluatePlatformTCB
  <1>3. QED
    BY <1>2, VerifierInvAlways, PTL
----------------------------------------------------------------------------
(* The certificates that travel with a quote or a document *)

\* verifyCertChain (certs.go:68) takes them as a pool: a chain that leads to the
\* root still does with more certificates beside it, in any order, repeated,
\* and whether or not a root is among them.
THEOREM TravellersOnlyHelp ==
    ASSUME NEW leaf, NEW chain, NEW more, NEW root, NEW time,
           IsFiniteSet(ToSet(more)), ToSet(chain) \subseteq ToSet(more),
           VerifyCertChain(leaf, chain, root, time)
    PROVE  VerifyCertChain(leaf, more, root, time)
  <1> DEFINE now == CurrentTime(time)
             Usable(certs) == {cert \in Intermediates(certs, root) \cup {root} : ValidAt(cert, now)}
             few == Usable(chain)
             many == Usable(more)
  <1>1. ValidAt(leaf, now) /\ ValidAt(root, now)
    BY DEF VerifyCertChain, PathToRoot
  <1>2. few \subseteq many
    BY DEF Intermediates
  <1>3. IsFiniteSet(many)
    <2>1. IsFiniteSet(ToSet(more) \cup {root})
      BY FS_AddElement
    <2>2. many \subseteq ToSet(more) \cup {root}
      BY DEF Intermediates
    <2>3. QED
      BY <2>1, <2>2, FS_Subset
  <1>4. IsFiniteSet(few) /\ Cardinality(few) <= Cardinality(many)
    BY <1>2, <1>3, FS_Subset
  <1>5. Cardinality(few) \in Nat /\ Cardinality(many) \in Nat
    BY <1>3, <1>4, FS_CardinalityType
  <1>6. CASE leaf = root
    BY <1>1, <1>6 DEF VerifyCertChain, PathToRoot
  <1>7. CASE leaf # root
    <2>1. PICK n \in 1..Cardinality(few) : \E path \in [1..n -> few] :
              /\ Issued(path[1], leaf) /\ path[n] = root
              /\ \A i \in 2..n : Issued(path[i], path[i - 1])
      BY <1>7 DEF VerifyCertChain, PathToRoot
    <2> HIDE DEF few, many
    <2>2. PICK path \in [1..n -> few] :
              /\ Issued(path[1], leaf) /\ path[n] = root
              /\ \A i \in 2..n : Issued(path[i], path[i - 1])
      BY <2>1
    <2>3. path \in [1..n -> many] /\ n \in 1..Cardinality(many)
      BY <1>2, <1>4, <1>5
    <2>4. \E k \in 1..Cardinality(many) : \E p \in [1..k -> many] :
              /\ Issued(p[1], leaf) /\ p[k] = root
              /\ \A i \in 2..k : Issued(p[i], p[i - 1])
      BY <2>2, <2>3
    <2>5. QED
      BY <1>1, <2>4 DEF VerifyCertChain, PathToRoot, many
  <1>8. QED
    BY <1>6, <1>7

\* The caller's root is the only one: a root that travels along, the caller's
\* or another, changes no verdict (certs.go:63-74).
THEOREM TravellingRootsCountForNothing ==
    ASSUME NEW leaf, NEW chain, NEW more, NEW root, NEW time,
           ToSet(chain) \subseteq ToSet(more),
           \A cert \in ToSet(more) \ ToSet(chain) : cert = root \/ IsSelfSigned(cert)
    PROVE  VerifyCertChain(leaf, more, root, time) <=> VerifyCertChain(leaf, chain, root, time)
  <1>1. Intermediates(more, root) = Intermediates(chain, root)
    BY DEF Intermediates
  <1>2. QED
    BY <1>1 DEF VerifyCertChain
=============================================================================
