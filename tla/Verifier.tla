------------------------------ MODULE Verifier ------------------------------
(***************************************************************************)
(* VerifyQuoteWithCollateral of internal/tdxattest/verifier.go: the        *)
(* pipeline that resolves the plan (module CheckPlan), verifies the        *)
(* certificate chain of the quote, fetches collateral if it has to (module *)
(* PcsFetch), and runs the planned checks one after the other, each on     *)
(* documents it reads one by one.                                          *)
(*                                                                         *)
(* The program is sequential.  What runs beside it is the world: another   *)
(* process may replace any collateral file between two reads, and the PCS  *)
(* publishes between two requests.                                         *)
(***************************************************************************)
EXTENDS CheckPlan, PcsFetch, Checks

CONSTANTS
    Path,           \* the collateral files
    PathOf,         \* the file each document is read from
    FileContent,    \* what each file may hold
    InitialFiles,   \* what the files may hold when the run starts
    Missing,        \* the content of a file that does not exist
    MaxEdits        \* how often a file is replaced during one run

ASSUME VerifierAssumption ==
    /\ PathOf \in [Document -> Path]
    /\ InitialFiles \subseteq [Path -> UNION {FileContent[p] : p \in Path}]
    /\ MaxEdits \in Nat

\* What is not there is nothing that a parser accepts.
ASSUME AbsenceAssumption ==
    {Missing.kind, NoContent.kind} \cap {"crl", "json", "chain", "policy"} = {}

\* Everything a document can be read as.
Blob == (UNION {FileContent[p] : p \in Path}) \cup Content \cup
        {r.bundle[d] : r \in {q \in Request : q.bundle # NoBundle}, d \in Slot}

\* Nobody issues a list before the zero time.
ASSUME DatesAssumption ==
    /\ \A r \in Request : r.time \in Nat
    /\ \A blob \in Blob : blob.kind = "crl" => blob.thisUpdate \in Nat \ {ZeroTime}

VARIABLES
    files,      \* what each file holds
    edits,      \* how often a file was replaced
    pc,         \* where the pipeline is
    held,       \* the documents the current check has read
    reported,   \* VerificationResult.Checks
    used,       \* history: the documents each passed check was decided on
    available   \* history: everything each document could be read as, from
                \* the file, bundle or service the request has it read from

pipelineVars == <<pc, held, reported, used>>
worldVars == <<files, edits, available>>
vars == <<planVars, fetchVars, pipelineVars, worldVars>>

Final == {"accepted", "rejected"}

\* A bug that leaves out the Root CA list when the PCK list is fine.
AfterSkipsRootCRL ==
    [pckCRL |-> "quoteSignature", rootCRL |-> "quoteSignature", quoteSignature |-> "tcbInfo",
     tcbInfo |-> "qeIdentity", qeIdentity |-> "tdxPolicy", tdxPolicy |-> "accepted"]

\* The order of the checks.
After ==
    [pckCRL |-> "rootCRL", rootCRL |-> "quoteSignature", quoteSignature |-> "tcbInfo",
     tcbInfo |-> "qeIdentity", qeIdentity |-> "tdxPolicy", tdxPolicy |-> "accepted"]

\* A bug that fetches a bundle and then uses the one it was given.
CollateralGivenFirst == IF req.bundle # NoBundle THEN req.bundle ELSE bundle

\* The bundle the checks read from; NoBundle stands for the files.
Collateral == IF fetch = "ok" THEN bundle ELSE req.bundle

\* What makes the verifier ask the PCS, once it has its plan.
NeedsFetch == Source(req) = "pcs" /\ plan \cap CollateralCheck # {}

\* The documents that are read from files: the policy always is.
ReadsFile(d) == d \notin Slot \/ (Source(req) # "pcs" /\ req.bundle = NoBundle)

\* The policy is always read from its file.
FromBundle(check) == check # "tdxPolicy" /\ Collateral # NoBundle

Reject == pc' = "rejected" /\ held' = <<>> /\ UNCHANGED <<reported, used>>
----------------------------------------------------------------------------
Init ==
    /\ PlanInit /\ FetchInit
    /\ files \in InitialFiles /\ edits = 0
    /\ pc = "start" /\ held = <<>> /\ reported = <<>>
    /\ used = [check \in Check |-> <<>>]
    /\ available = [d \in Document |->
                      IF ReadsFile(d) THEN {files[PathOf[d]]}
                      ELSE IF Source(req) # "pcs" THEN {req.bundle[d]} ELSE {}]

\* The arguments are checked before anything else.
Start ==
    /\ pc = "start"
    /\ IF RequestValid(req) THEN pc' = "plan" /\ UNCHANGED <<held, reported, used>> ELSE Reject
    /\ UNCHANGED <<planVars, fetchVars, worldVars>>

ResolvePlan ==
    /\ pc = "plan" /\ PlanNext
    /\ pc' = CASE resolution' = "ok"    -> "evidence"
               [] resolution' = "error" -> "rejected"
               [] OTHER                 -> "plan"
    /\ UNCHANGED <<fetchVars, held, reported, used, worldVars>>

\* A bug that reports a broken chain but goes on.
VerifyEvidenceGoesOn ==
    /\ pc = "evidence"
    /\ IF EvidenceParsed(req)
       THEN /\ pc' = IF NeedsFetch THEN "fetch" ELSE "pckCRL"
            /\ reported' = IF "pckChain" \in plan THEN <<ChainName>> ELSE <<>>
            /\ UNCHANGED <<held, used>>
       ELSE Reject
    /\ UNCHANGED <<planVars, fetchVars, worldVars>>

\* A bug that fetches collateral for every plan.
VerifyEvidenceAlwaysFetches ==
    /\ pc = "evidence"
    /\ IF EvidenceOK(req)
       THEN /\ pc' = IF Source(req) = "pcs" THEN "fetch" ELSE "pckCRL"
            /\ reported' = IF "pckChain" \in plan THEN <<ChainName>> ELSE <<>>
            /\ UNCHANGED <<held, used>>
       ELSE Reject
    /\ UNCHANGED <<planVars, fetchVars, worldVars>>

\* parseAndVerifyQuoteEvidence; the chain is verified whatever the plan is.
VerifyEvidence ==
    /\ pc = "evidence"
    /\ IF EvidenceOK(req)
       THEN /\ pc' = IF NeedsFetch THEN "fetch" ELSE "pckCRL"
            /\ reported' = IF "pckChain" \in plan THEN <<ChainName>> ELSE <<>>
            /\ UNCHANGED <<held, used>>
       ELSE Reject
    /\ UNCHANGED <<planVars, fetchVars, worldVars>>

\* One step of FetchCollateral.
Fetch ==
    /\ pc = "fetch"
    /\ BeginFetch(PCKLeaf(req), PCKIssuer(req)) \/ FetchStep
    /\ CASE fetch' = "ok"     -> pc' = "pckCRL" /\ UNCHANGED <<held, reported, used>>
         [] fetch' = "failed" -> Reject
         [] OTHER             -> UNCHANGED pipelineVars
    /\ available' = IF fetch' = "ok"
                    THEN [d \in Document |-> IF d \in Slot THEN available[d] \cup {bundle'[d]}
                                                           ELSE available[d]]
                    ELSE available
    /\ UNCHANGED <<planVars, files, edits>>

\* A check that is not planned is passed over.
Skip(check) ==
    /\ pc = check /\ check \notin plan
    /\ pc' = After[check]
    /\ UNCHANGED <<planVars, fetchVars, held, reported, used, worldVars>>

\* A bug that waits for a file that is not there.
ReadFileWaits(check) ==
    /\ pc = check /\ check \in plan /\ ~FromBundle(check)
    /\ Len(held) < Len(Documents[check])
    /\ LET blob == files[PathOf[Documents[check][Len(held) + 1]]] IN
       /\ blob # Missing
       /\ held' = Append(held, blob) /\ UNCHANGED <<pc, reported, used>>
    /\ UNCHANGED <<planVars, fetchVars, worldVars>>

\* One os.ReadFile of a check that reads files.
ReadFile(check) ==
    /\ pc = check /\ check \in plan /\ ~FromBundle(check)
    /\ Len(held) < Len(Documents[check])
    /\ LET blob == files[PathOf[Documents[check][Len(held) + 1]]] IN
       IF blob = Missing \/ (check = "tdxPolicy" /\ ~PolicyGiven(req))
       THEN Reject
       ELSE held' = Append(held, blob) /\ UNCHANGED <<pc, reported, used>>
    /\ UNCHANGED <<planVars, fetchVars, worldVars>>

\* A bundle gives a check all its documents at once; none may be empty.
TakeFromBundle(check) ==
    /\ pc = check /\ check \in plan /\ FromBundle(check)
    /\ Len(held) < Len(Documents[check])
    /\ IF \E i \in DOMAIN Documents[check] : Collateral[Documents[check][i]] = NoContent
       THEN Reject
       ELSE /\ held' = [i \in DOMAIN Documents[check] |-> Collateral[Documents[check][i]]]
            /\ UNCHANGED <<pc, reported, used>>
    /\ UNCHANGED <<planVars, fetchVars, worldVars>>

\* A bug that leaves the documents of one check to the next.
DecideKeepsDocuments(check) ==
    /\ pc = check /\ check \in plan /\ Len(held) = Len(Documents[check])
    /\ IF Verified(check, held, req)
       THEN /\ pc' = After[check]
            /\ reported' = reported \o CheckNames[check]
            /\ used' = [used EXCEPT ![check] = held]
            /\ UNCHANGED held
       ELSE Reject
    /\ UNCHANGED <<planVars, fetchVars, worldVars>>

\* A bug that only warns of a QE Identity that does not fit.
DecideWarns(check) ==
    /\ pc = check /\ check \in plan /\ Len(held) = Len(Documents[check])
    /\ IF check = "qeIdentity" \/ Verified(check, held, req)
       THEN /\ pc' = After[check] /\ held' = <<>>
            /\ reported' = reported \o CheckNames[check]
            /\ used' = [used EXCEPT ![check] = held]
       ELSE Reject
    /\ UNCHANGED <<planVars, fetchVars, worldVars>>

\* The check has its documents and passes or refuses them.
Decide(check) ==
    /\ pc = check /\ check \in plan /\ Len(held) = Len(Documents[check])
    /\ IF Verified(check, held, req)
       THEN /\ pc' = After[check] /\ held' = <<>>
            /\ reported' = reported \o CheckNames[check]
            /\ used' = [used EXCEPT ![check] = held]
       ELSE Reject
    /\ UNCHANGED <<planVars, fetchVars, worldVars>>

VerifierStep ==
    \/ Start \/ ResolvePlan \/ VerifyEvidence \/ Fetch
    \/ \E check \in Check :
          Skip(check) \/ ReadFile(check) \/ TakeFromBundle(check) \/ Decide(check)
----------------------------------------------------------------------------
(* The world *)

Running == pc \notin Final

\* Another process replaces a file.
ReplaceFile(path, content) ==
    /\ Running /\ edits < MaxEdits /\ content # files[path]
    /\ files' = [files EXCEPT ![path] = content]
    /\ edits' = edits + 1
    /\ available' = [d \in Document |->
                       IF PathOf[d] = path /\ ReadsFile(d) THEN available[d] \cup {content}
                                                           ELSE available[d]]
    /\ UNCHANGED <<planVars, fetchVars, pipelineVars>>

\* The service publishes while the verifier fetches.
PCSPublish ==
    /\ pc = "fetch" /\ PublishStep
    /\ UNCHANGED <<planVars, pipelineVars, worldVars>>

WorldStep ==
    \/ PCSPublish
    \/ \E path \in Path : \E content \in FileContent[path] : ReplaceFile(path, content)

Next == VerifierStep \/ WorldStep

\* The program is one goroutine that never waits for anything but a GET,
\* which the HTTP client's timeout ends: it always takes its next step.
Spec == Init /\ [][Next]_vars /\ WF_vars(VerifierStep)
----------------------------------------------------------------------------
(* Properties *)

\* Type invariant of the pipeline and the world.
VerifierTypeOK ==
    /\ PlanTypeOK /\ FetchTypeOK
    /\ files \in [Path -> UNION {FileContent[p] : p \in Path}]
    /\ edits \in 0..MaxEdits
    /\ pc \in {"start", "plan", "evidence", "fetch"} \cup Check \cup Final
    /\ Len(held) <= IF pc \in Check THEN Len(Documents[pc]) ELSE 0
    /\ DOMAIN used = Check /\ DOMAIN available = Document

\* The pipeline keeps the promise of module Attestation: it accepts only
\* what every planned check passes on, reports exactly the plan, and refuses
\* only for a reason (VerifyQuoteWithCollateral, verifier.go:77-186).  No
\* other source counts than the one the request names: files do not when
\* there is a bundle, nor does the caller's bundle when the PCS is asked.
Promise == INSTANCE Attestation WITH
    lost     <- fetch = "failed",
    verdict  <- IF Running THEN "pending" ELSE pc,
    reported <- IF pc = "accepted" THEN reported ELSE <<>>

ImplementsAttestation == Promise!Spec

\* The documents of a check in one state of the collateral.
DocumentsFrom(check, source) ==
    [i \in DOMAIN Documents[check] |-> source[Documents[check][i]]]

\* A planned check finds all its documents there and passes on them.
PassesOn(check, source) ==
    /\ check = "tdxPolicy" => PolicyGiven(req)
    /\ \A i \in DOMAIN Documents[check] :
          source[Documents[check][i]] \notin {Missing, NoContent}
    /\ Verified(check, DocumentsFrom(check, source), req)

\* The collateral as it stands: the bundle, and the files for the rest.
CollateralNow ==
    [d \in Document |-> IF d \in Slot /\ Collateral # NoBundle
                        THEN Collateral[d] ELSE files[PathOf[d]]]

\* What a reader of the documentation expects to be accepted.
Acceptable ==
    /\ RequestValid(req) /\ AllSupported(req) /\ EvidenceOK(req)
    /\ \A check \in Check \cap PlannedFlags(req) : PassesOn(check, CollateralNow)

\* Nothing that a planned check reads was ever there as something else.
Undisturbed ==
    \A check \in Check \cap PlannedFlags(req) : \A i \in DOMAIN Documents[check] :
        available[Documents[check][i]] \subseteq {CollateralNow[Documents[check][i]]}

\* When nothing it reads is replaced, whatever else is, the verifier is exact:
\* it refuses nothing that is acceptable and accepts nothing that is not, in
\* whatever order the checks run (VerifyQuoteWithCollateral,
\* verifier.go:77-186).  A fetch that fails refuses too.
ExactWhenUndisturbed ==
    ~Running /\ Undisturbed /\ fetch # "failed" => (pc = "accepted" <=> Acceptable)

ChainCollateral == {"pckCRL", "rootCRL"}

\* The code asks the two lists about the first certificate and the second,
\* whatever the order and the length of the chain, whose certificates are
\* verified as a set.  A run with both checks still accepts no leaf that a list
\* of its issuer revokes, and no issuer of the leaf that a list of the root
\* revokes, though the two lists are read at different times: where the second
\* certificate did not issue the leaf, a list of the CA that did is refused
\* (verifier.go:126-139).  This supposes that no other certificate of the
\* chain has the key of the second.
NoRevokedCertificateOnPath ==
    LET certs == req.quote.certs
        leaf == PCKLeaf(req)
        list == used["pckCRL"][1]
        rootList == used["rootCRL"][1]
    IN  pc = "accepted" /\ ChainCollateral \subseteq plan
        /\ (Issued(PCKIssuer(req), leaf) \/ list.signer = leaf.signer)
        /\ (\A cert \in ToSet(certs) : cert.key = PCKIssuer(req).key => cert = PCKIssuer(req)) =>
            /\ leaf.serial \notin list.revoked
            /\ \A issuer \in ToSet(certs) : Issued(issuer, leaf) =>
                  /\ CRLSignedBy(list, issuer) /\ CRLSignedBy(rootList, req.root)
                  /\ issuer.serial \notin rootList.revoked

SignedChecks == {"tcbInfo", "qeIdentity"}

RootLists ==
    {used[c][1] : c \in {"rootCRL"} \cap plan} \cup {used[c][3] : c \in SignedChecks \cap plan}

Lists == RootLists \cup {used[c][1] : c \in {"pckCRL"} \cap plan}

SignedDocuments == {used[c][1] : c \in SignedChecks \cap plan}

SigningCerts == {Head(used[c][2].certs) : c \in SignedChecks \cap plan}

\* Unless freshness is relaxed there is one instant, the verification time,
\* at which every accepted list, document and certificate is valid, however
\* long the run took and whatever was replaced meanwhile.
ValidAtOneInstant ==
    pc = "accepted" /\ ~req.ignoreFreshness /\ Lists # {} =>
        /\ req.time # ZeroTime
        /\ \A l \in Lists : l.thisUpdate <= req.time
                            /\ (l.nextUpdate = ZeroTime \/ req.time <= l.nextUpdate)
        /\ \A d \in SignedDocuments : d.body.issue <= req.time /\ req.time <= d.body.next
        /\ \A c \in SigningCerts \cup {PCKLeaf(req), req.root} : ValidAt(c, req.time)

\* With a bundle, and with a Root CA list that nobody replaces, every check
\* that consults the list consults the same one, and it clears the
\* intermediate and both signing certificates together (collateral.go:137).
OneRootListClearsAll ==
    pc = "accepted" /\ (\A l, m \in available["RootCRL"] : l = m) =>
        /\ Cardinality(RootLists) <= 1
        /\ \A l \in RootLists :
              \A c \in SigningCerts \cup
                       {cert \in {PCKIssuer(req)} : "rootCRL" \in plan} :
                 ~IsSerialRevoked(l, c.serial)

\* No document is read and no request is sent before the quote's chain has
\* been verified, and nothing is sent unless a planned check needs it.
ChainBeforeCollateral ==
    [][ /\ held' # held => EvidenceOK(req)
        /\ fetch' # fetch => EvidenceOK(req) /\ NeedsFetch ]_vars

\* How much is left to do at each place, a read or a request being one step.
PlaceLeft ==
    [start |-> 32, plan |-> 31, evidence |-> 30, fetch |-> 29, pckCRL |-> 24, rootCRL |-> 20,
     quoteSignature |-> 16, tcbInfo |-> 12, qeIdentity |-> 8, tdxPolicy |-> 4,
     accepted |-> 0, rejected |-> 0]

RequestsSent == [idle |-> 0, tcb |-> 1, qe |-> 2, pckcrl |-> 3, rootcrl |-> 4]

Left ==
    PlaceLeft[pc] - Len(held)
        + (IF pc \in {"start", "plan"} THEN Len(req.checks) + 1 - next ELSE 0)
        - (IF pc = "fetch" THEN RequestsSent[fetch] ELSE 0)

\* Every step of the pipeline leaves less to do, and nothing the world does
\* leaves more: no document is read and no request sent a second time by a
\* check, and a run ends after a number of steps its request alone bounds,
\* whatever is replaced, published or lost meanwhile (verifier.go:77-186).
EveryStepIsProgress ==
    [][Left' \in Nat /\ (IF VerifierStep THEN Left' < Left ELSE Left' = Left)]_vars

\* Every verification ends, with one verdict.
Terminates == <>(pc \in Final)

\* "[7] ... TCB level verification: OK" means that a TCB level was matched
\* (docs/output-guide.md:106).  The code reports the check without looking at the
\* levels when the quote is no TDX quote or the document lists none.
TCBLevelMatchedWhenReported ==
    pc = "accepted" /\ "tcbInfo" \in plan =>
        /\ req.quote.tdx /\ PCKLeaf(req).tcb # Blank
        /\ MatchedTCBLevel(PCKLeaf(req).tcb, req.quote.tdxSVNs, used["tcbInfo"][1].body.levels) # 0
=============================================================================
