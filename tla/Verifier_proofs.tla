---------------------------- MODULE Verifier_proofs ----------------------------
(***************************************************************************)
(* Proofs about VerifyQuoteWithCollateral (module Verifier), for all       *)
(* requests, files and services, and any number of replacements and        *)
(* publications.  The main result is that the pipeline keeps the promise   *)
(* of module Attestation.  What has to be carried from check to check is   *)
(*   ControlInv   how far the pipeline is, and what that says of the plan  *)
(*                and of the quote                                         *)
(*   WorldInv     what is there to be read has been recorded as available  *)
(*   DocumentInv  what was read was available, and every planned check     *)
(*                that lies behind has passed on what it read              *)
(*   ReportInv    the report holds the planned checks that lie behind      *)
(* From these follow RefusedInv, the reason of every refusal, and LeftInv, *)
(* how much is left to do at each place.                                   *)
(***************************************************************************)
EXTENDS Verifier, CheckPlan_proofs, PcsFetch_proofs

\* The checks that lie behind the pipeline, by where it is.
Behind ==
    [pckCRL         |-> {},
     rootCRL        |-> {"pckCRL"},
     quoteSignature |-> {"pckCRL", "rootCRL"},
     tcbInfo        |-> {"pckCRL", "rootCRL", "quoteSignature"},
     qeIdentity     |-> {"pckCRL", "rootCRL", "quoteSignature", "tcbInfo"},
     tdxPolicy      |-> {"pckCRL", "rootCRL", "quoteSignature", "tcbInfo", "qeIdentity"},
     accepted       |-> Check]

\* The pipeline among the checks, or past them.
Checking == Check \cup {"accepted"}

Place == {"start", "plan", "evidence", "fetch"} \cup Check \cup Final

\* The names in a report.
ReportName == {"pckChain", "pckCRL", "rootCRL", "qeReportSignature", "akBinding",
               "quoteSignature", "tcbInfo", "qeIdentity", "tdxPolicy"}

NamesOf(check, flags) == IF check \in flags THEN CheckNames[check] ELSE <<>>

ChainReport(flags) == IF "pckChain" \in flags THEN <<ChainName>> ELSE <<>>

\* The report of the checks that lie behind.
ReportAt ==
    [place \in Checking |->
        CASE place = "pckCRL"  -> ChainReport(plan)
          [] place = "rootCRL" -> ChainReport(plan) \o NamesOf("pckCRL", plan)
          [] place = "quoteSignature" ->
                ChainReport(plan) \o NamesOf("pckCRL", plan) \o NamesOf("rootCRL", plan)
          [] place = "tcbInfo" ->
                ChainReport(plan) \o NamesOf("pckCRL", plan) \o NamesOf("rootCRL", plan)
                    \o NamesOf("quoteSignature", plan)
          [] place = "qeIdentity" ->
                ChainReport(plan) \o NamesOf("pckCRL", plan) \o NamesOf("rootCRL", plan)
                    \o NamesOf("quoteSignature", plan) \o NamesOf("tcbInfo", plan)
          [] place = "tdxPolicy" ->
                ChainReport(plan) \o NamesOf("pckCRL", plan) \o NamesOf("rootCRL", plan)
                    \o NamesOf("quoteSignature", plan) \o NamesOf("tcbInfo", plan)
                    \o NamesOf("qeIdentity", plan)
          [] place = "accepted" -> Promise!Report(plan)]

ControlInv ==
    /\ pc \in Place
    /\ pc \notin {"start", "rejected"} => RequestValid(req)
    /\ pc \notin {"start", "plan", "rejected"} => resolution = "ok"
    /\ pc \in Checking \cup {"fetch"} => EvidenceOK(req)
    /\ pc = "fetch" => NeedsFetch /\ fetch \notin {"ok", "failed"}
    /\ pc \in {"start", "plan", "evidence"} => fetch = "idle"
    /\ fetch # "idle" => NeedsFetch
    /\ pc \in Checking /\ NeedsFetch => fetch = "ok"
    /\ fetch = "failed" => pc = "rejected"

WorldInv ==
    /\ files \in [Path -> UNION {FileContent[p] : p \in Path}]
    /\ edits \in 0..MaxEdits
    /\ available = [d \in Document |-> available[d]]
    /\ \A d \in Document : ReadsFile(d) => files[PathOf[d]] \in available[d]
    /\ Source(req) # "pcs" /\ req.bundle # NoBundle =>
          \A d \in Slot : req.bundle[d] \in available[d] \cap Blob
    /\ fetch = "ok" => \A d \in Slot : bundle[d] \in available[d] \cap Blob

\* The documents were read, and could be read, as what they are listed as.
ReadAs(check, docs) ==
    \A i \in DOMAIN docs : docs[i] \in available[Documents[check][i]]

DocumentInv ==
    /\ held \in Seq(Blob)
    /\ pc \notin Check \cap plan => held = <<>>
    /\ pc \in Check => Len(held) <= Len(Documents[pc]) /\ ReadAs(pc, held)
    /\ used \in [Check -> Seq(Blob)]
    /\ pc \in Checking => \A check \in Behind[pc] \cap plan :
          /\ Len(used[check]) = Len(Documents[check])
          /\ ReadAs(check, used[check])
          /\ Verified(check, used[check], req)

ReportInv ==
    /\ pc \in {"start", "plan", "evidence"} => reported = <<>>
    /\ pc = "fetch" => reported = ChainReport(plan)
    /\ pc \in Checking => reported = ReportAt[pc]

VerifierInv == PlanInv /\ FetchInv /\ ControlInv /\ WorldInv /\ DocumentInv /\ ReportInv
----------------------------------------------------------------------------
(* The order of the checks and their documents *)

\* The pipeline goes from each check to the next and misses none.
LEMMA AfterCheckPlace ==
    ASSUME NEW check \in Check
    PROVE  /\ After[check] \in Checking /\ After[check] # check
           /\ Behind[After[check]] = Behind[check] \cup {check}
  <1>1. CASE check = "pckCRL"
    BY <1>1 DEF After, Behind, Checking, Check
  <1>2. CASE check = "rootCRL"
    BY <1>2 DEF After, Behind, Checking, Check
  <1>3. CASE check = "quoteSignature"
    BY <1>3 DEF After, Behind, Checking, Check
  <1>4. CASE check = "tcbInfo"
    BY <1>4 DEF After, Behind, Checking, Check
  <1>5. CASE check = "qeIdentity"
    BY <1>5 DEF After, Behind, Checking, Check
  <1>6. CASE check = "tdxPolicy"
    BY <1>6 DEF After, Behind, Checking, Check
  <1>7. QED
    BY <1>1, <1>2, <1>3, <1>4, <1>5, <1>6 DEF Check

\* A check reads a few documents, and only the policy is outside the bundle.
LEMMA CheckDocuments ==
    ASSUME NEW check \in Check
    PROVE  /\ Documents[check] \in Seq(Document) /\ Len(Documents[check]) \in Nat
           /\ DOMAIN Documents[check] = 1..Len(Documents[check])
           /\ check # "tdxPolicy" => \A i \in DOMAIN Documents[check] : Documents[check][i] \in Slot
  <1>1. CASE check = "pckCRL"
    BY <1>1 DEF Documents, Document, Slot
  <1>2. CASE check = "rootCRL"
    BY <1>2 DEF Documents, Document, Slot
  <1>3. CASE check = "quoteSignature"
    BY <1>3 DEF Documents, Document, Slot
  <1>4. CASE check = "tcbInfo"
    BY <1>4 DEF Documents, Document, Slot
  <1>5. CASE check = "qeIdentity"
    BY <1>5 DEF Documents, Document, Slot
  <1>6. CASE check = "tdxPolicy"
    BY <1>6 DEF Documents, Document
  <1>7. QED
    BY <1>1, <1>2, <1>3, <1>4, <1>5, <1>6 DEF Check

LEMMA SlotDocuments == Slot \subseteq Document
  BY DEF Slot, Document

\* The names of the checks are sequences.
LEMMA NamesAreSequences ==
    /\ \A check \in Check : NamesOf(check, plan) \in Seq(ReportName)
    /\ ChainReport(plan) \in Seq(ReportName)
  <1>1. /\ CheckNames["pckCRL"] \in Seq(ReportName) /\ CheckNames["rootCRL"] \in Seq(ReportName)
        /\ CheckNames["quoteSignature"] \in Seq(ReportName) /\ CheckNames["tcbInfo"] \in Seq(ReportName)
        /\ CheckNames["qeIdentity"] \in Seq(ReportName) /\ CheckNames["tdxPolicy"] \in Seq(ReportName)
    BY DEF CheckNames, ReportName
  <1>2. \A check \in Check : CheckNames[check] \in Seq(ReportName)
    BY <1>1 DEF Check
  <1>3. <<>> \in Seq(ReportName) /\ <<"pckChain">> \in Seq(ReportName)
    BY DEF ReportName
  <1>4. QED
    BY <1>2, <1>3, Zenon DEF NamesOf, ChainReport, ChainName

\* Each check adds its names to the report, or nothing.
LEMMA ReportStep ==
    ASSUME NEW check \in Check
    PROVE  ReportAt[After[check]] = ReportAt[check] \o NamesOf(check, plan)
  <1>1. CASE check = "pckCRL"
    BY <1>1 DEF ReportAt, After, Checking, Check
  <1>2. CASE check = "rootCRL"
    BY <1>2 DEF ReportAt, After, Checking, Check
  <1>3. CASE check = "quoteSignature"
    BY <1>3 DEF ReportAt, After, Checking, Check
  <1>4. CASE check = "tcbInfo"
    BY <1>4 DEF ReportAt, After, Checking, Check
  <1>5. CASE check = "qeIdentity"
    BY <1>5 DEF ReportAt, After, Checking, Check
  <1>6. CASE check = "tdxPolicy"
    BY <1>6 DEF ReportAt, After, Checking, Check, Promise!Report, Promise!NamesIf,
                ChainReport, NamesOf
  <1>7. QED
    BY <1>1, <1>2, <1>3, <1>4, <1>5, <1>6 DEF Check

\* The report is a sequence wherever the pipeline is.
LEMMA ReportIsSequence ==
    ASSUME NEW place \in Check
    PROVE  ReportAt[place] \in Seq(ReportName)
  <1>1. /\ NamesOf("pckCRL", plan) \in Seq(ReportName) /\ NamesOf("rootCRL", plan) \in Seq(ReportName)
        /\ NamesOf("quoteSignature", plan) \in Seq(ReportName)
        /\ NamesOf("tcbInfo", plan) \in Seq(ReportName)
        /\ NamesOf("qeIdentity", plan) \in Seq(ReportName)
        /\ ChainReport(plan) \in Seq(ReportName)
    BY NamesAreSequences DEF Check
  <1>2. CASE place = "pckCRL"
    BY <1>1, <1>2 DEF ReportAt, Checking, Check
  <1>3. CASE place = "rootCRL"
    BY <1>1, <1>3 DEF ReportAt, Checking, Check
  <1>4. CASE place = "quoteSignature"
    BY <1>1, <1>4 DEF ReportAt, Checking, Check
  <1>5. CASE place = "tcbInfo"
    BY <1>1, <1>5 DEF ReportAt, Checking, Check
  <1>6. CASE place = "qeIdentity"
    BY <1>1, <1>6 DEF ReportAt, Checking, Check
  <1>7. CASE place = "tdxPolicy"
    BY <1>1, <1>7 DEF ReportAt, Checking, Check
  <1>8. QED
    BY <1>2, <1>3, <1>4, <1>5, <1>6, <1>7 DEF Check
----------------------------------------------------------------------------
(* The parts that other modules have proved *)

LEMMA PlanPart == PlanInv /\ [Next]_vars => PlanInv'
  <1>1. [Next]_vars => [PlanNext]_planVars
    BY DEF Next, VerifierStep, WorldStep, Start, ResolvePlan, VerifyEvidence, Fetch, Skip,
           ReadFile, TakeFromBundle, Decide, ReplaceFile, PCSPublish, vars
  <1>2. QED
    BY <1>1, PlanInvStep

LEMMA FetchPart == FetchInv /\ [Next]_vars => FetchInv'
  <1>1. [Next]_vars => [FetchNext]_fetchVars
    BY DEF Next, VerifierStep, WorldStep, Start, ResolvePlan, VerifyEvidence, Fetch, Skip,
           ReadFile, TakeFromBundle, Decide, ReplaceFile, PCSPublish, vars, FetchNext
  <1>2. QED
    BY <1>1, FetchInvStep

\* The plan and the request do not change once the plan is resolved.
LEMMA PlanSettled ==
    ASSUME [Next]_vars, pc # "plan"
    PROVE  UNCHANGED planVars
  BY DEF Next, VerifierStep, WorldStep, Start, ResolvePlan, VerifyEvidence, Fetch, Skip,
         ReadFile, TakeFromBundle, Decide, ReplaceFile, PCSPublish, vars

\* The request never changes.
LEMMA RequestFixed ==
    ASSUME [Next]_vars
    PROVE  req' = req
  <1>1. PlanNext => req' = req
    BY DEF PlanNext, ResolveDefault, SkipBlank, ResolveCheck, RejectCheck, ResolveDone
  <1>2. CASE pc # "plan"
    BY <1>2, PlanSettled DEF planVars
  <1>3. CASE pc = "plan"
    BY <1>1, <1>3 DEF Next, VerifierStep, WorldStep, Start, ResolvePlan, VerifyEvidence, Fetch,
           Skip, ReadFile, TakeFromBundle, Decide, ReplaceFile, PCSPublish, vars, planVars
  <1>4. QED
    BY <1>2, <1>3

\* Only a step of the fetch changes what the client has.
LEMMA ClientSettled ==
    ASSUME [Next]_vars, pc # "fetch"
    PROVE  UNCHANGED fetchVars
  BY DEF Next, VerifierStep, WorldStep, Start, ResolvePlan, VerifyEvidence, Fetch, Skip,
         ReadFile, TakeFromBundle, Decide, ReplaceFile, PCSPublish, vars
----------------------------------------------------------------------------
(* The invariant holds at the start *)

LEMMA VerifierInvInit == Init => VerifierInv
  <1> SUFFICES ASSUME Init PROVE VerifierInv
    OBVIOUS
  <1>1. PlanInv /\ FetchInv
    BY PlanInvInit, FetchInvInit DEF Init
  <1>2. ControlInv
    BY DEF Init, ControlInv, Place, Checking, Check, Final, FetchInit
  <1>3. WorldInv
    <2>1. /\ files \in [Path -> UNION {FileContent[p] : p \in Path}]
          /\ edits \in 0..MaxEdits
      BY VerifierAssumption DEF Init
    <2>2. available = [d \in Document |-> available[d]]
      BY DEF Init
    <2>3. \A d \in Document : ReadsFile(d) => files[PathOf[d]] \in available[d]
      BY DEF Init
    <2>4. fetch = "idle" /\ req \in Request
      BY DEF Init, FetchInit, PlanInit
    <2>5. ASSUME Source(req) # "pcs", req.bundle # NoBundle, NEW d \in Slot
          PROVE  req.bundle[d] \in available[d] \cap Blob
      <3>1. req.bundle[d] \in available[d]
        BY <2>5, SlotDocuments DEF Init, ReadsFile
      <3>2. req.bundle[d] \in Blob
        BY <2>4, <2>5 DEF Blob
      <3>3. QED
        BY <3>1, <3>2
    <2>6. QED
      BY <2>1, <2>2, <2>3, <2>4, <2>5 DEF WorldInv
  <1>4. DocumentInv
    BY DEF Init, DocumentInv, Check, Checking
  <1>5. ReportInv
    BY DEF Init, ReportInv, Check, Checking
  <1>6. QED
    BY <1>1, <1>2, <1>3, <1>4, <1>5 DEF VerifierInv
----------------------------------------------------------------------------
(* Control *)

LEMMA ControlPart == VerifierInv /\ [Next]_vars => ControlInv'
  <1> SUFFICES ASSUME VerifierInv, [Next]_vars PROVE ControlInv'
    OBVIOUS
  <1>1. ControlInv /\ PlanInv
    BY DEF VerifierInv
  <1>2. req' = req
    BY RequestFixed
  <1>3. /\ RequestValid(req)' = RequestValid(req)
        /\ EvidenceOK(req)' = EvidenceOK(req)
    BY <1>2
  <1> USE DEF Place, Checking, Check, Final
  <1>4. CASE Start
    BY <1>1, <1>2, <1>4 DEF Start, Reject, ControlInv, fetchVars, clientVars
  <1>5. CASE ResolvePlan
    BY <1>1, <1>2, <1>5 DEF ResolvePlan, ControlInv, fetchVars, clientVars
  <1>6. CASE VerifyEvidence
    BY <1>1, <1>2, <1>6
    DEF VerifyEvidence, Reject, ControlInv, planVars, fetchVars, clientVars, NeedsFetch
  <1>7. CASE Fetch
    <2>1. fetch' \in {"ok", "failed"} \/ pc' = pc
      BY <1>7 DEF Fetch, pipelineVars
    <2>2. fetch' = "ok" => pc' = "pckCRL"
      BY <1>7 DEF Fetch
    <2>3. fetch' = "failed" => pc' = "rejected"
      BY <1>7 DEF Fetch, Reject
    <2>4. NeedsFetch' = NeedsFetch /\ NeedsFetch /\ resolution' = resolution /\ pc = "fetch"
      BY <1>1, <1>2, <1>7 DEF Fetch, ControlInv, planVars, NeedsFetch
    <2>5. QED
      BY <1>1, <1>3, <2>1, <2>2, <2>3, <2>4 DEF ControlInv
  <1>8. ASSUME NEW check \in Check, Skip(check) \/ Decide(check)
        PROVE  ControlInv'
    <2>1. pc = check /\ pc' \in {After[check], "rejected"} /\ UNCHANGED <<planVars, fetch>>
      BY <1>8 DEF Skip, Decide, Reject, fetchVars, clientVars
    <2>2. After[check] \in Check \cup {"accepted"}
      BY AfterCheckPlace
    <2>3. NeedsFetch' = NeedsFetch
      BY <1>2, <2>1 DEF NeedsFetch, planVars
    <2>4. QED
      BY <1>1, <1>3, <2>1, <2>2, <2>3 DEF ControlInv, planVars
  <1>9. ASSUME NEW check \in Check, ReadFile(check) \/ TakeFromBundle(check)
        PROVE  ControlInv'
    <2>1. pc = check /\ pc' \in {pc, "rejected"} /\ UNCHANGED <<planVars, fetch>>
      BY <1>9 DEF ReadFile, TakeFromBundle, Reject, fetchVars, clientVars
    <2>2. NeedsFetch' = NeedsFetch
      BY <1>2, <2>1 DEF NeedsFetch, planVars
    <2>3. QED
      BY <1>1, <1>3, <2>1, <2>2 DEF ControlInv, planVars
  <1>10. CASE UNCHANGED <<planVars, pc, fetch>>
    BY <1>1, <1>10 DEF ControlInv, planVars, NeedsFetch
  <1>11. QED
    BY <1>4, <1>5, <1>6, <1>7, <1>8, <1>9, <1>10
    DEF Next, VerifierStep, WorldStep, ReplaceFile, PCSPublish, PublishStep, Publish,
        pipelineVars, vars, fetchVars, clientVars
----------------------------------------------------------------------------
(* What is there to be read *)

\* A bundle that has arrived holds contents.
LEMMA BundleContents ==
    ASSUME FetchInv, fetch = "ok"
    PROVE  bundle # NoBundle /\ \A d \in Slot : bundle[d] \in Content
  BY DEF FetchInv, FetchTypeOK

LEMMA WorldPart == VerifierInv /\ [Next]_vars => WorldInv'
  <1> SUFFICES ASSUME VerifierInv, [Next]_vars PROVE WorldInv'
    OBVIOUS
  <1>1. WorldInv /\ FetchInv' /\ req' = req
    BY FetchPart, RequestFixed DEF VerifierInv
  <1>2. \A d : ReadsFile(d)' = ReadsFile(d)
    BY <1>1 DEF ReadsFile
  <1>3. CASE UNCHANGED <<worldVars, fetch, bundle>>
    BY <1>1, <1>2, <1>3 DEF WorldInv, worldVars
  <1>4. ASSUME NEW path \in Path, NEW content \in FileContent[path], ReplaceFile(path, content)
        PROVE  WorldInv'
    <2>1. /\ files' = [files EXCEPT ![path] = content]
          /\ edits < MaxEdits /\ edits' = edits + 1
          /\ available' = [d \in Document |->
                IF PathOf[d] = path /\ ReadsFile(d) THEN available[d] \cup {content}
                                                   ELSE available[d]]
          /\ fetch' = fetch /\ bundle' = bundle
      BY <1>4 DEF ReplaceFile, fetchVars, clientVars
    <2>2. files' \in [Path -> UNION {FileContent[p] : p \in Path}]
      BY <1>1, <2>1 DEF WorldInv
    <2>3. edits' \in 0..MaxEdits
      BY <1>1, <2>1, VerifierAssumption DEF WorldInv
    <2>4. \A d \in Document : ReadsFile(d) => files'[PathOf[d]] \in available'[d]
      BY <1>1, <2>1, VerifierAssumption DEF WorldInv
    <2>5. \A d \in Slot : available[d] \subseteq available'[d]
      BY <1>1, <2>1, SlotDocuments
    <2>6. Source(req) # "pcs" /\ req.bundle # NoBundle =>
             \A d \in Slot : req.bundle[d] \in available'[d] \cap Blob
      BY <1>1, <2>5 DEF WorldInv
    <2>7. fetch = "ok" => \A d \in Slot : bundle[d] \in available'[d] \cap Blob
      BY <1>1, <2>5 DEF WorldInv
    <2>8. available' = [d \in Document |-> available'[d]]
      BY <2>1
    <2>9. QED
      BY <1>1, <1>2, <2>1, <2>2, <2>3, <2>4, <2>6, <2>7, <2>8 DEF WorldInv
  <1>5. CASE Fetch
    <2>1. UNCHANGED <<files, edits>>
      BY <1>5 DEF Fetch
    <2>2. CASE fetch' = "ok"
      <3>1. available' = [d \in Document |-> IF d \in Slot THEN available[d] \cup {bundle'[d]}
                                                           ELSE available[d]]
        BY <1>5, <2>2 DEF Fetch
      <3>2. \A d \in Slot : bundle'[d] \in Content
        BY <1>1, <2>2, BundleContents DEF FetchInv, FetchTypeOK
      <3>3. \A d \in Slot : bundle'[d] \in available'[d] \cap Blob
        BY <3>1, <3>2, SlotDocuments DEF Blob
      <3>4. \A d \in Document : available[d] \subseteq available'[d]
        BY <3>1
      <3>5. Source(req) # "pcs" /\ req.bundle # NoBundle =>
               \A d \in Slot : req.bundle[d] \in available'[d] \cap Blob
        BY <1>1, <3>4, SlotDocuments DEF WorldInv
      <3>6. \A d \in Document : ReadsFile(d) => files[PathOf[d]] \in available'[d]
        BY <1>1, <3>4 DEF WorldInv
      <3>7. available' = [d \in Document |-> available'[d]]
        BY <3>1
      <3>8. QED
        BY <1>1, <1>2, <2>1, <2>2, <3>3, <3>5, <3>6, <3>7 DEF WorldInv
    <2>3. CASE fetch' # "ok"
      <3>1. available' = available
        BY <1>5, <2>3 DEF Fetch
      <3>2. QED
        BY <1>1, <1>2, <2>1, <2>3, <3>1 DEF WorldInv
    <2>4. QED
      BY <2>2, <2>3
  <1>6. QED
    BY <1>3, <1>4, <1>5
    DEF Next, VerifierStep, WorldStep, Start, ResolvePlan, VerifyEvidence, Skip, ReadFile,
        TakeFromBundle, Decide, PCSPublish, PublishStep, Publish, vars, worldVars, fetchVars,
        clientVars

\* A check on Intel's collateral that is planned has it fetched before it
\* comes up, when the request names the PCS.
LEMMA FetchedForCheck ==
    ASSUME VerifierInv, NEW check \in CollateralCheck \cap plan, pc = check,
           Source(req) = "pcs"
    PROVE  fetch = "ok" /\ bundle # NoBundle
  <1>1. pc \in Checking /\ NeedsFetch
    BY DEF CollateralCheck, Checking, Check, NeedsFetch
  <1>2. fetch = "ok"
    BY <1>1 DEF VerifierInv, ControlInv
  <1>3. QED
    BY <1>2, BundleContents DEF VerifierInv

\* The checks with documents, and which of them are Intel's.
LEMMA CollateralDocuments ==
    ASSUME NEW check \in Check, NEW i \in DOMAIN Documents[check]
    PROVE  /\ check \in CollateralCheck \/ check = "tdxPolicy"
           /\ check = "tdxPolicy" => Documents[check][i] \notin Slot
  <1>1. check # "quoteSignature"
    BY DEF Documents
  <1>2. QED
    BY <1>1 DEF Documents, Slot, Check, CollateralCheck

\* A check that reads no bundle reads documents that are had from files.
LEMMA FilesAreTheSource ==
    ASSUME VerifierInv, NEW check \in Check \cap plan, pc = check, ~FromBundle(check),
           NEW i \in DOMAIN Documents[check]
    PROVE  ReadsFile(Documents[check][i])
  <1>1. CASE check = "tdxPolicy"
    BY <1>1, CollateralDocuments DEF ReadsFile
  <1>2. CASE check # "tdxPolicy"
    <2>1. check \in CollateralCheck /\ Collateral = NoBundle
      BY <1>2, CollateralDocuments DEF FromBundle
    <2>2. Source(req) # "pcs"
      <3>1. Source(req) = "pcs" => fetch = "ok" /\ bundle # NoBundle
        BY <2>1, FetchedForCheck
      <3>2. QED
        BY <2>1, <3>1 DEF Collateral
    <2>3. fetch = "idle"
      BY <2>2 DEF VerifierInv, ControlInv, NeedsFetch
    <2>4. QED
      BY <2>1, <2>2, <2>3 DEF Collateral, ReadsFile
  <1>3. QED
    BY <1>1, <1>2

\* A check that reads a bundle reads the one the request has it read.
LEMMA BundleIsTheSource ==
    ASSUME VerifierInv, NEW check \in Check \cap plan, pc = check, FromBundle(check),
           NEW i \in DOMAIN Documents[check]
    PROVE  Collateral[Documents[check][i]] \in available[Documents[check][i]] \cap Blob
  <1>1. check \in CollateralCheck /\ Collateral # NoBundle /\ Documents[check][i] \in Slot
    BY CollateralDocuments, CheckDocuments DEF FromBundle
  <1>2. WorldInv
    BY DEF VerifierInv
  <1>3. CASE fetch = "ok"
    BY <1>1, <1>2, <1>3 DEF WorldInv, Collateral
  <1>4. CASE fetch # "ok"
    <2>1. Source(req) # "pcs"
      BY <1>1, <1>4, FetchedForCheck
    <2>2. QED
      BY <1>1, <1>2, <1>4, <2>1 DEF WorldInv, Collateral
  <1>5. QED
    BY <1>3, <1>4

\* What a check finds now is among what it may be given to read.
LEMMA NowIsObtainable ==
    ASSUME VerifierInv, NEW check \in Check \cap plan, pc = check,
           NEW i \in DOMAIN Documents[check]
    PROVE  CollateralNow[Documents[check][i]] \in available[Documents[check][i]]
  <1>1. Documents[check][i] \in Document
    BY CheckDocuments
  <1>2. CASE FromBundle(check)
    <2>1. Documents[check][i] \in Slot /\ Collateral # NoBundle
      BY <1>2, CheckDocuments DEF FromBundle
    <2>2. QED
      BY <1>1, <1>2, <2>1, BundleIsTheSource DEF CollateralNow
  <1>3. CASE ~FromBundle(check)
    <2>1. files[PathOf[Documents[check][i]]] \in available[Documents[check][i]]
      BY <1>1, <1>3, FilesAreTheSource DEF VerifierInv, WorldInv
    <2>2. Documents[check][i] \in Slot => Collateral = NoBundle
      BY <1>3, CollateralDocuments DEF FromBundle
    <2>3. QED
      BY <1>1, <2>1, <2>2 DEF CollateralNow
  <1>4. QED
    BY <1>2, <1>3

\* What could be read once is not forgotten.
LEMMA AvailableGrows ==
    ASSUME VerifierInv, [Next]_vars, NEW d \in Document
    PROVE  available[d] \subseteq available'[d]
  <1>1. CASE available' = available
    BY <1>1
  <1>2. CASE Fetch
    BY <1>2 DEF Fetch
  <1>3. ASSUME NEW path \in Path, NEW content \in FileContent[path], ReplaceFile(path, content)
        PROVE  available[d] \subseteq available'[d]
    BY <1>3 DEF ReplaceFile
  <1>4. QED
    BY <1>1, <1>2, <1>3
    DEF Next, VerifierStep, WorldStep, Start, ResolvePlan, VerifyEvidence, Skip, ReadFile,
        TakeFromBundle, Decide, PCSPublish, worldVars, vars

\* What was read as one of the documents stays so.
LEMMA ReadAsStays ==
    ASSUME VerifierInv, [Next]_vars, NEW check \in Check, NEW docs \in Seq(Blob),
           Len(docs) <= Len(Documents[check]), ReadAs(check, docs)
    PROVE  ReadAs(check, docs)'
  <1>1. ASSUME NEW i \in DOMAIN docs
        PROVE  docs[i] \in available'[Documents[check][i]]
    <2>1. i \in 1..Len(Documents[check])
      BY CheckDocuments
    <2>2. Documents[check][i] \in Document
      BY <2>1, CheckDocuments
    <2>3. QED
      BY <2>2, AvailableGrows DEF ReadAs
  <1>2. QED
    BY <1>1 DEF ReadAs
----------------------------------------------------------------------------
(* The documents *)

\* A check that passed stays passed: its documents and the request are kept.
LEMMA PassedStays ==
    ASSUME VerifierInv, [Next]_vars, pc \in Checking,
           NEW check \in Behind[pc] \cap plan, check \in Check, used'[check] = used[check]
    PROVE  /\ Len(used'[check]) = Len(Documents[check])
           /\ ReadAs(check, used[check])'
           /\ Verified(check, used'[check], req')
  <1>1. /\ used[check] \in Seq(Blob) /\ Len(used[check]) = Len(Documents[check])
        /\ ReadAs(check, used[check]) /\ Verified(check, used[check], req)
    BY DEF VerifierInv, DocumentInv
  <1>2. Len(used[check]) <= Len(Documents[check])
    BY <1>1, CheckDocuments
  <1>3. \A i \in DOMAIN used[check] : used[check][i] \in available'[Documents[check][i]]
    <2>1. \A docs \in Seq(Blob) :
             Len(docs) <= Len(Documents[check]) /\ ReadAs(check, docs) =>
                \A i \in DOMAIN docs : docs[i] \in available'[Documents[check][i]]
      BY ReadAsStays DEF ReadAs
    <2>2. QED
      BY <1>1, <1>2, <2>1
  <1>4. req' = req
    BY RequestFixed
  <1>5. QED
    BY <1>1, <1>3, <1>4 DEF ReadAs

\* A check lies behind only when it is a check.
LEMMA BehindChecks == \A place \in Checking : Behind[place] \subseteq Check
  BY DEF Checking, Behind, Check

\* The steps that neither read nor decide.
LEMMA DocumentsKept ==
    ASSUME VerifierInv, [Next]_vars, UNCHANGED <<plan, pc, held, used>>
    PROVE  DocumentInv'
  <1>1. DocumentInv
    BY DEF VerifierInv
  <1>2. ASSUME pc \in Check
        PROVE  (Len(held) <= Len(Documents[pc]) /\ ReadAs(pc, held))'
    <2>1. /\ held \in Seq(Blob) /\ Len(held) <= Len(Documents[pc]) /\ ReadAs(pc, held)
      BY <1>1, <1>2 DEF DocumentInv
    <2>2. \A docs \in Seq(Blob) : Len(docs) <= Len(Documents[pc]) /\ ReadAs(pc, docs) =>
              \A i \in DOMAIN docs : docs[i] \in available'[Documents[pc][i]]
      BY <1>2, ReadAsStays DEF ReadAs
    <2>3. QED
      BY <2>1, <2>2 DEF ReadAs
  <1>3. ASSUME pc \in Checking, NEW check \in Behind[pc] \cap plan
        PROVE  (/\ Len(used[check]) = Len(Documents[check])
                /\ ReadAs(check, used[check])
                /\ Verified(check, used[check], req))'
    <2>1. check \in Check
      BY <1>3, BehindChecks
    <2>2. /\ Len(used'[check]) = Len(Documents[check])
          /\ \A i \in DOMAIN used[check] : used[check][i] \in available'[Documents[check][i]]
          /\ Verified(check, used'[check], req')
      BY <1>3, <2>1, PassedStays DEF ReadAs
    <2>3. QED
      BY <2>2 DEF ReadAs
  <1>4. QED
    BY <1>1, <1>2, <1>3 DEF DocumentInv

\* The steps before the checks, and every refusal: nothing is held.
LEMMA DocumentsNotHeld ==
    ASSUME VerifierInv, [Next]_vars, held' = <<>>, UNCHANGED used,
           pc' \notin Checking \ {"pckCRL"}
    PROVE  DocumentInv'
  <1>1. DocumentInv /\ held' \in Seq(Blob)
    BY DEF VerifierInv, DocumentInv
  <1>2. pc' \in Check => Len(held') <= Len(Documents[pc']) /\ ReadAs(pc, held)'
    BY CheckDocuments DEF ReadAs
  <1>3. pc' \in Checking => Behind[pc'] = {}
    BY DEF Behind, Checking
  <1>4. QED
    BY <1>1, <1>2, <1>3 DEF DocumentInv

\* The step to the next check, when the one behind is not planned or passed.
LEMMA DocumentsOfNext ==
    ASSUME VerifierInv, [Next]_vars, NEW check \in Check, pc = check, pc' = After[check],
           held' = <<>>, used' \in [Check -> Seq(Blob)],
           \A other \in Check \ {check} : used'[other] = used[other],
           check \in plan => /\ Len(used'[check]) = Len(Documents[check])
                             /\ ReadAs(check, used[check])'
                             /\ Verified(check, used'[check], req)
    PROVE  DocumentInv'
  <1>1. plan' = plan /\ req' = req
    BY PlanSettled DEF planVars, Check
  <1>2. pc' \in Checking /\ Behind[pc'] = Behind[check] \cup {check} /\ Behind[pc'] \subseteq Check
    BY AfterCheckPlace, BehindChecks
  <1>3. pc' \in Check => Len(held') <= Len(Documents[pc']) /\ ReadAs(pc, held)'
    BY CheckDocuments DEF ReadAs
  <1>4. ASSUME NEW other \in Behind[pc'] \cap plan
        PROVE  /\ Len(used'[other]) = Len(Documents[other])
               /\ ReadAs(other, used[other])'
               /\ Verified(other, used'[other], req')
    <2>1. CASE other = check
      BY <1>1, <1>4, <2>1
    <2>2. CASE other # check
      <3>1. /\ other \in Check /\ other \in Behind[pc] \cap plan /\ pc \in Checking
            /\ used'[other] = used[other]
        BY <1>2, <1>4, <2>2 DEF Checking
      <3>2. /\ Len(used'[other]) = Len(Documents[other])
            /\ \A i \in DOMAIN used[other] : used[other][i] \in available'[Documents[other][i]]
            /\ Verified(other, used'[other], req')
        BY <3>1, PassedStays DEF ReadAs
      <3>3. QED
        BY <3>1, <3>2 DEF ReadAs
    <2>3. QED
      BY <2>1, <2>2
  <1>5. held' \in Seq(Blob)
    OBVIOUS
  <1>6. QED
    BY <1>1, <1>2, <1>3, <1>4, <1>5 DEF DocumentInv

\* One more file was read.
LEMMA DocumentsRead ==
    ASSUME VerifierInv, [Next]_vars, NEW check \in Check, ReadFile(check), pc' # "rejected"
    PROVE  DocumentInv'
  <1> DEFINE n    == Len(held) + 1
             name == Documents[check][n]
             blob == files[PathOf[name]]
  <1>1. /\ pc = check /\ check \in plan /\ Len(held) < Len(Documents[check])
        /\ ~FromBundle(check)
        /\ held' = Append(held, blob) /\ UNCHANGED <<pc, used, available>>
    BY DEF ReadFile, Reject, worldVars
  <1>2. plan' = plan /\ req' = req
    BY <1>1, PlanSettled DEF planVars, Check
  <1>3. /\ held \in Seq(Blob) /\ ReadAs(check, held)
        /\ WorldInv /\ DocumentInv /\ Len(Documents[check]) \in Nat
    BY <1>1, CheckDocuments DEF VerifierInv, DocumentInv
  <1>4. n \in 1..Len(Documents[check]) /\ name \in Document
    BY <1>1, <1>3, CheckDocuments
  <1>5. blob \in available[name] /\ blob \in Blob
    <2>1. PathOf[name] \in Path
      BY <1>4, VerifierAssumption
    <2>2. blob \in UNION {FileContent[p] : p \in Path}
      BY <1>3, <2>1 DEF WorldInv
    <2>3. blob \in available[name]
      BY <1>1, <1>3, <1>4, FilesAreTheSource DEF WorldInv
    <2>4. QED
      BY <2>2, <2>3 DEF Blob
  <1>6. held' \in Seq(Blob) /\ Len(held') = n /\ n <= Len(Documents[check])
    BY <1>1, <1>3, <1>4, <1>5
  <1>7. ASSUME NEW i \in DOMAIN held'
        PROVE  held'[i] \in available[Documents[check][i]]
    <2>1. CASE i = n
      BY <1>1, <1>3, <1>5, <2>1
    <2>2. CASE i # n
      BY <1>1, <1>3, <1>6, <1>7, <2>2 DEF ReadAs
    <2>3. QED
      BY <2>1, <2>2
  <1>8. ReadAs(pc, held)'
    BY <1>1, <1>7 DEF ReadAs
  <1>9. ASSUME NEW other \in Behind[pc] \cap plan, pc \in Checking
        PROVE  (/\ Len(used[other]) = Len(Documents[other])
                /\ ReadAs(other, used[other])
                /\ Verified(other, used[other], req))'
    BY <1>1, <1>2, <1>3, <1>9 DEF DocumentInv, ReadAs
  <1>10. QED
    BY <1>1, <1>2, <1>3, <1>6, <1>8, <1>9 DEF DocumentInv

\* The bundle gave all the documents.
LEMMA DocumentsTaken ==
    ASSUME VerifierInv, [Next]_vars, NEW check \in Check, TakeFromBundle(check),
           pc' # "rejected"
    PROVE  DocumentInv'
  <1>1. /\ pc = check /\ check \in plan /\ FromBundle(check)
        /\ held' = [i \in DOMAIN Documents[check] |-> Collateral[Documents[check][i]]]
        /\ UNCHANGED <<pc, used, available>>
    BY DEF TakeFromBundle, Reject, worldVars
  <1>2. plan' = plan /\ req' = req
    BY <1>1, PlanSettled DEF planVars, Check
  <1>3. WorldInv /\ DocumentInv
    BY DEF VerifierInv
  <1>4. \A i \in DOMAIN Documents[check] :
           Collateral[Documents[check][i]] \in available[Documents[check][i]] \cap Blob
    BY <1>1, BundleIsTheSource
  <1>5. /\ DOMAIN Documents[check] = 1..Len(Documents[check])
        /\ Len(Documents[check]) \in Nat
    BY CheckDocuments
  <1>6. held' \in Seq(Blob) /\ Len(held') = Len(Documents[check])
    BY <1>1, <1>4, <1>5
  <1>7. ReadAs(pc, held)'
    BY <1>1, <1>4, <1>5 DEF ReadAs
  <1>8. ASSUME NEW other \in Behind[pc] \cap plan, pc \in Checking
        PROVE  (/\ Len(used[other]) = Len(Documents[other])
                /\ ReadAs(other, used[other])
                /\ Verified(other, used[other], req))'
    BY <1>1, <1>2, <1>3, <1>8 DEF DocumentInv, ReadAs
  <1>9. QED
    BY <1>1, <1>2, <1>3, <1>5, <1>6, <1>7, <1>8 DEF DocumentInv

LEMMA DocumentPart == VerifierInv /\ [Next]_vars => DocumentInv'
  <1> SUFFICES ASSUME VerifierInv, [Next]_vars PROVE DocumentInv'
    OBVIOUS
  <1>1. DocumentInv /\ ControlInv
    BY DEF VerifierInv
  <1>2. CASE Start \/ ResolvePlan \/ VerifyEvidence
    <2>1. pc \notin Check /\ held = <<>>
      BY <1>1, <1>2 DEF Start, ResolvePlan, VerifyEvidence, DocumentInv, Check
    <2>2. held' = <<>> /\ UNCHANGED used
      BY <1>2, <2>1 DEF Start, ResolvePlan, VerifyEvidence, Reject
    <2>3. pc' \in {"plan", "evidence", "fetch", "pckCRL", "rejected"}
      BY <1>2 DEF Start, ResolvePlan, VerifyEvidence, Reject
    <2>4. QED
      BY <2>2, <2>3, DocumentsNotHeld DEF Checking, Check
  <1>3. CASE Fetch
    <2>1. pc = "fetch" /\ held = <<>>
      BY <1>1, <1>3 DEF Fetch, DocumentInv, Check
    <2>2. held' = <<>> /\ UNCHANGED used /\ pc' \in {"fetch", "pckCRL", "rejected"}
      <3>1. CASE fetch' = "ok"
        BY <1>3, <2>1, <3>1 DEF Fetch
      <3>2. CASE fetch' = "failed"
        BY <1>3, <2>1, <3>2 DEF Fetch, Reject
      <3>3. CASE fetch' \notin {"ok", "failed"}
        BY <1>3, <2>1, <3>3 DEF Fetch, pipelineVars
      <3>4. QED
        BY <3>1, <3>2, <3>3
    <2>3. QED
      BY <2>2, DocumentsNotHeld DEF Checking, Check
  <1>4. ASSUME NEW check \in Check, Skip(check)
        PROVE  DocumentInv'
    <2>1. /\ pc = check /\ check \notin plan /\ pc' = After[check] /\ held' = <<>>
          /\ used' = used
      BY <1>1, <1>4 DEF Skip, DocumentInv
    <2>2. used' \in [Check -> Seq(Blob)]
      BY <1>1, <2>1 DEF DocumentInv
    <2>3. QED
      BY <2>1, <2>2, DocumentsOfNext
  <1>5. ASSUME NEW check \in Check, ReadFile(check)
        PROVE  DocumentInv'
    <2>1. CASE pc' = "rejected"
      <3>1. held' = <<>> /\ UNCHANGED used
        BY <1>5, <2>1 DEF ReadFile, Reject, Check
      <3>2. QED
        BY <2>1, <3>1, DocumentsNotHeld DEF Checking, Check
    <2>2. CASE pc' # "rejected"
      BY <1>5, <2>2, DocumentsRead
    <2>3. QED
      BY <2>1, <2>2
  <1>6. ASSUME NEW check \in Check, TakeFromBundle(check)
        PROVE  DocumentInv'
    <2>1. CASE pc' = "rejected"
      <3>1. held' = <<>> /\ UNCHANGED used
        BY <1>6, <2>1 DEF TakeFromBundle, Reject, Check
      <3>2. QED
        BY <2>1, <3>1, DocumentsNotHeld DEF Checking, Check
    <2>2. CASE pc' # "rejected"
      BY <1>6, <2>2, DocumentsTaken
    <2>3. QED
      BY <2>1, <2>2
  <1>7. ASSUME NEW check \in Check, Decide(check)
        PROVE  DocumentInv'
    <2>1. CASE ~Verified(check, held, req)
      <3>1. held' = <<>> /\ UNCHANGED used /\ pc' = "rejected"
        BY <1>7, <2>1 DEF Decide, Reject
      <3>2. QED
        BY <3>1, DocumentsNotHeld DEF Checking, Check
    <2>2. CASE Verified(check, held, req)
      <3>1. /\ pc = check /\ pc' = After[check] /\ held' = <<>>
            /\ used' = [used EXCEPT ![check] = held] /\ available' = available
            /\ Len(held) = Len(Documents[check])
        BY <1>7, <2>2 DEF Decide, worldVars
      <3>2. held \in Seq(Blob) /\ used \in [Check -> Seq(Blob)] /\ ReadAs(check, held)
        BY <1>1, <3>1 DEF DocumentInv
      <3>3. used' \in [Check -> Seq(Blob)] /\ used'[check] = held
        BY <3>1, <3>2
      <3>4. \A other \in Check \ {check} : used'[other] = used[other]
        BY <3>1, <3>2
      <3>5. ReadAs(check, used[check])'
        BY <3>1, <3>2, <3>3 DEF ReadAs
      <3>6. QED
        BY <2>2, <3>1, <3>3, <3>4, <3>5, DocumentsOfNext
    <2>3. QED
      BY <2>1, <2>2
  <1>8. CASE WorldStep \/ UNCHANGED vars
    <2>1. UNCHANGED <<plan, pc, held, used>>
      BY <1>8 DEF WorldStep, PCSPublish, ReplaceFile, vars, planVars, pipelineVars
    <2>2. QED
      BY <2>1, DocumentsKept
  <1>9. QED
    BY <1>2, <1>3, <1>4, <1>5, <1>6, <1>7, <1>8 DEF Next, VerifierStep
----------------------------------------------------------------------------
(* The report *)

\* What follows a check that is passed over, or that passed.
LEMMA ReportOfNext ==
    ASSUME VerifierInv, [Next]_vars, NEW check \in Check, pc = check, pc' = After[check],
           reported' = reported \o NamesOf(check, plan)
    PROVE  ReportInv'
  <1>1. plan' = plan /\ ReportAt' = ReportAt
    <2>1. plan' = plan
      BY PlanSettled DEF planVars, Check
    <2>2. QED
      BY <2>1 DEF ReportAt, Promise!Report, Promise!NamesIf
  <1>2. reported = ReportAt[check]
    BY DEF VerifierInv, ReportInv, Checking
  <1>3. reported' = ReportAt'[pc'] /\ pc' \in Checking
    BY <1>1, <1>2, ReportStep, AfterCheckPlace
  <1>4. QED
    BY <1>3 DEF ReportInv, Checking, Check

\* Where nothing is reported and nothing moves on.
LEMMA ReportKept ==
    ASSUME VerifierInv, [Next]_vars, UNCHANGED <<plan, pc, reported>>
    PROVE  ReportInv'
  <1>1. ReportAt' = ReportAt
    BY DEF ReportAt, Promise!Report, Promise!NamesIf
  <1>2. QED
    BY <1>1 DEF VerifierInv, ReportInv

LEMMA ReportPart == VerifierInv /\ [Next]_vars => ReportInv'
  <1> SUFFICES ASSUME VerifierInv, [Next]_vars PROVE ReportInv'
    OBVIOUS
  <1>1. ReportInv
    BY DEF VerifierInv
  <1>2. ASSUME pc' = "rejected"
        PROVE  ReportInv'
    BY <1>2 DEF ReportInv, Checking, Check
  <1>3. CASE Start \/ ResolvePlan
    BY <1>1, <1>3 DEF Start, ResolvePlan, Reject, ReportInv, Checking, Check
  <1>4. CASE VerifyEvidence
    <2>1. CASE EvidenceOK(req)
      <3>1. plan' = plan /\ pc' \in {"fetch", "pckCRL"} /\ reported' = ChainReport(plan)
        BY <1>4, <2>1 DEF VerifyEvidence, planVars, ChainReport
      <3>2. ReportAt["pckCRL"]' = ChainReport(plan)
        BY <3>1 DEF ReportAt, Checking, Check
      <3>3. QED
        BY <3>1, <3>2 DEF ReportInv, Checking, Check, ChainReport
    <2>2. CASE ~EvidenceOK(req)
      BY <1>2, <1>4, <2>2 DEF VerifyEvidence, Reject
    <2>3. QED
      BY <2>1, <2>2
  <1>5. CASE Fetch
    <2>1. /\ plan' = plan /\ pc = "fetch" /\ reported = ChainReport(plan)
      BY <1>1, <1>5 DEF Fetch, planVars, ReportInv
    <2>2. CASE fetch' = "ok"
      <3>1. pc' = "pckCRL" /\ reported' = reported
        BY <1>5, <2>2 DEF Fetch
      <3>2. ReportAt["pckCRL"]' = ChainReport(plan)
        BY <2>1 DEF ReportAt, Checking, Check
      <3>3. QED
        BY <2>1, <3>1, <3>2 DEF ReportInv, Checking, Check
    <2>3. CASE fetch' = "failed"
      BY <1>2, <1>5, <2>3 DEF Fetch, Reject
    <2>4. CASE fetch' \notin {"ok", "failed"}
      BY <1>5, <2>1, <2>4, ReportKept DEF Fetch, pipelineVars
    <2>5. QED
      BY <2>2, <2>3, <2>4
  <1>6. ASSUME NEW check \in Check, Skip(check)
        PROVE  ReportInv'
    <2>1. pc = check /\ check \notin plan /\ pc' = After[check] /\ reported' = reported
      BY <1>6 DEF Skip
    <2>2. reported \in Seq(ReportName)
      BY <1>1, <2>1, ReportIsSequence DEF ReportInv, Checking
    <2>3. reported' = reported \o NamesOf(check, plan)
      BY <2>1, <2>2 DEF NamesOf
    <2>4. QED
      BY <2>1, <2>3, ReportOfNext
  <1>7. ASSUME NEW check \in Check, ReadFile(check) \/ TakeFromBundle(check)
        PROVE  ReportInv'
    <2>1. CASE pc' = "rejected"
      BY <1>2, <2>1
    <2>2. CASE pc' # "rejected"
      BY <1>7, <2>2, ReportKept DEF ReadFile, TakeFromBundle, Reject, planVars
    <2>3. QED
      BY <2>1, <2>2
  <1>8. ASSUME NEW check \in Check, Decide(check)
        PROVE  ReportInv'
    <2>1. CASE Verified(check, held, req)
      <3>1. /\ pc = check /\ check \in plan /\ pc' = After[check]
            /\ reported' = reported \o CheckNames[check]
        BY <1>8, <2>1 DEF Decide
      <3>2. reported' = reported \o NamesOf(check, plan)
        BY <3>1 DEF NamesOf
      <3>3. QED
        BY <3>1, <3>2, ReportOfNext
    <2>2. CASE ~Verified(check, held, req)
      BY <1>2, <1>8, <2>2 DEF Decide, Reject
    <2>3. QED
      BY <2>1, <2>2
  <1>9. CASE WorldStep \/ UNCHANGED vars
    BY <1>9, ReportKept DEF WorldStep, PCSPublish, ReplaceFile, vars, planVars, pipelineVars
  <1>10. QED
    BY <1>3, <1>4, <1>5, <1>6, <1>7, <1>8, <1>9 DEF Next, VerifierStep

LEMMA VerifierInvAlways == Spec => []VerifierInv
  <1>1. VerifierInv /\ [Next]_vars => VerifierInv'
    BY PlanPart, FetchPart, ControlPart, WorldPart, DocumentPart, ReportPart DEF VerifierInv
  <1>2. QED
    BY <1>1, VerifierInvInit, PTL DEF Spec
----------------------------------------------------------------------------
(* The theorems *)

\* The state of the pipeline and of the world has its type; a check never
\* holds more documents than it reads (verifier.go:77-186).
THEOREM VerifierTypeCorrect == Spec => []VerifierTypeOK
  <1>1. ASSUME VerifierInv PROVE VerifierTypeOK
    <2>1. PlanTypeOK /\ FetchTypeOK /\ WorldInv /\ DocumentInv /\ ControlInv
      BY <1>1 DEF VerifierInv, PlanInv, FetchInv
    <2>2. Len(held) <= (IF pc \in Check THEN Len(Documents[pc]) ELSE 0)
      BY <2>1 DEF DocumentInv
    <2>3. DOMAIN used = Check /\ DOMAIN available = Document
      BY <2>1 DEF DocumentInv, WorldInv
    <2>4. QED
      BY <2>1, <2>2, <2>3 DEF VerifierTypeOK, WorldInv, ControlInv, Place
  <1>2. QED
    BY <1>1, VerifierInvAlways, PTL

\* A fetch hands over a bundle only when it is complete (pcs.go:70-109).
THEOREM FetchAllOrNothing == Spec => []BundleOnlyWhenComplete
  <1>1. VerifierInv => BundleOnlyWhenComplete
    BY FetchInvMeans DEF VerifierInv
  <1>2. QED
    BY <1>1, VerifierInvAlways, PTL

\* However often the service publishes between two requests, a document and
\* its issuer chain come from one reply (pcs.go:70-86).
THEOREM FetchNotTorn == Spec => []BundleNotTorn
  <1>1. VerifierInv => BundleNotTorn
    BY FetchInvMeans DEF VerifierInv
  <1>2. QED
    BY <1>1, VerifierInvAlways, PTL

\* The list in the bundle is the one of the CA that the quote names
\* (pcs.go:65-68, 88).
THEOREM FetchOfAskedCA == Spec => []BundleForAskedCA
  <1>1. VerifierInv => BundleForAskedCA
    BY FetchInvMeans DEF VerifierInv
  <1>2. QED
    BY <1>1, VerifierInvAlways, PTL

\* No document is read and no request is sent before the chain of the quote
\* has been verified, nor a request that no planned check needs
\* (verifier.go:102-124).
THEOREM ChainComesFirst == Spec => ChainBeforeCollateral
  <1> DEFINE Ordered == /\ held' # held => EvidenceOK(req)
                        /\ fetch' # fetch => EvidenceOK(req) /\ NeedsFetch
  <1>1. ASSUME VerifierInv, [Next]_vars PROVE [Ordered]_vars
    <2>1. ControlInv /\ DocumentInv
      BY <1>1 DEF VerifierInv
    <2>2. ASSUME held' # held PROVE EvidenceOK(req)
      <3>1. pc \in Check
        <4>1. CASE pc \in {"start", "plan", "evidence", "fetch"}
          <5>1. held = <<>>
            BY <2>1, <4>1 DEF DocumentInv, Check
          <5>2. held' = <<>>
            BY <1>1, <4>1, <5>1
            DEF Next, VerifierStep, WorldStep, Start, ResolvePlan, VerifyEvidence, Fetch, Skip,
                ReadFile, TakeFromBundle, Decide, ReplaceFile, PCSPublish, Reject,
                pipelineVars, vars, Check
          <5>3. QED
            BY <2>2, <5>1, <5>2
        <4>2. CASE pc \in Final
          BY <1>1, <2>2, <4>2
          DEF Next, VerifierStep, WorldStep, Start, ResolvePlan, VerifyEvidence, Fetch, Skip,
              ReadFile, TakeFromBundle, Decide, ReplaceFile, PCSPublish, Final, Check,
              pipelineVars, vars
        <4>3. QED
          BY <2>1, <4>1, <4>2 DEF ControlInv, Place
      <3>2. QED
        BY <2>1, <3>1 DEF ControlInv, Checking
    <2>3. ASSUME fetch' # fetch PROVE EvidenceOK(req) /\ NeedsFetch
      <3>1. pc = "fetch"
        BY <1>1, <2>3, ClientSettled DEF fetchVars, clientVars
      <3>2. QED
        BY <2>1, <3>1 DEF ControlInv
    <2>4. QED
      BY <2>2, <2>3
  <1>2. QED
    BY <1>1, VerifierInvAlways, PTL DEF Spec, ChainBeforeCollateral
----------------------------------------------------------------------------
(* The pipeline keeps the promise of module Attestation *)

\* Documents that could be read are what a check may be given.
LEMMA ReadIsObtainable ==
    ASSUME NEW check \in Check, NEW docs, ReadAs(check, docs),
           docs = [i \in DOMAIN Documents[check] |-> docs[i]]
    PROVE  docs \in Promise!Obtainable(check)
  <1>1. DOMAIN docs = DOMAIN Documents[check]
    OBVIOUS
  <1>2. \A i \in DOMAIN docs :
           docs[i] \in UNION {available[Documents[check][j]] : j \in DOMAIN Documents[check]}
    BY <1>1 DEF ReadAs
  <1>3. docs \in [DOMAIN Documents[check] ->
                     UNION {available[Documents[check][i]] : i \in DOMAIN Documents[check]}]
    BY <1>1, <1>2
  <1>4. \A i \in DOMAIN docs : docs[i] \in available[Documents[check][i]]
    BY DEF ReadAs
  <1>5. QED
    BY <1>3, <1>4, Zenon DEF Promise!Obtainable

\* A check that holds as many documents as it reads holds one for each.
LEMMA SequenceForCheck ==
    ASSUME NEW check \in Check, NEW docs \in Seq(Blob), Len(docs) = Len(Documents[check])
    PROVE  docs = [i \in DOMAIN Documents[check] |-> docs[i]]
  <1>1. DOMAIN docs = DOMAIN Documents[check]
    BY CheckDocuments
  <1>2. docs = [i \in DOMAIN docs |-> docs[i]]
    OBVIOUS
  <1>3. QED
    BY <1>1, <1>2

\* Documents that could be read, and on which a check passes, justify it.
LEMMA PassedIsJustified ==
    ASSUME NEW check \in Check, NEW docs \in Seq(Blob), Len(docs) = Len(Documents[check]),
           ReadAs(check, docs), Verified(check, docs, req)
    PROVE  Promise!Justified(check)
  <1>1. docs \in Promise!Obtainable(check)
    BY SequenceForCheck, ReadIsObtainable
  <1>2. QED
    BY <1>1 DEF Promise!Justified

\* What acceptance means: everything that Accept of module Attestation asks
\* for, and the report of the plan.
AcceptedInv ==
    pc = "accepted" =>
        /\ Promise!Proper
        /\ \A check \in Promise!Planned : Promise!Justified(check)
        /\ reported = Promise!Report(PlannedFlags(req))

\* Among the checks, the plan is the one the request stands for.
LEMMA PlanIsRequested ==
    ASSUME VerifierInv, pc \in Checking
    PROVE  Promise!Proper /\ plan = PlannedFlags(req)
  <1>1. RequestValid(req) /\ EvidenceOK(req) /\ resolution = "ok"
    BY DEF VerifierInv, ControlInv, Checking, Check
  <1>2. QED
    BY <1>1 DEF VerifierInv, PlanInv, Promise!Proper

LEMMA AcceptedFromInv == VerifierInv => AcceptedInv
  <1> SUFFICES ASSUME VerifierInv, pc = "accepted"
               PROVE  /\ Promise!Proper
                      /\ \A check \in Promise!Planned : Promise!Justified(check)
                      /\ reported = Promise!Report(PlannedFlags(req))
    BY DEF AcceptedInv
  <1>1. DocumentInv /\ ReportInv /\ pc \in Checking
    BY DEF VerifierInv, Checking
  <1>2. Promise!Proper /\ plan = PlannedFlags(req)
    BY <1>1, PlanIsRequested
  <1>3. ASSUME NEW check \in Check \cap plan
        PROVE  Promise!Justified(check)
    <2>1. check \in Behind[pc] \cap plan
      BY <1>3 DEF Behind, Checking
    <2>2. /\ used[check] \in Seq(Blob) /\ Len(used[check]) = Len(Documents[check])
          /\ ReadAs(check, used[check]) /\ Verified(check, used[check], req)
      BY <1>1, <1>3, <2>1 DEF DocumentInv
    <2>3. QED
      BY <1>3, <2>2, PassedIsJustified
  <1>4. reported = Promise!Report(plan)
    BY <1>1 DEF ReportInv, ReportAt, Checking
  <1>5. QED
    BY <1>2, <1>3, <1>4 DEF Promise!Planned

\* No check passes on a document that is not there.
LEMMA NothingPassesOnNothing ==
    ASSUME NEW check \in Check, NEW docs, Verified(check, docs, req)
    PROVE  /\ check = "tdxPolicy" => PolicyGiven(req)
           /\ \A i \in DOMAIN Documents[check] : docs[i] \notin {Missing, NoContent}
  <1> DEFINE There(doc) == doc.kind \in {"crl", "json", "chain", "policy"}
  <1>1. \A doc : There(doc) => doc \notin {Missing, NoContent}
    BY AbsenceAssumption
  <1> HIDE DEF There
  <1>2. CASE check = "pckCRL"
    <2>1. There(docs[1])
      BY <1>2 DEF Verified, VerifyPCKCRL, There
    <2>2. QED
      BY <1>1, <1>2, <2>1 DEF Documents
  <1>3. CASE check = "rootCRL"
    <2>1. There(docs[1])
      BY <1>3 DEF Verified, VerifyRootCACRL, There
    <2>2. QED
      BY <1>1, <1>3, <2>1 DEF Documents
  <1>4. CASE check = "quoteSignature"
    BY <1>4 DEF Documents
  <1>5. CASE check = "tcbInfo"
    <2>1. There(docs[1]) /\ There(docs[2]) /\ There(docs[3])
      BY <1>5 DEF Verified, VerifyTCBInfo, SignedUnderRoot, VerifyRootCACRL, There
    <2>2. QED
      BY <1>1, <1>5, <2>1 DEF Documents
  <1>6. CASE check = "qeIdentity"
    <2>1. There(docs[1]) /\ There(docs[2]) /\ There(docs[3])
      BY <1>6 DEF Verified, VerifyQEIdentity, SignedUnderRoot, VerifyRootCACRL, There
    <2>2. QED
      BY <1>1, <1>6, <2>1 DEF Documents
  <1>7. CASE check = "tdxPolicy"
    <2>1. There(docs[1]) /\ PolicyGiven(req)
      BY <1>7 DEF Verified, VerifyTDXPolicy, There
    <2>2. QED
      BY <1>1, <1>7, <2>1 DEF Documents
  <1>8. QED
    BY <1>2, <1>3, <1>4, <1>5, <1>6, <1>7 DEF Check

\* A check that cannot pass on what it finds now is contested: what it finds
\* is something it may have been given.
LEMMA ContestedNow ==
    ASSUME VerifierInv, NEW check \in Check \cap plan, pc = check,
           ~Verified(check, DocumentsFrom(check, CollateralNow), req)
    PROVE  Promise!Contested(check)
  <1> DEFINE docs == DocumentsFrom(check, CollateralNow)
  <1>1. docs = [i \in DOMAIN Documents[check] |-> CollateralNow[Documents[check][i]]]
    BY DEF DocumentsFrom
  <1>2. \A i \in DOMAIN Documents[check] :
           CollateralNow[Documents[check][i]] \in available[Documents[check][i]]
    BY NowIsObtainable
  <1> HIDE DEF docs
  <1>3. docs = [i \in DOMAIN Documents[check] |-> docs[i]] /\ ReadAs(check, docs)
    BY <1>1, <1>2 DEF ReadAs
  <1>4. docs \in Promise!Obtainable(check)
    BY <1>3, ReadIsObtainable
  <1>5. QED
    BY <1>4 DEF Promise!Contested, docs

\* A refused read, of a file that is not there or without a policy.
LEMMA RefusedRead ==
    ASSUME VerifierInv, [Next]_vars, NEW check \in Check, ReadFile(check), pc' = "rejected"
    PROVE  Promise!Contested(check)
  <1> DEFINE i == Len(held) + 1
             name == Documents[check][i]
  <1>1. /\ pc = check /\ check \in plan /\ ~FromBundle(check) /\ Len(held) < Len(Documents[check])
        /\ files[PathOf[name]] = Missing \/ (check = "tdxPolicy" /\ ~PolicyGiven(req))
    BY DEF ReadFile, Check
  <1>2. i \in DOMAIN Documents[check] /\ name \in Document
    <2>1. held \in Seq(Blob)
      BY DEF VerifierInv, DocumentInv
    <2>2. QED
      BY <1>1, <2>1, CheckDocuments
  <1>3. CollateralNow[name] = files[PathOf[name]]
    <2>1. name \in Slot => Collateral = NoBundle
      BY <1>1, <1>2, CollateralDocuments DEF FromBundle
    <2>2. QED
      BY <1>2, <2>1 DEF CollateralNow
  <1>4. DocumentsFrom(check, CollateralNow)[i] = files[PathOf[name]]
    BY <1>2, <1>3 DEF DocumentsFrom
  <1>5. ~Verified(check, DocumentsFrom(check, CollateralNow), req)
    BY <1>1, <1>2, <1>4, NothingPassesOnNothing
  <1>6. QED
    BY <1>1, <1>5, ContestedNow

\* A bundle that lacks a document.
LEMMA RefusedBundle ==
    ASSUME VerifierInv, [Next]_vars, NEW check \in Check, TakeFromBundle(check),
           pc' = "rejected"
    PROVE  Promise!Contested(check)
  <1>1. /\ pc = check /\ check \in plan /\ check # "tdxPolicy" /\ Collateral # NoBundle
        /\ \E i \in DOMAIN Documents[check] : Collateral[Documents[check][i]] = NoContent
    BY DEF TakeFromBundle, FromBundle, Check
  <1>2. PICK i \in DOMAIN Documents[check] : Collateral[Documents[check][i]] = NoContent
    BY <1>1
  <1>3. CollateralNow[Documents[check][i]] = NoContent
    BY <1>1, <1>2, CheckDocuments, SlotDocuments DEF CollateralNow
  <1>4. DocumentsFrom(check, CollateralNow)[i] = NoContent
    BY <1>3 DEF DocumentsFrom
  <1>5. ~Verified(check, DocumentsFrom(check, CollateralNow), req)
    BY <1>4, NothingPassesOnNothing
  <1>6. QED
    BY <1>1, <1>5, ContestedNow

\* A check that does not pass on the documents it holds.
LEMMA RefusedCheck ==
    ASSUME VerifierInv, [Next]_vars, NEW check \in Check, Decide(check), pc' = "rejected"
    PROVE  Promise!Contested(check)
  <1>1. /\ pc = check /\ Len(held) = Len(Documents[check]) /\ ~Verified(check, held, req)
    <2>1. After[check] # "rejected"
      BY AfterCheckPlace DEF Checking, Check
    <2>2. QED
      BY <2>1 DEF Decide
  <1>2. held \in Seq(Blob) /\ ReadAs(check, held)
    BY <1>1 DEF VerifierInv, DocumentInv
  <1>3. held \in Promise!Obtainable(check)
    BY <1>1, <1>2, SequenceForCheck, ReadIsObtainable
  <1>4. QED
    BY <1>1, <1>3 DEF Promise!Contested

\* A fetch that fails was needed.
LEMMA FailedFetchWasNeeded ==
    ASSUME VerifierInv, pc = "fetch"
    PROVE  NeedsPCS(req)
  <1>1. NeedsFetch /\ resolution = "ok"
    BY DEF VerifierInv, ControlInv
  <1>2. plan = PlannedFlags(req)
    BY <1>1 DEF VerifierInv, PlanInv
  <1>3. QED
    BY <1>1, <1>2 DEF NeedsFetch, NeedsPCS

\* A verdict leaves what is available alone.
LEMMA VerdictIsNoNews ==
    ASSUME [Next]_vars, Running, pc' \in Final
    PROVE  available' = available
  <1>1. CASE Fetch
    <2>1. fetch' # "ok"
      BY <1>1 DEF Fetch, Final
    <2>2. QED
      BY <1>1, <2>1 DEF Fetch
  <1>2. CASE WorldStep
    BY <1>2 DEF WorldStep, PCSPublish, ReplaceFile, pipelineVars, Running
  <1>3. QED
    BY <1>1, <1>2
    DEF Next, VerifierStep, Start, ResolvePlan, VerifyEvidence, Skip, ReadFile, TakeFromBundle,
        Decide, worldVars, vars

Reason == Promise!Proper => \E check \in Promise!Planned : Promise!Contested(check)

\* Every refusal has its reason: what was to be fetched did not arrive, or
\* the request, its evidence or a planned check is at fault.
LEMMA RefusedForAReason ==
    ASSUME VerifierInv, VerifierInv', [Next]_vars, Running, pc' = "rejected"
    PROVE  /\ fetch' = "failed" => NeedsPCS(req)
           /\ fetch' = "failed" \/ Reason
  <1>1. fetch' = "failed" => NeedsPCS(req)
    <2>1. fetch # "failed"
      BY DEF VerifierInv, ControlInv, Running, Final
    <2>2. QED
      BY <2>1, FailedFetchWasNeeded, ClientSettled DEF fetchVars, clientVars
  <1>2. CASE Start
    <2>1. ~RequestValid(req)
      BY <1>2 DEF Start
    <2>2. QED
      BY <1>1, <2>1 DEF Reason, Promise!Proper
  <1>3. CASE ResolvePlan
    <2>1. resolution' = "error"
      BY <1>3 DEF ResolvePlan
    <2>2. ~AllSupported(req)
      <3>1. ~AllSupported(req)'
        BY <2>1 DEF VerifierInv, PlanInv
      <3>2. QED
        BY <3>1, RequestFixed DEF AllSupported
    <2>3. QED
      BY <1>1, <2>2 DEF Reason, Promise!Proper
  <1>4. CASE VerifyEvidence
    <2>1. ~EvidenceOK(req)
      BY <1>4 DEF VerifyEvidence
    <2>2. QED
      BY <1>1, <2>1 DEF Reason, Promise!Proper
  <1>5. CASE Fetch
    <2>1. fetch' # "ok"
      BY <1>5 DEF Fetch
    <2>2. fetch' # "failed" => pc' = pc
      BY <1>5, <2>1 DEF Fetch, pipelineVars
    <2>3. QED
      BY <1>1, <2>2 DEF Running, Final
  <1>6. ASSUME NEW check \in Check, Skip(check)
        PROVE  FALSE
    BY <1>6, AfterCheckPlace DEF Skip, Checking, Check
  <1>7. ASSUME NEW check \in Check, ReadFile(check) \/ TakeFromBundle(check) \/ Decide(check)
        PROVE  Reason
    <2>1. pc = check /\ check \in plan
      BY <1>7 DEF ReadFile, TakeFromBundle, Decide
    <2>2. check \in Promise!Planned
      <3>1. plan = PlannedFlags(req)
        BY <1>7, <2>1, PlanIsRequested DEF Checking
      <3>2. QED
        BY <1>7, <2>1, <3>1 DEF Promise!Planned
    <2>3. Promise!Contested(check)
      BY <1>7, RefusedRead, RefusedBundle, RefusedCheck
    <2>4. QED
      BY <2>2, <2>3 DEF Reason
  <1>8. CASE WorldStep \/ UNCHANGED vars
    BY <1>8 DEF WorldStep, PCSPublish, ReplaceFile, vars, pipelineVars, Running, Final
  <1>9. QED
    BY <1>1, <1>2, <1>3, <1>4, <1>5, <1>6, <1>7, <1>8 DEF Next, VerifierStep

\* The verdict and the report, as module Attestation sees them.
Verdict == IF Running THEN "pending" ELSE pc

Reported == IF pc = "accepted" THEN reported ELSE <<>>

\* A step that gives no verdict only lets the world offer more.
LEMMA PromiseLearns ==
    ASSUME VerifierInv, VerifierInv', [Next]_vars, Running, pc' \notin Final
    PROVE  Promise!Learn
  <1>1. DOMAIN available' = Document
    BY DEF VerifierInv, WorldInv
  <1>2. \A d \in Document : available[d] \subseteq available'[d]
    BY AvailableGrows
  <1>3. req' = req
    BY RequestFixed
  <1>4. (fetch = "failed") = (fetch = "failed")'
    BY DEF VerifierInv, ControlInv, Running, Final
  <1>5. Verdict' = Verdict /\ Reported' = Reported
    BY DEF Verdict, Reported, Running, Final
  <1>6. QED
    BY <1>1, <1>2, <1>3, <1>4, <1>5 DEF Promise!Learn, Verdict, Reported

LEMMA PromiseRefuses ==
    ASSUME VerifierInv, VerifierInv', [Next]_vars, Running, pc' = "rejected"
    PROVE  Promise!Refuse
  <1>1. available' = available
    BY VerdictIsNoNews DEF Final
  <1>2. req' = req
    BY RequestFixed
  <1>3. Verdict = "pending" /\ Verdict' = "rejected" /\ Reported' = <<>> /\ Reported = <<>>
    BY DEF Verdict, Reported, Running, Final
  <1>4. (fetch = "failed")' \in {FALSE, NeedsPCS(req)}
    <2>1. NeedsPCS(req) \in BOOLEAN
      BY DEF NeedsPCS
    <2>2. QED
      BY <2>1, RefusedForAReason
  <1>5. (fetch = "failed")' \/ Reason
    BY RefusedForAReason
  <1>6. QED
    BY <1>1, <1>2, <1>3, <1>4, <1>5 DEF Promise!Refuse, Reason, Verdict, Reported

LEMMA PromiseAccepts ==
    ASSUME VerifierInv, VerifierInv', AcceptedInv', [Next]_vars, Running, pc' = "accepted"
    PROVE  Promise!Accept
  <1>1. available' = available
    BY VerdictIsNoNews DEF Final
  <1>2. req' = req
    BY RequestFixed
  <1>3. Promise!Proper /\ reported' = Promise!Report(PlannedFlags(req))
    BY <1>2 DEF AcceptedInv, Promise!Proper, Promise!Report, Promise!NamesIf
  <1>4. \A check \in Promise!Planned : Promise!Justified(check)
    BY <1>1, <1>2 DEF AcceptedInv, Promise!Planned, Promise!Justified, Promise!Obtainable
  <1>5. (fetch = "failed") = (fetch = "failed")'
    BY DEF VerifierInv, ControlInv, Running, Final
  <1>6. Verdict = "pending" /\ Verdict' = "accepted" /\ Reported' = reported' /\ Reported = <<>>
    BY DEF Verdict, Reported, Running, Final
  <1>7. QED
    BY <1>1, <1>2, <1>3, <1>4, <1>5, <1>6 DEF Promise!Accept, Verdict, Reported

\* When there is a verdict, nothing happens any more.
LEMMA VerdictIsFinal ==
    ASSUME [Next]_vars, ~Running
    PROVE  UNCHANGED vars
  BY DEF Next, VerifierStep, WorldStep, Start, ResolvePlan, VerifyEvidence, Fetch, Skip,
         ReadFile, TakeFromBundle, Decide, ReplaceFile, PCSPublish, Running, Final, Check

\* The verifier implements the abstract specification: whatever else happens
\* in the world, it accepts only what every planned check passes on, reports
\* exactly the plan, refuses only for a reason, and decides once; and nothing
\* but the source its request names counts (VerifyQuoteWithCollateral,
\* verifier.go:77-186).
THEOREM KeepsPromise == Spec => ImplementsAttestation
  <1>1. Init => Promise!Init
    BY DEF Init, PlanInit, FetchInit, Promise!Init, Running, Final
  <1>2. ASSUME VerifierInv, VerifierInv', AcceptedInv', [Next]_vars
        PROVE  [Promise!Next]_(Promise!vars)
    <2>1. pc \in Place /\ pc' \in Place
      BY <1>2 DEF VerifierInv, ControlInv
    <2>2. CASE Running /\ pc' = "rejected"
      BY <1>2, <2>2, PromiseRefuses DEF Promise!Next
    <2>3. CASE Running /\ pc' = "accepted"
      BY <1>2, <2>3, PromiseAccepts DEF Promise!Next
    <2>4. CASE Running /\ pc' \notin Final
      BY <1>2, <2>4, PromiseLearns DEF Promise!Next
    <2>5. CASE ~Running
      <3>1. UNCHANGED vars
        BY <1>2, <2>5, VerdictIsFinal
      <3>2. QED
        BY <3>1 DEF vars, planVars, fetchVars, clientVars, pipelineVars, worldVars,
                    Promise!vars, Running
    <2>6. QED
      BY <2>2, <2>3, <2>4, <2>5 DEF Final
  <1>3. QED
    BY <1>1, <1>2, VerifierInvAlways, AcceptedFromInv, PTL
    DEF Spec, ImplementsAttestation, Promise!Spec

\* What a run that refused can give as its reason.
RefusedInv == pc = "rejected" => fetch = "failed" \/ Reason

LEMMA RefusedInvAlways == Spec => []RefusedInv
  <1>1. Init => RefusedInv
    BY DEF Init, RefusedInv
  <1>2. ASSUME VerifierInv, VerifierInv', RefusedInv, [Next]_vars
        PROVE  RefusedInv'
    <2>1. CASE Running /\ pc' = "rejected"
      <3>1. req' = req /\ available' = available
        BY <1>2, <2>1, RequestFixed, VerdictIsNoNews DEF Final
      <3>2. Reason' = Reason
        BY <3>1 DEF Reason, Promise!Proper, Promise!Planned, Promise!Contested, Promise!Obtainable
      <3>3. QED
        BY <1>2, <2>1, <3>2, RefusedForAReason DEF RefusedInv
    <2>2. CASE ~Running
      <3>1. UNCHANGED <<pc, fetch, req, available>>
        BY <1>2, <2>2, VerdictIsFinal
        DEF vars, planVars, fetchVars, clientVars, pipelineVars, worldVars
      <3>2. Reason' = Reason
        BY <3>1 DEF Reason, Promise!Proper, Promise!Planned, Promise!Contested, Promise!Obtainable
      <3>3. QED
        BY <1>2, <3>1, <3>2 DEF RefusedInv
    <2>3. CASE pc' # "rejected"
      BY <2>3 DEF RefusedInv
    <2>4. QED
      BY <2>1, <2>2, <2>3
  <1>3. QED
    BY <1>1, <1>2, VerifierInvAlways, PTL DEF Spec
----------------------------------------------------------------------------
(* Every step of the pipeline leaves less to do *)

\* A check is four places from the next one, and reads three documents at most.
LEMMA PlaceOfCheck ==
    ASSUME NEW check \in Check
    PROVE  /\ PlaceLeft[check] \in 4..24
           /\ PlaceLeft[After[check]] = PlaceLeft[check] - 4
           /\ Len(Documents[check]) \in 0..3
  <1>1. CASE check = "pckCRL"
    BY <1>1 DEF PlaceLeft, After, Documents
  <1>2. CASE check = "rootCRL"
    BY <1>2 DEF PlaceLeft, After, Documents
  <1>3. CASE check = "quoteSignature"
    BY <1>3 DEF PlaceLeft, After, Documents
  <1>4. CASE check = "tcbInfo"
    BY <1>4 DEF PlaceLeft, After, Documents
  <1>5. CASE check = "qeIdentity"
    BY <1>5 DEF PlaceLeft, After, Documents
  <1>6. CASE check = "tdxPolicy"
    BY <1>6 DEF PlaceLeft, After, Documents
  <1>7. QED
    BY <1>1, <1>2, <1>3, <1>4, <1>5, <1>6 DEF Check

\* What is left at each place.
LeftInv ==
    /\ pc = "start" => Left = 32 + (Len(req.checks) + 1 - next)
    /\ pc = "plan" => Left = 31 + (Len(req.checks) + 1 - next)
    /\ pc = "evidence" => Left = 30
    /\ pc = "fetch" => Left = 29 - RequestsSent[fetch] /\ RequestsSent[fetch] \in 0..4
    /\ pc \in Check => Left = PlaceLeft[pc] - Len(held) /\ Len(held) \in 0..3
    /\ pc \in Final => Left = 0
    /\ Len(req.checks) + 1 - next \in Nat
    /\ Left \in Nat

LEMMA LeftFromInv == VerifierInv => LeftInv
  <1> SUFFICES ASSUME VerifierInv PROVE LeftInv
    OBVIOUS
  <1>1. /\ held \in Seq(Blob)
        /\ pc \notin Check => held = <<>>
        /\ pc \in Check => Len(held) <= Len(Documents[pc])
    BY DEF VerifierInv, DocumentInv
  <1>2. Len(held) \in Nat /\ (pc \notin Check => Len(held) = 0)
    BY <1>1
  <1>3. Len(req.checks) + 1 - next \in Nat /\ Len(req.checks) \in Nat /\ next \in Nat
    <2>1. req \in Request /\ next \in 1..(Len(req.checks) + 1)
      BY DEF VerifierInv, PlanInv, PlanTypeOK
    <2>2. Len(req.checks) \in Nat
      BY <2>1, RequestValues
    <2>3. QED
      BY <2>1, <2>2
  <1> DEFINE values == Len(req.checks) + 1 - next
  <1>4. CASE pc \in {"start", "plan", "evidence"}
    <2>1. Left = PlaceLeft[pc] - 0 + (IF pc \in {"start", "plan"} THEN values ELSE 0) - 0
      BY <1>2, <1>4 DEF Left, Check
    <2>2. values \in Nat
      BY <1>3
    <2> HIDE DEF values
    <2>3. /\ pc = "start" => Left = 32 + values
          /\ pc = "plan" => Left = 31 + values
          /\ pc = "evidence" => Left = 30
      BY <2>1, <2>2 DEF PlaceLeft
    <2>4. Left \in Nat
      BY <1>4, <2>2, <2>3
    <2>5. QED
      BY <1>4, <2>2, <2>3, <2>4 DEF LeftInv, Check, Final, values
  <1>5. CASE pc = "fetch"
    <2>1. RequestsSent[fetch] \in 0..4
      <3>1. fetch \in Stage \cup {"idle"}
        BY <1>5 DEF VerifierInv, ControlInv, FetchInv, FetchTypeOK
      <3>2. QED
        BY <3>1 DEF RequestsSent, Stage
    <2>2. PlaceLeft[pc] = 29
      BY <1>5 DEF PlaceLeft
    <2>3. QED
      BY <1>2, <1>3, <1>5, <2>1, <2>2 DEF LeftInv, Left, Check, Final
  <1>6. CASE pc \in Check
    <2>1. Len(Documents[pc]) \in 0..3 /\ PlaceLeft[pc] \in 4..24
      <3>1. \A check \in Check : Len(Documents[check]) \in 0..3 /\ PlaceLeft[check] \in 4..24
        BY PlaceOfCheck
      <3>2. QED
        BY <1>6, <3>1
    <2>2. Len(held) \in 0..3
      <3>1. \A h \in Nat, d \in 0..3 : h <= d => h \in 0..3
        OBVIOUS
      <3>2. QED
        BY <1>1, <1>2, <1>6, <2>1, <3>1
    <2>3. Left = PlaceLeft[pc] - Len(held) + 0 - 0
      BY <1>6 DEF Left, Check
    <2>4. Left = PlaceLeft[pc] - Len(held) /\ Left \in Nat
      <3>1. \A p \in 4..24, h \in 0..3 : p - h + 0 - 0 = p - h /\ p - h \in Nat
        OBVIOUS
      <3>2. QED
        BY <2>1, <2>2, <2>3, <3>1
    <2>5. QED
      BY <1>3, <1>6, <2>2, <2>4 DEF LeftInv, Check, Final
  <1>7. CASE pc \in Final
    BY <1>2, <1>3, <1>7 DEF LeftInv, Left, PlaceLeft, Check, Final
  <1>8. QED
    BY <1>3, <1>4, <1>5, <1>6, <1>7 DEF VerifierInv, ControlInv, Place, LeftInv

\* A refusal leaves nothing to do.
LEMMA RefusalIsProgress ==
    ASSUME VerifierInv, LeftInv, LeftInv', Running, pc' = "rejected"
    PROVE  Left' < Left
  <1>1. Left' = 0
    BY DEF LeftInv, Final
  <1>2. /\ RequestsSent[fetch] \in 0..4 => 29 - RequestsSent[fetch] > 0
        /\ Len(req.checks) + 1 - next \in Nat => 31 + (Len(req.checks) + 1 - next) > 0
        /\ Len(req.checks) + 1 - next \in Nat => 32 + (Len(req.checks) + 1 - next) > 0
    OBVIOUS
  <1>3. ASSUME pc \in Check PROVE Left > 0
    <2>1. PlaceLeft[pc] \in 4..24
      <3>1. \A check \in Check : PlaceLeft[check] \in 4..24
        BY PlaceOfCheck
      <3>2. QED
        BY <1>3, <3>1
    <2>2. Left = PlaceLeft[pc] - Len(held) /\ Len(held) \in 0..3
      BY <1>3 DEF LeftInv
    <2>3. \A p \in 4..24, h \in 0..3 : p - h > 0
      OBVIOUS
    <2>4. QED
      BY <2>1, <2>2, <2>3
  <1>4. Left > 0
    BY <1>2, <1>3 DEF LeftInv, VerifierInv, ControlInv, Place, Running, Final
  <1>5. QED
    BY <1>1, <1>4

\* Each value of -check is looked at once.
LEMMA PlanIsProgress ==
    ASSUME VerifierInv, LeftInv, LeftInv', [Next]_vars, ResolvePlan
    PROVE  Left' < Left
  <1>1. req' = req /\ pc = "plan"
    BY RequestFixed DEF ResolvePlan
  <1>2. /\ Left = 31 + (Len(req.checks) + 1 - next)
        /\ Len(req.checks) + 1 - next \in Nat /\ Len(req'.checks) + 1 - next' \in Nat
        /\ next \in Nat /\ Len(req.checks) \in Nat
    <2>1. req \in Request /\ next \in 1..(Len(req.checks) + 1)
      BY DEF VerifierInv, PlanInv, PlanTypeOK
    <2>2. Len(req.checks) \in Nat
      BY <2>1, RequestValues
    <2>3. QED
      BY <1>1, <2>1, <2>2 DEF LeftInv
  <1>3. CASE resolution' = "ok"
    <2>1. Left' = 30
      BY <1>3 DEF LeftInv, ResolvePlan
    <2>2. QED
      BY <1>2, <2>1
  <1>4. CASE resolution' = "error"
    <2>1. pc' = "rejected"
      BY <1>4 DEF ResolvePlan
    <2>2. QED
      BY <1>1, <2>1, RefusalIsProgress DEF Running, Final
  <1>5. CASE resolution' \notin {"ok", "error"}
    <2>1. pc' = "plan" /\ next' = next + 1
      BY <1>5 DEF ResolvePlan, PlanNext, ResolveDefault, SkipBlank, ResolveCheck, RejectCheck,
                  ResolveDone
    <2>2. Left' = 31 + (Len(req.checks) + 1 - (next + 1))
      BY <1>1, <2>1 DEF LeftInv
    <2>3. \A m, n \in Nat : 31 + (m + 1 - (n + 1)) < 31 + (m + 1 - n)
      OBVIOUS
    <2>4. QED
      BY <1>2, <2>2, <2>3
  <1>6. QED
    BY <1>3, <1>4, <1>5

\* Each request of the fetch is sent once.
LEMMA FetchIsProgress ==
    ASSUME VerifierInv, LeftInv, LeftInv', [Next]_vars, Fetch
    PROVE  Left' < Left
  <1>1. /\ pc = "fetch" /\ Left = 29 - RequestsSent[fetch] /\ RequestsSent[fetch] \in 0..4
        /\ fetch \in Stage \cup {"idle"}
    BY DEF LeftInv, Fetch, VerifierInv, ControlInv, FetchInv, FetchTypeOK
  <1>2. CASE fetch' = "ok"
    <2>1. pc' = "pckCRL"
      BY <1>2 DEF Fetch
    <2>2. Left' = 24 - Len(held') /\ Len(held') \in 0..3
      BY <2>1 DEF LeftInv, Check, PlaceLeft
    <2>3. QED
      BY <1>1, <2>2
  <1>3. CASE fetch' = "failed"
    <2>1. pc' = "rejected"
      BY <1>3 DEF Fetch, Reject
    <2>2. QED
      BY <1>1, <2>1, RefusalIsProgress DEF Running, Final
  <1>4. CASE fetch' \notin {"ok", "failed"}
    <2>1. pc' = "fetch"
      BY <1>1, <1>4 DEF Fetch, pipelineVars
    <2>2. Left' = 29 - RequestsSent[fetch'] /\ RequestsSent[fetch'] \in 0..4
      BY <2>1 DEF LeftInv, RequestsSent
    <2>3. fetch' = IF fetch = "idle" THEN "tcb" ELSE NextStage[fetch]
      <3>1. BeginFetch(PCKLeaf(req), PCKIssuer(req)) => fetch = "idle" /\ fetch' = "tcb"
        BY <1>4 DEF BeginFetch
      <3>2. FetchStep => fetch \in Stage /\ fetch' = NextStage[fetch]
        BY <1>4 DEF FetchStep, Get, GetFails
      <3>3. "idle" \notin Stage
        BY DEF Stage
      <3>4. QED
        BY <3>1, <3>2, <3>3 DEF Fetch
    <2>4. RequestsSent[fetch'] = RequestsSent[fetch] + 1
      BY <1>1, <1>4, <2>3 DEF RequestsSent, NextStage, Stage
    <2>5. QED
      BY <1>1, <2>2, <2>4
  <1>5. QED
    BY <1>2, <1>3, <1>4

\* Each document is read once by a check, and each check comes up once.
LEMMA CheckIsProgress ==
    ASSUME VerifierInv, LeftInv, LeftInv', [Next]_vars, NEW check \in Check,
           Skip(check) \/ ReadFile(check) \/ TakeFromBundle(check) \/ Decide(check)
    PROVE  Left' < Left
  <1>1. pc = check /\ Left = PlaceLeft[check] - Len(held) /\ PlaceLeft[check] \in 4..24
    BY PlaceOfCheck DEF LeftInv, Skip, ReadFile, TakeFromBundle, Decide
  <1>2. Len(held) \in 0..3 /\ held \in Seq(Blob)
    BY <1>1 DEF LeftInv, VerifierInv, DocumentInv
  <1>3. CASE pc' = "rejected"
    BY <1>1, <1>3, RefusalIsProgress DEF Running, Final, Check
  <1>4. CASE pc' = After[check]
    <2>1. Left' <= PlaceLeft[After[check]] /\ Left' \in Nat
      <3>1. CASE After[check] \in Check
        <4>1. Left' = PlaceLeft[After[check]] - Len(held') /\ Len(held') \in 0..3
          BY <1>4, <3>1 DEF LeftInv
        <4>2. \A c \in Check : PlaceLeft[c] \in 4..24
          BY PlaceOfCheck
        <4>3. PlaceLeft[After[check]] \in 4..24
          BY <3>1, <4>2
        <4>4. \A a \in 4..24, h \in 0..3 : a - h <= a /\ a - h \in Nat
          OBVIOUS
        <4>5. QED
          BY <4>1, <4>3, <4>4
      <3>2. CASE After[check] = "accepted"
        <4>1. Left' = 0 /\ PlaceLeft["accepted"] = 0
          BY <1>4, <3>2 DEF LeftInv, Final, PlaceLeft
        <4>2. QED
          BY <3>2, <4>1
      <3>3. QED
        BY <3>1, <3>2, AfterCheckPlace DEF Checking
    <2>2. PlaceLeft[After[check]] = PlaceLeft[check] - 4
      BY PlaceOfCheck
    <2>3. \A p \in 4..24, l \in Nat, h \in 0..3 : l <= p - 4 => l < p - h
      OBVIOUS
    <2>4. QED
      BY <1>1, <1>2, <2>1, <2>2, <2>3
  <1>5. CASE pc' = check /\ Len(held') > Len(held)
    <2>1. Left' = PlaceLeft[check] - Len(held') /\ Len(held') \in 0..3
      BY <1>5 DEF LeftInv
    <2>2. \A p \in 4..24, g, h \in 0..3 : g > h => p - g < p - h
      OBVIOUS
    <2>3. QED
      BY <1>1, <1>2, <1>5, <2>1, <2>2
  <1>6. CASE Skip(check) \/ Decide(check)
    BY <1>3, <1>4, <1>6 DEF Skip, Decide, Reject
  <1>7. CASE ReadFile(check)
    <2>1. pc' # "rejected" => pc' = check /\ Len(held') = Len(held) + 1
      BY <1>1, <1>2, <1>7 DEF ReadFile, Reject
    <2>2. QED
      BY <1>2, <1>3, <1>5, <2>1
  <1>8. CASE TakeFromBundle(check)
    <2>1. pc' # "rejected" => pc' = check /\ Len(held') = Len(Documents[check])
      BY <1>1, <1>8, CheckDocuments DEF TakeFromBundle, Reject
    <2>2. Len(held) < Len(Documents[check])
      BY <1>8 DEF TakeFromBundle
    <2>3. QED
      BY <1>3, <1>5, <2>1, <2>2
  <1>9. QED
    BY <1>6, <1>7, <1>8

\* Every step of the pipeline leaves less to do, from a number that is never
\* negative, and nothing the world does leaves more: a run takes a number of
\* steps that its request bounds, with no assumption about fairness or about
\* the world (verifier.go:77-186, pcs.go:70-109).
THEOREM ProgressAlways == Spec => EveryStepIsProgress
  <1> DEFINE Progress == /\ Left' \in Nat
                         /\ IF VerifierStep THEN Left' < Left ELSE Left' = Left
  <1>1. ASSUME VerifierInv, LeftInv, LeftInv', [Next]_vars PROVE [Progress]_vars
    <2>1. Left' \in Nat
      BY <1>1 DEF LeftInv
    <2>2. ASSUME VerifierStep PROVE Left' < Left
      <3>1. CASE Start
        <4>1. CASE RequestValid(req)
          <5>1. /\ pc = "start" /\ pc' = "plan" /\ UNCHANGED <<req, next>>
            BY <3>1, <4>1 DEF Start, planVars
          <5>2. /\ Left = 32 + (Len(req.checks) + 1 - next)
                /\ Left' = 31 + (Len(req.checks) + 1 - next)
                /\ Len(req.checks) + 1 - next \in Nat
            BY <1>1, <5>1 DEF LeftInv
          <5>3. QED
            BY <5>2
        <4>2. CASE ~RequestValid(req)
          BY <1>1, <3>1, <4>2, RefusalIsProgress DEF Start, Reject, Running, Final
        <4>3. QED
          BY <4>1, <4>2
      <3>2. CASE VerifyEvidence
        <4>1. pc = "evidence" /\ Left = 30
          BY <1>1, <3>2 DEF LeftInv, VerifyEvidence
        <4>2. CASE pc' = "fetch"
          BY <1>1, <4>1, <4>2 DEF LeftInv
        <4>3. CASE pc' = "pckCRL"
          <5>1. Left' = 24 - Len(held') /\ Len(held') \in 0..3
            BY <1>1, <4>3 DEF LeftInv, Check, PlaceLeft
          <5>2. QED
            BY <4>1, <5>1
        <4>4. CASE pc' = "rejected"
          BY <1>1, <4>1, <4>4, RefusalIsProgress DEF Running, Final
        <4>5. QED
          BY <3>2, <4>2, <4>3, <4>4 DEF VerifyEvidence, Reject
      <3>3. QED
        BY <1>1, <2>2, <3>1, <3>2, PlanIsProgress, FetchIsProgress, CheckIsProgress
        DEF VerifierStep
    <2>3. ASSUME ~VerifierStep PROVE Left' = Left
      <3>1. UNCHANGED <<pc, held, req, next, fetch>>
        BY <1>1, <2>3
        DEF Next, WorldStep, PCSPublish, PublishStep, Publish, ReplaceFile, vars, planVars,
            fetchVars, clientVars, pipelineVars
      <3>2. QED
        BY <3>1 DEF Left
    <2>4. QED
      BY <2>1, <2>2, <2>3
  <1>2. QED
    BY <1>1, VerifierInvAlways, LeftFromInv, PTL DEF Spec, EveryStepIsProgress
=============================================================================
