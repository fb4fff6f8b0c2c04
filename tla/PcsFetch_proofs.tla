---------------------------- MODULE PcsFetch_proofs ----------------------------
(***************************************************************************)
(* Proofs about FetchCollateral (module PcsFetch), for every service, any  *)
(* number of publications and every certificate.  What keeps a bundle      *)
(* whole is what has been gathered when each request is sent: FetchInv.    *)
(***************************************************************************)
EXTENDS PcsFetch, TLAPS

\* Any step of the client or of the service.
FetchNext ==
    \/ \E leaf, intermediate : BeginFetch(leaf, intermediate)
    \/ FetchStep
    \/ PublishStep

\* The document and its chain came in one reply to the request for the FMSPC.
TCBInfoGathered(parts) ==
    \E r \in Replies[<<"tcb", asked.fmspc>>] :
        /\ r.ok /\ r.chain # NoContent
        /\ parts["TCBInfoJSON"] = r.body /\ parts["TCBSigningChainPEM"] = r.chain

QEIdentityGathered(parts) ==
    \E r \in Replies[<<"qe", Blank>>] :
        /\ r.ok /\ r.chain # NoContent
        /\ parts["QEIdentityJSON"] = r.body /\ parts["QEIdentityChainPEM"] = r.chain

PCKCRLGathered(parts) ==
    \E r \in Replies[<<"pckcrl", asked.ca>>] : parts["PCKCRL"] = r.body

\* The inductive invariant of the fetch.
FetchInv ==
    /\ FetchTypeOK
    /\ bundle # NoBundle <=> fetch = "ok"
    /\ fetch = "ok" => bundle = gathered
    /\ fetch \in {"qe", "pckcrl", "rootcrl", "ok"} => TCBInfoGathered(gathered)
    /\ fetch \in {"pckcrl", "rootcrl", "ok"} => QEIdentityGathered(gathered)
    /\ fetch \in {"rootcrl", "ok"} => PCKCRLGathered(gathered)
----------------------------------------------------------------------------
\* What an endpoint answers is a reply, and its parts are contents.
LEMMA AnswerContents ==
    ASSUME FetchTypeOK, NEW e \in Endpoint
    PROVE  /\ served[e] \in Replies[e] /\ served[e] \in Reply
           /\ served[e].body \in Content /\ served[e].chain \in Content
  <1>1. served[e] \in Replies[e] /\ served[e] \in Reply
    BY Zenon DEF FetchTypeOK
  <1>2. QED
    BY <1>1 DEF Content

\* A reply fills the parts its request is for and leaves the others.
LEMMA FilledParts ==
    ASSUME NEW stage \in Stage, NEW reply, reply.body \in Content, reply.chain \in Content,
           gathered \in [Slot -> Content]
    PROVE  /\ Filled(stage, reply) \in [Slot -> Content]
           /\ Filled(stage, reply)[BodySlot[stage]] = reply.body
           /\ stage = "tcb" => /\ Filled(stage, reply)["TCBInfoJSON"] = reply.body
                               /\ Filled(stage, reply)["TCBSigningChainPEM"] = reply.chain
           /\ stage = "qe"  => /\ Filled(stage, reply)["QEIdentityJSON"] = reply.body
                               /\ Filled(stage, reply)["QEIdentityChainPEM"] = reply.chain
           /\ stage = "pckcrl" => Filled(stage, reply)["PCKCRL"] = reply.body
           /\ stage # "tcb" =>
                 /\ Filled(stage, reply)["TCBInfoJSON"] = gathered["TCBInfoJSON"]
                 /\ Filled(stage, reply)["TCBSigningChainPEM"] = gathered["TCBSigningChainPEM"]
           /\ stage \notin {"tcb", "qe"} =>
                 /\ Filled(stage, reply)["QEIdentityJSON"] = gathered["QEIdentityJSON"]
                 /\ Filled(stage, reply)["QEIdentityChainPEM"] = gathered["QEIdentityChainPEM"]
           /\ stage \notin {"tcb", "qe", "pckcrl"} =>
                 Filled(stage, reply)["PCKCRL"] = gathered["PCKCRL"]
  <1>1. CASE stage = "tcb"
    BY <1>1 DEF Filled, BodySlot, ChainSlot, NeedsChain, Slot
  <1>2. CASE stage = "qe"
    BY <1>2 DEF Filled, BodySlot, ChainSlot, NeedsChain, Slot
  <1>3. CASE stage = "pckcrl"
    BY <1>3 DEF Filled, BodySlot, ChainSlot, NeedsChain, Slot
  <1>4. CASE stage = "rootcrl"
    BY <1>4 DEF Filled, BodySlot, ChainSlot, NeedsChain, Slot
  <1>5. QED
    BY <1>1, <1>2, <1>3, <1>4 DEF Stage

LEMMA FetchInvInit == FetchInit => FetchInv
  <1> SUFFICES ASSUME FetchInit PROVE FetchInv
    OBVIOUS
  <1>1. FetchTypeOK
    <2>1. gathered \in [Slot -> Content]
      BY DEF FetchInit, EmptyBundle, Content
    <2>2. served \in [Endpoint -> Reply] /\ \A e \in Endpoint : served[e] \in Replies[e]
      BY PcsAssumption DEF FetchInit
    <2>3. QED
      BY <2>1, <2>2, PcsAssumption DEF FetchInit, FetchTypeOK
  <1>2. QED
    BY <1>1 DEF FetchInit, FetchInv
----------------------------------------------------------------------------
LEMMA GetInv ==
    ASSUME FetchInv, NEW stage \in Stage, Get(stage)
    PROVE  FetchInv'
  <1> DEFINE reply == served[AskedEndpoint(stage)]
  <1>1. /\ fetch = stage /\ AskedEndpoint(stage) \in Endpoint
        /\ reply.ok /\ (NeedsChain(stage) => reply.chain # NoContent)
        /\ gathered' = Filled(stage, reply) /\ fetch' = NextStage[stage]
        /\ bundle' = (IF fetch' = "ok" THEN gathered' ELSE bundle)
        /\ UNCHANGED <<served, publications, asked>>
    BY DEF Get
  <1>2. FetchTypeOK
    BY DEF FetchInv
  <1>3. /\ reply \in Replies[AskedEndpoint(stage)]
        /\ reply.body \in Content /\ reply.chain \in Content
    BY <1>1, <1>2, AnswerContents
  <1>4. gathered \in [Slot -> Content] /\ bundle = NoBundle
    BY <1>1, <1>2 DEF FetchTypeOK, FetchInv, Stage
  <1>5. /\ fetch' = "qe" <=> stage = "tcb"
        /\ fetch' = "pckcrl" <=> stage = "qe"
        /\ fetch' = "rootcrl" <=> stage = "pckcrl"
        /\ fetch' = "ok" <=> stage = "rootcrl"
        /\ fetch' \in {"qe", "pckcrl", "rootcrl", "ok"}
    BY <1>1 DEF NextStage, Stage
  <1>6. gathered' \in [Slot -> Content]
    BY <1>1, <1>3, <1>4, FilledParts
  <1>7. FetchTypeOK'
    BY <1>1, <1>2, <1>5, <1>6 DEF FetchTypeOK, Stage
  <1>8. (bundle # NoBundle <=> fetch = "ok")' /\ (fetch = "ok" => bundle = gathered)'
    BY <1>1, <1>4, <1>5, <1>6, PcsAssumption
  <1>9. TCBInfoGathered(gathered)'
    <2>1. CASE stage = "tcb"
      <3>1. reply \in Replies[<<"tcb", asked.fmspc>>] /\ NeedsChain(stage)
        BY <1>3, <2>1 DEF AskedEndpoint, NeedsChain, ChainSlot
      <3>2. /\ gathered'["TCBInfoJSON"] = reply.body
            /\ gathered'["TCBSigningChainPEM"] = reply.chain
        BY <1>1, <1>3, <1>4, <2>1, FilledParts
      <3>3. QED
        BY <1>1, <3>1, <3>2 DEF TCBInfoGathered
    <2>2. CASE stage # "tcb"
      <3>1. TCBInfoGathered(gathered)
        BY <1>1, <2>2 DEF FetchInv, Stage
      <3>2. /\ gathered'["TCBInfoJSON"] = gathered["TCBInfoJSON"]
            /\ gathered'["TCBSigningChainPEM"] = gathered["TCBSigningChainPEM"]
        BY <1>1, <1>3, <1>4, <2>2, FilledParts
      <3>3. QED
        BY <1>1, <3>1, <3>2 DEF TCBInfoGathered
    <2>3. QED
      BY <2>1, <2>2
  <1>10. stage # "tcb" => QEIdentityGathered(gathered)'
    <2>1. CASE stage = "qe"
      <3>1. reply \in Replies[<<"qe", Blank>>] /\ NeedsChain(stage)
        BY <1>3, <2>1 DEF AskedEndpoint, NeedsChain, ChainSlot
      <3>2. /\ gathered'["QEIdentityJSON"] = reply.body
            /\ gathered'["QEIdentityChainPEM"] = reply.chain
        BY <1>1, <1>3, <1>4, <2>1, FilledParts
      <3>3. QED
        BY <1>1, <3>1, <3>2 DEF QEIdentityGathered
    <2>2. CASE stage \notin {"tcb", "qe"}
      <3>1. QEIdentityGathered(gathered)
        BY <1>1, <2>2 DEF FetchInv, Stage
      <3>2. /\ gathered'["QEIdentityJSON"] = gathered["QEIdentityJSON"]
            /\ gathered'["QEIdentityChainPEM"] = gathered["QEIdentityChainPEM"]
        BY <1>1, <1>3, <1>4, <2>2, FilledParts
      <3>3. QED
        BY <3>1, <3>2 DEF QEIdentityGathered
    <2>3. QED
      BY <2>1, <2>2
  <1>11. stage \notin {"tcb", "qe"} => PCKCRLGathered(gathered)'
    <2>1. CASE stage = "pckcrl"
      <3>1. reply \in Replies[<<"pckcrl", asked.ca>>]
        BY <1>3, <2>1 DEF AskedEndpoint
      <3>2. gathered'["PCKCRL"] = reply.body
        BY <1>1, <1>3, <1>4, <2>1, FilledParts
      <3>3. QED
        BY <1>1, <3>1, <3>2 DEF PCKCRLGathered
    <2>2. CASE stage \notin {"tcb", "qe", "pckcrl"}
      <3>1. PCKCRLGathered(gathered)
        BY <1>1, <2>2 DEF FetchInv, Stage
      <3>2. gathered'["PCKCRL"] = gathered["PCKCRL"]
        BY <1>1, <1>3, <1>4, <2>2, FilledParts
      <3>3. QED
        BY <1>1, <3>1, <3>2 DEF PCKCRLGathered
    <2>3. QED
      BY <2>1, <2>2
  <1>12. QED
    BY <1>5, <1>7, <1>8, <1>9, <1>10, <1>11 DEF FetchInv

LEMMA FetchInvStep == FetchInv /\ [FetchNext]_fetchVars => FetchInv'
  <1> SUFFICES ASSUME FetchInv, [FetchNext]_fetchVars PROVE FetchInv'
    OBVIOUS
  <1>1. ASSUME NEW leaf, NEW intermediate, BeginFetch(leaf, intermediate)
        PROVE  FetchInv'
    BY <1>1 DEF BeginFetch, FetchInv, FetchTypeOK, Stage
  <1>2. ASSUME NEW stage \in Stage, Get(stage)
        PROVE  FetchInv'
    BY <1>2, GetInv
  <1>3. ASSUME NEW stage \in Stage, GetFails(stage)
        PROVE  FetchInv'
    <2>1. gathered' \in [Slot -> Content]
      BY <1>3 DEF GetFails, EmptyBundle, Content
    <2>2. FetchTypeOK'
      BY <1>3, <2>1 DEF GetFails, FetchInv, FetchTypeOK
    <2>3. QED
      BY <1>3, <2>2 DEF GetFails, FetchInv, Stage
  <1>4. ASSUME NEW e \in Endpoint, NEW r \in Replies[e], Publish(e, r)
        PROVE  FetchInv'
    <2>1. served' \in [Endpoint -> Reply] /\ \A x \in Endpoint : served'[x] \in Replies[x]
      BY <1>4 DEF Publish, FetchInv, FetchTypeOK, Reply
    <2>2. publications' \in 0..MaxPublications
      BY <1>4, PcsAssumption DEF Publish, FetchInv, FetchTypeOK
    <2>3. FetchTypeOK'
      BY <1>4, <2>1, <2>2 DEF Publish, clientVars, FetchInv, FetchTypeOK
    <2>4. QED
      BY <1>4, <2>3 DEF Publish, clientVars, FetchInv, TCBInfoGathered,
                        QEIdentityGathered, PCKCRLGathered
  <1>5. CASE UNCHANGED fetchVars
    BY <1>5 DEF fetchVars, clientVars, FetchInv, FetchTypeOK, TCBInfoGathered,
                QEIdentityGathered, PCKCRLGathered
  <1>6. QED
    BY <1>1, <1>2, <1>3, <1>4, <1>5 DEF FetchNext, FetchStep, PublishStep

\* What the invariant says of a bundle that is returned.
LEMMA FetchInvMeans == FetchInv => BundleOnlyWhenComplete /\ BundleNotTorn /\ BundleForAskedCA
  BY DEF FetchInv, BundleOnlyWhenComplete, BundleNotTorn, BundleForAskedCA,
         TCBInfoGathered, QEIdentityGathered, PCKCRLGathered
=============================================================================
