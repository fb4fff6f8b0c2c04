------------------------------ MODULE PcsFetch ------------------------------
(***************************************************************************)
(* FetchCollateral of internal/tdxattest/pcs.go: four GET requests to the  *)
(* Intel PCS, one after the other, put together into one collateral        *)
(* bundle, or an error.  There is no retry; a request ends with a reply or *)
(* with an error, at the latest when the client's 20 s timeout expires.    *)
(* Meanwhile the service goes on publishing: what two requests see need    *)
(* not belong together.                                                    *)
(*                                                                         *)
(* A reply has a field ok (a 2xx status), a body, and the decoded issuer   *)
(* chain header, NoContent when the header is missing.  Bodies and headers *)
(* are the blobs of module Trust: they are not looked at here.             *)
(***************************************************************************)
EXTENDS Trust

CONSTANTS
    Fmspc,           \* the FMSPC values the service knows of
    Replies,         \* the replies each endpoint may give
    InitiallyServed, \* what the service may answer when the run starts
    NoContent,       \* an empty body, or a header that is not there
    NoBundle,        \* the nil *CollateralBundle
    MaxPublications  \* how often the service publishes during one run

CAName == {"platform", "processor"}

\* What can be asked for: the path and its query parameter, if it has one.
Endpoint == {<<"tcb", f>> : f \in Fmspc} \cup {<<"qe", Blank>>}
            \cup {<<"pckcrl", ca>> : ca \in CAName} \cup {<<"rootcrl", Blank>>}

\* The fields of CollateralBundle.
Slot == {"TCBInfoJSON", "TCBSigningChainPEM", "QEIdentityJSON",
         "QEIdentityChainPEM", "PCKCRL", "RootCRL"}

Reply == UNION {Replies[e] : e \in Endpoint}

Content == {r.body : r \in Reply} \cup {r.chain : r \in Reply} \cup {NoContent}

ASSUME PcsAssumption ==
    /\ \A r \in Reply : r.ok \in BOOLEAN
    /\ InitiallyServed \subseteq [Endpoint -> Reply]
    /\ \A s \in InitiallyServed : \A e \in Endpoint : s[e] \in Replies[e]
    /\ NoBundle \notin [Slot -> Content]
    /\ MaxPublications \in Nat

VARIABLES
    served,        \* what the service answers now, for each endpoint
    publications,  \* how often it has changed an answer
    fetch,         \* the request FetchCollateral is at, "idle", "ok" or "failed"
    asked,         \* the FMSPC and CA name taken from the PCK chain
    gathered,      \* the parts of the bundle that have arrived
    bundle         \* what FetchCollateral returned

clientVars == <<fetch, asked, gathered, bundle>>
fetchVars == <<served, publications, clientVars>>

Stage == {"tcb", "qe", "pckcrl", "rootcrl"}

NextStage == [tcb |-> "qe", qe |-> "pckcrl", pckcrl |-> "rootcrl", rootcrl |-> "ok"]

\* The parts of the bundle a reply fills: its body's and, where the issuer
\* chain header is read, that of the chain.
BodySlot  == [tcb |-> "TCBInfoJSON", qe |-> "QEIdentityJSON",
              pckcrl |-> "PCKCRL", rootcrl |-> "RootCRL"]
ChainSlot == [tcb |-> "TCBSigningChainPEM", qe |-> "QEIdentityChainPEM"]

NeedsChain(stage) == stage \in DOMAIN ChainSlot

\* A bug that asks for the CA the verifier is set up with by default.
AskedEndpointPlatformOnly(stage) ==
    CASE stage = "tcb"    -> <<"tcb", asked.fmspc>>
      [] stage = "pckcrl" -> <<"pckcrl", "platform">>
      [] OTHER            -> <<stage, Blank>>

AskedEndpoint(stage) ==
    CASE stage = "tcb"    -> <<"tcb", asked.fmspc>>
      [] stage = "pckcrl" -> <<"pckcrl", asked.ca>>
      [] OTHER            -> <<stage, Blank>>
----------------------------------------------------------------------------
EmptyBundle == [slot \in Slot |-> NoContent]

FetchInit ==
    /\ served \in InitiallyServed /\ publications = 0
    /\ fetch = "idle" /\ asked = [fmspc |-> Blank, ca |-> Blank]
    /\ gathered = EmptyBundle /\ bundle = NoBundle

\* The FMSPC of the leaf and the CA named in the intermediate's subject must
\* be there before anything is asked.
BeginFetch(leaf, intermediate) ==
    /\ fetch = "idle"
    /\ IF leaf.fmspc # Blank /\ intermediate.cn \in CAName
       THEN fetch' = "tcb" /\ asked' = [fmspc |-> leaf.fmspc, ca |-> intermediate.cn]
       ELSE fetch' = "failed" /\ UNCHANGED asked
    /\ UNCHANGED <<served, publications, gathered, bundle>>

\* A bug that reads both chains from the first reply.
FilledChainOnce(stage, reply) ==
    [slot \in Slot |->
        CASE slot = BodySlot[stage] -> reply.body
          [] slot # BodySlot[stage] /\ stage = "tcb"
               /\ slot \in {ChainSlot["tcb"], ChainSlot["qe"]} -> reply.chain
          [] OTHER -> gathered[slot]]

\* The bundle with one more reply: its body and, from the same reply, the
\* chain of the certificate that signed it.
Filled(stage, reply) ==
    [slot \in Slot |->
        CASE slot = BodySlot[stage] -> reply.body
          [] slot # BodySlot[stage] /\ NeedsChain(stage)
               /\ slot = ChainSlot[stage] -> reply.chain
          [] OTHER -> gathered[slot]]

\* A GET with a 2xx reply and, where it is needed, an issuer chain header.
Get(stage) ==
    /\ fetch = stage
    /\ AskedEndpoint(stage) \in Endpoint
    /\ LET reply == served[AskedEndpoint(stage)] IN
       /\ reply.ok
       /\ NeedsChain(stage) => reply.chain # NoContent
       /\ gathered' = Filled(stage, reply)
    /\ fetch' = NextStage[stage]
    /\ bundle' = IF fetch' = "ok" THEN gathered' ELSE bundle
    /\ UNCHANGED <<served, publications, asked>>

\* A bug that takes an unanswered request for an empty document.
GetFailsSoftly(stage) ==
    /\ fetch = stage
    /\ fetch' = NextStage[stage]
    /\ bundle' = IF fetch' = "ok" THEN gathered ELSE bundle
    /\ UNCHANGED <<served, publications, asked, gathered>>

\* A bug that asks again until the service answers.
GetFailsRetries(stage) ==
    /\ fetch = stage
    /\ UNCHANGED fetchVars

\* A bug that starts over when a request fails.
GetFailsStartsOver(stage) ==
    /\ fetch = stage
    /\ fetch' = "tcb" /\ gathered' = EmptyBundle
    /\ UNCHANGED <<served, publications, asked, bundle>>

\* A status outside 2xx, a missing header, a connection error or a timeout:
\* whatever was gathered is dropped.
GetFails(stage) ==
    /\ fetch = stage
    /\ fetch' = "failed" /\ gathered' = EmptyBundle
    /\ UNCHANGED <<served, publications, asked, bundle>>

FetchStep == \E stage \in Stage : Get(stage) \/ GetFails(stage)

\* The service publishes a document, or withdraws one.
Publish(endpoint, reply) ==
    /\ publications < MaxPublications /\ reply # served[endpoint]
    /\ served' = [served EXCEPT ![endpoint] = reply]
    /\ publications' = publications + 1
    /\ UNCHANGED clientVars

PublishStep == \E endpoint \in Endpoint : \E reply \in Replies[endpoint] : Publish(endpoint, reply)
----------------------------------------------------------------------------
(* Properties *)

\* Type invariant of the client and the service.
FetchTypeOK ==
    /\ served \in [Endpoint -> Reply]
    /\ \A e \in Endpoint : served[e] \in Replies[e]
    /\ publications \in 0..MaxPublications
    /\ fetch \in Stage \cup {"idle", "ok", "failed"}
    /\ gathered \in [Slot -> Content]
    /\ bundle \in [Slot -> Content] \cup {NoBundle}

\* All or nothing: a bundle is returned exactly when the fetch succeeds
\* (pcs.go:70-109), and then holds both issuer chains.
BundleOnlyWhenComplete ==
    /\ bundle # NoBundle <=> fetch = "ok"
    /\ bundle # NoBundle => /\ bundle["TCBSigningChainPEM"] # NoContent
                            /\ bundle["QEIdentityChainPEM"] # NoContent

\* A signed document and its issuer chain come from one reply, so that a
\* publication between two requests never pairs a document with the chain
\* of another (pcs.go:70-86).
BundleNotTorn ==
    bundle # NoBundle =>
        /\ \E r \in Replies[<<"tcb", asked.fmspc>>] :
              r.ok /\ bundle["TCBInfoJSON"] = r.body /\ bundle["TCBSigningChainPEM"] = r.chain
        /\ \E r \in Replies[<<"qe", Blank>>] :
              r.ok /\ bundle["QEIdentityJSON"] = r.body /\ bundle["QEIdentityChainPEM"] = r.chain

\* The revocation list in the bundle is one of the CA that the intermediate
\* certificate of the quote names (pcs.go:65-68, 88).
BundleForAskedCA ==
    bundle # NoBundle => \E r \in Replies[<<"pckcrl", asked.ca>>] : bundle["PCKCRL"] = r.body
=============================================================================
