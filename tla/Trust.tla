------------------------------- MODULE Trust -------------------------------
(***************************************************************************)
(* The trust decisions of internal/tdxattest/certs.go, crl.go and          *)
(* quote_verify.go: which certificate chains end in the caller's root,     *)
(* which revocation lists are believed and what they revoke, and which     *)
(* signatures of a quote hold.  Every decision is a predicate: the code    *)
(* returns an error exactly when the predicate is false.                   *)
(*                                                                         *)
(* A certificate is a record, and two certificates are the same when the   *)
(* records are equal (the code compares their raw bytes):                  *)
(*   key, signer  the key it certifies and the key that signed it          *)
(*   ca           whether it may sign certificates and revocation lists    *)
(*   serial, notBefore, notAfter                                           *)
(*   cn           the CA its subject names ("platform", "processor", ...)  *)
(*   fmspc, pceid, tcb   what the Intel SGX extension holds, or Blank      *)
(* A file, a reply body or a header is a record with a field "kind":       *)
(*   crl     signer, thisUpdate, nextUpdate, revoked (a set of serials)    *)
(*   chain   certs (a non-empty sequence of certificates)                  *)
(*   garbage something no parser accepts                                   *)
(* Times are naturals and 0 is Go's zero time.                             *)
(***************************************************************************)
EXTENDS Naturals, FiniteSets, Sequences, SequencesExt

CONSTANTS
    WallClock,     \* the time of day while the program runs
    Blank          \* what is not there: an absent extension or optional field

ASSUME WallClockAssumption == WallClock \in Nat \ {0}

ZeroTime == 0
----------------------------------------------------------------------------
(* Certificate chains *)

IsSelfSigned(cert) == cert.ca /\ cert.signer = cert.key

\* Certificates that may stand between the leaf and the root: a root that
\* travels with the chain is not believed for being there.
Intermediates(chain, root) ==
    {cert \in ToSet(chain) : cert # root /\ ~IsSelfSigned(cert)}

\* crypto/x509 reads the wall clock when VerifyOptions.CurrentTime is zero.
CurrentTime(time) == IF time = ZeroTime THEN WallClock ELSE time

ValidAt(cert, time) == cert.notBefore <= time /\ time <= cert.notAfter

Issued(parent, cert) == parent.ca /\ cert.signer = parent.key

\* crypto/x509: leaf and root are valid, and a path of valid certificates
\* leads from one, through the pool, to the other.
PathToRoot(leaf, pool, root, time) ==
    LET usable == {cert \in pool \cup {root} : ValidAt(cert, time)}
    IN  /\ ValidAt(leaf, time) /\ ValidAt(root, time)
        /\ \/ leaf = root
           \/ \E n \in 1..Cardinality(usable) : \E path \in [1..n -> usable] :
                 /\ Issued(path[1], leaf) /\ path[n] = root
                 /\ \A i \in 2..n : Issued(path[i], path[i - 1])

VerifyCertChain(leaf, chain, root, time) ==
    PathToRoot(leaf, Intermediates(chain, root), root, CurrentTime(time))
----------------------------------------------------------------------------
(* Revocation lists *)

CRLFresh(crl, time, ignoreFreshness) ==
    \/ ignoreFreshness
    \/ /\ crl.thisUpdate <= time
       /\ crl.nextUpdate = ZeroTime \/ time <= crl.nextUpdate

CRLSignedBy(crl, cert) == cert.ca /\ crl.signer = cert.key

IsSerialRevoked(crl, serial) == serial \in crl.revoked

\* A bug that believes a list whoever signed it.
VerifyPCKCRLAnySigner(blob, issuer, leaf, time, ignoreFreshness) ==
    /\ blob.kind = "crl"
    /\ CRLFresh(blob, time, ignoreFreshness)
    /\ ~IsSerialRevoked(blob, leaf.serial)

VerifyPCKCRL(blob, issuer, leaf, time, ignoreFreshness) ==
    /\ blob.kind = "crl"
    /\ CRLSignedBy(blob, issuer)
    /\ CRLFresh(blob, time, ignoreFreshness)
    /\ ~IsSerialRevoked(blob, leaf.serial)

\* A bug that leaves the list's own lifetime unchecked.
VerifyRootCACRLAnyAge(blob, root, certs, time, ignoreFreshness) ==
    /\ blob.kind = "crl"
    /\ CRLSignedBy(blob, root)
    /\ \A cert \in certs : ~IsSerialRevoked(blob, cert.serial)

VerifyRootCACRL(blob, root, certs, time, ignoreFreshness) ==
    /\ blob.kind = "crl"
    /\ CRLSignedBy(blob, root)
    /\ CRLFresh(blob, time, ignoreFreshness)
    /\ \A cert \in certs : ~IsSerialRevoked(blob, cert.serial)
----------------------------------------------------------------------------
(* The signatures inside a quote.  A parsed quote says which key signed    *)
(* its QE report, whether that report's data is the hash of the            *)
(* attestation key and the authentication data, and whether the            *)
(* attestation key signed header and body.                                 *)

QEReportSigned(quote, leaf) == quote.qeSigner = leaf.key

AKBound(quote) == quote.akBound

QuoteSigned(quote) == quote.signedByAK

VerifyQuoteLocalSignatures(quote, leaf) ==
    QEReportSigned(quote, leaf) /\ AKBound(quote) /\ QuoteSigned(quote)
=============================================================================
