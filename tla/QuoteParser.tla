---------------------------- MODULE QuoteParser ----------------------------
(***************************************************************************)
(* parseQuote of internal/tdxattest/quote.go: a quote is cut into pieces   *)
(* by lengths that stand in the quote itself.  The parser decides whether  *)
(* the body is a TDX or an SGX report by which of two lengths is plausible,*)
(* whether an outer certification data header follows the attestation key  *)
(* by its first two bytes, and tries two orders of QE report and           *)
(* signature.                                                              *)
(*                                                                         *)
(* Only the length of a quote and the integers the parser reads from it    *)
(* matter.  A word is an integer at an offset, <<offset, width>>.  A word  *)
(* that the builder of the quote wrote has the value it wrote; any other   *)
(* is chosen when it is read, and stays the same.  No two words that one   *)
(* run reads overlap.  A Go int is taken to be wider than 32 bits, so that *)
(* adding a uint32 never wraps.                                            *)
(***************************************************************************)
EXTENDS Naturals

CONSTANTS
    HeaderSize, TdxBody, SgxBody,    \* quoteHeaderSize, tdxReportBodySize, sgxReportBodySize
    SigSize, KeySize, ReportSize,    \* ecdsaSigSize, ecdsaPubKeySize, qeReportSize
    Built,      \* the quotes: kind "tdx", "sgx" or "raw", with the lengths
                \* of authentication data and certificate chain, or of the
                \* whole raw quote
    Words16,    \* the values a two-byte word may have
    Words32     \* the values a four-byte word may have

certTypePCKCertChain == 5
certTypeQEReportCertData == 6

ASSUME ParserAssumption ==
    /\ {HeaderSize, TdxBody, SgxBody, SigSize, KeySize, ReportSize} \subseteq Nat
    /\ SgxBody < TdxBody
    /\ \A b \in Built : /\ b.kind \in {"tdx", "sgx", "raw"}
                        /\ IF b.kind = "raw" THEN b.len \in Nat
                           ELSE b.auth \in Nat /\ b.chain \in Nat
    /\ Words16 \subseteq Nat /\ Words32 \subseteq Nat

VARIABLES
    built,    \* the quote
    seen,     \* the words read so far
    pc,       \* where the parser is, "parsed" or "refused"
    signed,   \* the size of header and body, 0 while it is not known
    lo, hi,   \* the buffer of the current function: offsets lo to hi - 1
    order,    \* QEReportOrder: the layout that is being tried
    auth      \* the length of the authentication data

vars == <<built, seen, pc, signed, lo, hi, order, auth>>
----------------------------------------------------------------------------
(* Building quotes *)

\* QE report, its signature, authentication data, inner header, chain.
TailSize(b) == ReportSize + SigSize + 2 + b.auth + 6 + b.chain

\* encodeSyntheticSignatureData; an SGX quote has no outer header.
SignatureDataSize(b) ==
    SigSize + KeySize + TailSize(b) + IF b.kind = "tdx" THEN 6 ELSE 0

\* Lengths fit the words they are written to (and quotes stay below 2 GiB).
ASSUME LengthsFit ==
    \A b \in Built : b.kind # "raw" => b.auth < 65536 /\ SignatureDataSize(b) < 2147483647

SignedSize(b) == HeaderSize + IF b.kind = "tdx" THEN TdxBody ELSE SgxBody

\* The length of the quote.
QuoteLen(b) == IF b.kind = "raw" THEN b.len ELSE SignedSize(b) + 4 + SignatureDataSize(b)

\* Where the certification data follows the attestation key, and where the
\* QE report begins.
AfterKey(b) == SignedSize(b) + 4 + SigSize + KeySize
Tail(b) == AfterKey(b) + IF b.kind = "tdx" THEN 6 ELSE 0

\* The header of the inner certification data.
InnerHeader(b) == Tail(b) + ReportSize + SigSize + 2 + b.auth

\* The words whoever built the quote wrote, each with its value.
Contents(b) ==
    IF b.kind = "raw" THEN {}
    ELSE {<<<<SignedSize(b), 4>>, SignatureDataSize(b)>>,
          <<<<Tail(b) + ReportSize + SigSize, 2>>, b.auth>>,
          <<<<InnerHeader(b), 2>>, certTypePCKCertChain>>,
          <<<<InnerHeader(b) + 2, 4>>, b.chain>>}
         \cup (IF b.kind = "tdx"
               THEN {<<<<AfterKey(b), 2>>, certTypeQEReportCertData>>,
                     <<<<AfterKey(b) + 2, 4>>, TailSize(b)>>}
               ELSE {})

\* The values this word may turn out to have.
Values(word) ==
    LET written == {c[2] : c \in {d \in Contents(built) : d[1] = word}}
    IN  IF word \in DOMAIN seen THEN {seen[word]}
        ELSE IF written # {} THEN written
        ELSE IF word[2] = 2 THEN Words16 ELSE Words32

\* The parser reads the value v of a word.
Learned(known, word, v) ==
    [w \in DOMAIN known \cup {word} |-> IF w = word THEN v ELSE known[w]]
----------------------------------------------------------------------------
(* Parsing *)

Init ==
    /\ built \in Built /\ seen = [w \in {} |-> 0]
    /\ pc = "start" /\ signed = 0
    /\ lo = 0 /\ hi = QuoteLen(built) /\ order = "none" /\ auth = 0

Begin ==
    /\ pc = "start"
    /\ pc' = IF QuoteLen(built) < HeaderSize + SgxBody + 4 THEN "refused" ELSE "inferTDX"
    /\ UNCHANGED <<built, seen, signed, lo, hi, order, auth>>

\* okSignatureDataLength.
OkSignatureDataLength(at, n) == n # 0 /\ at + 4 + n <= QuoteLen(built)

\* inferReportBodySize asks for one body size, then for the other.
InferReportBodySize(here, body, otherwise) ==
    /\ pc = here
    /\ LET at == HeaderSize + body IN
       IF QuoteLen(built) < at + 4
       THEN pc' = otherwise /\ UNCHANGED <<seen, signed>>
       ELSE \E n \in Values(<<at, 4>>) :
               /\ seen' = Learned(seen, <<at, 4>>, n)
               /\ IF OkSignatureDataLength(at, n)
                  THEN pc' = "signature" /\ signed' = at
                  ELSE pc' = otherwise /\ UNCHANGED signed
    /\ UNCHANGED <<built, lo, hi, order, auth>>

\* Quote signature and attestation key, then what the two bytes after them
\* say: an outer header, or the QE report of an SGX quote.
ParseSignatureData ==
    /\ pc = "signature"
    /\ \E n \in Values(<<signed, 4>>) :
          LET start == signed + 4
              after == start + SigSize + KeySize
          IN  IF start + n > QuoteLen(built) \/ n < SigSize + KeySize + 6
              THEN pc' = "refused" /\ UNCHANGED <<seen, lo, hi, order>>
              ELSE \E type \in Values(<<after, 2>>) :
                      /\ seen' = Learned(seen, <<after, 2>>, type)
                      /\ lo' = after /\ hi' = start + n
                      /\ IF type = certTypeQEReportCertData
                         THEN pc' = "outer" /\ UNCHANGED order
                         ELSE pc' = "auth" /\ order' = "sgx_style"
    /\ UNCHANGED <<built, signed, auth>>

\* A bug that takes the outer length on trust.
ParseOuterTrusts ==
    /\ pc = "outer"
    /\ \E n \in Values(<<lo + 2, 4>>) :
          /\ seen' = Learned(seen, <<lo + 2, 4>>, n)
          /\ pc' = "auth" /\ order' = "report_then_signature"
          /\ lo' = lo + 6 /\ hi' = lo + 6 + n
    /\ UNCHANGED <<built, signed, auth>>

\* A bug that wants something to follow the outer certification data.
ParseOuterOffByOne ==
    /\ pc = "outer"
    /\ \E n \in Values(<<lo + 2, 4>>) :
          /\ seen' = Learned(seen, <<lo + 2, 4>>, n)
          /\ IF lo + 6 + n >= hi
             THEN pc' = "refused" /\ UNCHANGED <<lo, hi, order>>
             ELSE /\ pc' = "auth" /\ order' = "report_then_signature"
                  /\ lo' = lo + 6 /\ hi' = lo + 6 + n
    /\ UNCHANGED <<built, signed, auth>>

\* parseTDXOuterCertificationData.
ParseOuter ==
    /\ pc = "outer"
    /\ \E n \in Values(<<lo + 2, 4>>) :
          /\ seen' = Learned(seen, <<lo + 2, 4>>, n)
          /\ IF lo + 6 + n > hi
             THEN pc' = "refused" /\ UNCHANGED <<lo, hi, order>>
             ELSE /\ pc' = "auth" /\ order' = "report_then_signature"
                  /\ lo' = lo + 6 /\ hi' = lo + 6 + n
    /\ UNCHANGED <<built, signed, auth>>

\* This order does not fit: parseQEReportCertificationDataAuto tries the
\* other one.
Fail ==
    IF order = "report_then_signature"
    THEN pc' = "auth" /\ order' = "signature_then_report"
    ELSE pc' = "refused" /\ UNCHANGED order

\* Report and signature come first in either order, and are as long together.
AuthLength == lo + ReportSize + SigSize
AuthData == AuthLength + 2

ParseAuthData ==
    /\ pc = "auth"
    /\ IF hi < AuthData + 6
       THEN Fail /\ UNCHANGED <<seen, auth>>
       ELSE \E n \in Values(<<AuthLength, 2>>) :
               /\ seen' = Learned(seen, <<AuthLength, 2>>, n)
               /\ IF AuthData + n + 6 > hi
                  THEN Fail /\ UNCHANGED auth
                  ELSE auth' = n /\ pc' = "cert" /\ UNCHANGED order
    /\ UNCHANGED <<built, signed, lo, hi>>

\* The header of the certification data, and where its bytes begin.
CertHeader == AuthData + auth
CertData == CertHeader + 6

\* A bug that lets certification data run on to the end of the quote, as a
\* Go slice lets it.
ParseCertDataToEnd ==
    /\ pc = "cert"
    /\ \E type \in Values(<<CertHeader, 2>>), n \in Values(<<CertHeader + 2, 4>>) :
          /\ seen' = Learned(Learned(seen, <<CertHeader, 2>>, type), <<CertHeader + 2, 4>>, n)
          /\ IF CertData + n > QuoteLen(built)
                \/ (order # "sgx_style" /\ type # certTypePCKCertChain)
             THEN Fail
             ELSE pc' = "parsed" /\ UNCHANGED order
    /\ UNCHANGED <<built, signed, lo, hi, auth>>

\* A bug that asks for the type of the data in the first attempt only.
ParseCertDataTypeOnce ==
    /\ pc = "cert"
    /\ \E type \in Values(<<CertHeader, 2>>), n \in Values(<<CertHeader + 2, 4>>) :
          /\ seen' = Learned(Learned(seen, <<CertHeader, 2>>, type), <<CertHeader + 2, 4>>, n)
          /\ IF CertData + n > hi
                \/ (order = "report_then_signature" /\ type # certTypePCKCertChain)
             THEN Fail
             ELSE pc' = "parsed" /\ UNCHANGED order
    /\ UNCHANGED <<built, signed, lo, hi, auth>>

\* Only the TDX layout insists on a PCK certificate chain here.
ParseCertData ==
    /\ pc = "cert"
    /\ \E type \in Values(<<CertHeader, 2>>), n \in Values(<<CertHeader + 2, 4>>) :
          /\ seen' = Learned(Learned(seen, <<CertHeader, 2>>, type), <<CertHeader + 2, 4>>, n)
          /\ IF CertData + n > hi
                \/ (order # "sgx_style" /\ type # certTypePCKCertChain)
             THEN Fail
             ELSE pc' = "parsed" /\ UNCHANGED order
    /\ UNCHANGED <<built, signed, lo, hi, auth>>

Next ==
    \/ Begin
    \/ InferReportBodySize("inferTDX", TdxBody, "inferSGX")
    \/ InferReportBodySize("inferSGX", SgxBody, "refused")
    \/ ParseSignatureData \/ ParseOuter \/ ParseAuthData \/ ParseCertData

Spec == Init /\ [][Next]_vars
----------------------------------------------------------------------------
(* Properties *)

\* Type invariant of the parser.
ParserTypeOK ==
    /\ built \in Built
    /\ DOMAIN seen \subseteq Nat \X {2, 4} /\ \A w \in DOMAIN seen : seen[w] \in Nat
    /\ pc \in {"start", "inferTDX", "inferSGX", "signature", "outer", "auth", "cert",
               "parsed", "refused"}
    /\ signed \in {0, HeaderSize + TdxBody, HeaderSize + SgxBody}
    /\ lo \in Nat /\ hi \in Nat /\ hi <= QuoteLen(built)
    /\ order \in {"none", "report_then_signature", "signature_then_report", "sgx_style"}
    /\ auth \in Nat

\* Every piece lies in the piece it was cut from, down to the certificate
\* chain, and every word is read inside the buffer it belongs to (the length at
\* the end of a TDX body is looked at before there is one).  A Go slice of a
\* slice may run past its end to that of the array, so that the code's
\* own comparisons are all that ensures it (quote.go:164-288).
SlicesNested ==
    /\ pc \in {"auth", "cert", "parsed"} =>
          /\ signed + 4 + SigSize + KeySize <= lo /\ lo <= hi
          /\ hi <= signed + 4 + seen[<<signed, 4>>]
          /\ signed + 4 + seen[<<signed, 4>>] <= QuoteLen(built)
          /\ \A w \in DOMAIN seen \ {<<HeaderSize + TdxBody, 4>>} :
                w[1] >= lo => w[1] + w[2] <= hi
    /\ pc = "parsed" => CertData + seen[<<CertHeader + 2, 4>>] <= hi
    /\ \A w \in DOMAIN seen : w[1] + w[2] <= QuoteLen(built)

\* Both attempts of parseQEReportCertificationDataAuto read the same words at
\* the same offsets: the second cannot succeed where the first has failed, and
\* a quote is never reported with its signature first (quote.go:192-203).
SecondOrderNeverParses == order = "signature_then_report" => pc # "parsed"

\* The lengths of an SGX quote cannot be taken for those of another layout.
Unmistakable ==
    /\ LET at == HeaderSize + TdxBody IN
       <<at, 4>> \in DOMAIN seen => ~OkSignatureDataLength(at, seen[<<at, 4>>])
    /\ <<AfterKey(built), 2>> \in DOMAIN seen =>
          seen[<<AfterKey(built), 2>>] # certTypeQEReportCertData

\* A quote that was built with the layout of a TDX quote is read as it was
\* written, whatever its two lengths are, and so is an SGX quote unless bytes
\* of its QE report look like lengths and types (parseQuote, quote.go:63-108,
\* encodeSyntheticSignatureData, synthetic_quote.go:197-214).
ReadsWhatWasWritten ==
    /\ pc \in {"parsed", "refused"}
    /\ built.kind = "tdx" \/ (built.kind = "sgx" /\ Unmistakable)
    => /\ pc = "parsed" /\ signed = SignedSize(built)
       /\ order = IF built.kind = "tdx" THEN "report_then_signature" ELSE "sgx_style"
       /\ auth = built.auth
       /\ CertData + built.chain = QuoteLen(built)
       /\ seen[<<CertHeader + 2, 4>>] = built.chain

\* inferReportBodySize "tells a TDX TD report from an SGX enclave report"
\* (the comment at quote.go:120).  It may take the body of an SGX quote for a
\* TDX one, for it does not look at the header's version or TEE type.
SGXBodyRecognised ==
    built.kind = "sgx" /\ pc = "signature" => signed = SignedSize(built)
=============================================================================
