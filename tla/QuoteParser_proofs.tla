------------------------- MODULE QuoteParser_proofs -------------------------
(***************************************************************************)
(* Proofs about module QuoteParser, for all sizes, all quotes and all      *)
(* values of their words.                                                  *)
(***************************************************************************)
EXTENDS QuoteParser, TLAPS

\* The length of the signature data, once it has been read.
SignatureSize == seen[<<signed, 4>>]

\* Where the parser is, and what it has read to get there.
ParserControl ==
    /\ pc \in {"start", "inferTDX", "inferSGX"} =>
          signed = 0 /\ lo = 0 /\ hi = QuoteLen(built) /\ order = "none"
    /\ pc \in {"signature", "outer", "auth", "cert", "parsed"} =>
          /\ signed \in {HeaderSize + TdxBody, HeaderSize + SgxBody}
          /\ <<signed, 4>> \in DOMAIN seen
          /\ signed + 4 + SignatureSize <= QuoteLen(built)
    /\ pc = "signature" => lo = 0 /\ hi = QuoteLen(built) /\ order = "none"
    /\ pc = "outer" =>
          /\ order = "none"
          /\ lo = signed + 4 + SigSize + KeySize
          /\ lo + 6 <= hi /\ hi = signed + 4 + SignatureSize
    /\ pc \in {"auth", "cert", "parsed"} =>
          /\ order # "none"
          /\ signed + 4 + SigSize + KeySize <= lo /\ lo <= hi
          /\ hi <= signed + 4 + SignatureSize
    /\ pc \in {"cert", "parsed"} =>
          /\ <<AuthLength, 2>> \in DOMAIN seen /\ auth = seen[<<AuthLength, 2>>]
          /\ CertHeader + 6 <= hi
    /\ pc = "parsed" =>
          /\ <<CertHeader, 2>> \in DOMAIN seen /\ <<CertHeader + 2, 4>> \in DOMAIN seen
          /\ CertData + seen[<<CertHeader + 2, 4>>] <= hi
          /\ order # "sgx_style" => seen[<<CertHeader, 2>>] = certTypePCKCertChain

\* Where the words are that have been read.
WordsInside ==
    /\ \A w \in DOMAIN seen : w[1] + w[2] <= QuoteLen(built)
    /\ pc \in {"start", "inferTDX"} => DOMAIN seen = {}
    /\ pc \in {"inferSGX", "signature"} =>
          DOMAIN seen \subseteq {<<HeaderSize + TdxBody, 4>>, <<HeaderSize + SgxBody, 4>>}
    /\ pc = "outer" => \A w \in DOMAIN seen \ {<<HeaderSize + TdxBody, 4>>} :
                          w[1] + w[2] <= lo + 2
    /\ pc \in {"auth", "cert", "parsed"} =>
          \A w \in DOMAIN seen \ {<<HeaderSize + TdxBody, 4>>} : w[1] >= lo => w[1] + w[2] <= hi

\* The words at which the first order has failed.
FirstOrderFailed ==
    \/ hi < AuthData + 6
    \/ /\ <<AuthLength, 2>> \in DOMAIN seen
       /\ LET header == AuthData + seen[<<AuthLength, 2>>] IN
          \/ header + 6 > hi
          \/ /\ <<header, 2>> \in DOMAIN seen /\ <<header + 2, 4>> \in DOMAIN seen
             /\ \/ header + 6 + seen[<<header + 2, 4>>] > hi
                \/ seen[<<header, 2>>] # certTypePCKCertChain

OrderInv == order = "signature_then_report" => FirstOrderFailed

\* A word that was written is read with its value.
ContentsInv == \A c \in Contents(built) : c[1] \in DOMAIN seen => seen[c[1]] = c[2]

Readable == built.kind = "tdx" \/ (built.kind = "sgx" /\ Unmistakable)

\* How far a readable quote has been read as it was written.
ReadingInv ==
    Readable =>
        /\ pc # "refused" /\ order # "signature_then_report"
        /\ built.kind = "tdx" => pc # "inferSGX"
        /\ pc \in {"signature", "outer", "auth", "cert", "parsed"} => signed = SignedSize(built)
        /\ pc = "outer" => built.kind = "tdx"
        /\ pc \in {"auth", "cert", "parsed"} =>
              /\ lo = Tail(built) /\ hi = QuoteLen(built)
              /\ order = IF built.kind = "tdx" THEN "report_then_signature" ELSE "sgx_style"

ParserInv ==
    ParserTypeOK /\ ParserControl /\ WordsInside /\ OrderInv /\ ContentsInv /\ ReadingInv
-----------------------------------------------------------------------------
(* Quotes and words *)

LEMMA Sizes ==
    /\ HeaderSize \in Nat /\ TdxBody \in Nat /\ SgxBody \in Nat /\ SgxBody < TdxBody
    /\ SigSize \in Nat /\ KeySize \in Nat /\ ReportSize \in Nat
  BY ParserAssumption

LEMMA QuoteLenType ==
    ASSUME NEW b \in Built
    PROVE  QuoteLen(b) \in Nat
  BY ParserAssumption DEF QuoteLen, SignedSize, SignatureDataSize, TailSize

\* How the pieces of a built quote lie.
LEMMA BuiltSizes ==
    ASSUME NEW b \in Built, b.kind # "raw"
    PROVE  /\ b.kind \in {"tdx", "sgx"} /\ b.auth \in Nat /\ b.chain \in Nat
           /\ TailSize(b) \in Nat /\ SignatureDataSize(b) \in Nat /\ SignedSize(b) \in Nat
           /\ AfterKey(b) \in Nat /\ Tail(b) \in Nat /\ InnerHeader(b) \in Nat
           /\ SignatureDataSize(b) >= SigSize + KeySize + 8
           /\ SignedSize(b) = HeaderSize + (IF b.kind = "tdx" THEN TdxBody ELSE SgxBody)
           /\ AfterKey(b) = SignedSize(b) + 4 + SigSize + KeySize
           /\ Tail(b) = AfterKey(b) + (IF b.kind = "tdx" THEN 6 ELSE 0)
           /\ InnerHeader(b) = Tail(b) + ReportSize + SigSize + 2 + b.auth
           /\ Tail(b) + TailSize(b) = QuoteLen(b)
           /\ InnerHeader(b) + 6 + b.chain = QuoteLen(b)
           /\ QuoteLen(b) = SignedSize(b) + 4 + SignatureDataSize(b)
  <1>1. b.kind \in {"tdx", "sgx"} /\ b.auth \in Nat /\ b.chain \in Nat
    BY ParserAssumption
  <1> QED
    BY <1>1, Sizes DEF QuoteLen, TailSize, SignatureDataSize, SignedSize, AfterKey, Tail, InnerHeader

\* The words of Contents are naturals at natural offsets.
LEMMA ContentsType ==
    ASSUME NEW b \in Built, NEW c \in Contents(b)
    PROVE  c[1] \in Nat \X {2, 4} /\ c[2] \in Nat
  <1>1. b.kind # "raw"
    BY DEF Contents
  <1> QED
    BY <1>1, BuiltSizes, Sizes DEF Contents, certTypePCKCertChain, certTypeQEReportCertData

\* No word is written twice.
LEMMA ContentsUnique ==
    ASSUME NEW b \in Built, NEW c \in Contents(b), NEW d \in Contents(b), c[1] = d[1]
    PROVE  c[2] = d[2]
  <1>1. b.kind # "raw"
    BY DEF Contents
  <1> QED BY <1>1, BuiltSizes, Sizes DEF Contents

\* What a word may turn out to be.
LEMMA ValuesType ==
    ASSUME ParserTypeOK, NEW word \in Nat \X {2, 4}, NEW v \in Values(word)
    PROVE  v \in Nat
  BY ContentsType, ParserAssumption DEF Values, ParserTypeOK

LEMMA ValuesKnown ==
    ASSUME NEW word, word \in DOMAIN seen, NEW v \in Values(word)
    PROVE  v = seen[word]
  BY DEF Values

LEMMA ValuesWritten ==
    ASSUME ParserTypeOK, ContentsInv, NEW c \in Contents(built), NEW v \in Values(c[1])
    PROVE  v = c[2]
  <1>1. CASE c[1] \in DOMAIN seen
    BY <1>1 DEF Values, ContentsInv
  <1>2. CASE c[1] \notin DOMAIN seen
    BY <1>2, ContentsUnique DEF Values, ParserTypeOK
  <1> QED BY <1>1, <1>2

\* A quote that can be read as it was written was built, and where its words are.
LEMMA ReadableWords ==
    ASSUME built \in Built, Readable
    PROVE  /\ built.kind \in {"tdx", "sgx"} /\ built.kind # "raw"
           /\ <<<<SignedSize(built), 4>>, SignatureDataSize(built)>> \in Contents(built)
           /\ <<<<Tail(built) + ReportSize + SigSize, 2>>, built.auth>> \in Contents(built)
           /\ <<<<InnerHeader(built), 2>>, certTypePCKCertChain>> \in Contents(built)
           /\ <<<<InnerHeader(built) + 2, 4>>, built.chain>> \in Contents(built)
           /\ built.kind = "tdx" =>
                 /\ <<<<AfterKey(built), 2>>, certTypeQEReportCertData>> \in Contents(built)
                 /\ <<<<AfterKey(built) + 2, 4>>, TailSize(built)>> \in Contents(built)
  <1>1. built.kind \in {"tdx", "sgx"} /\ built.kind # "raw"
    BY DEF Readable
  <1> QED BY <1>1 DEF Contents

\* What stays true when words are read and the quote is the same.
LEMMA ReadingKeeps ==
    ASSUME ParserInv, built' = built,
           DOMAIN seen \subseteq DOMAIN seen',
           \A w \in DOMAIN seen : seen'[w] = seen[w],
           \A w \in DOMAIN seen' \ DOMAIN seen :
              w \in Nat \X {2, 4} /\ seen'[w] \in Values(w)
    PROVE  /\ DOMAIN seen' \subseteq Nat \X {2, 4} /\ \A w \in DOMAIN seen' : seen'[w] \in Nat
           /\ ContentsInv'
           /\ Readable' => Readable
  <1>1. DOMAIN seen' \subseteq Nat \X {2, 4} /\ \A w \in DOMAIN seen' : seen'[w] \in Nat
    BY ValuesType DEF ParserInv, ParserTypeOK
  <1>2. ContentsInv'
    <2> SUFFICES ASSUME NEW c \in Contents(built), c[1] \in DOMAIN seen'
                 PROVE  seen'[c[1]] = c[2]
      BY DEF ContentsInv, Contents, TailSize, SignatureDataSize, SignedSize, AfterKey, Tail,
             InnerHeader
    <2>1. CASE c[1] \in DOMAIN seen
      BY <2>1 DEF ParserInv, ContentsInv
    <2>2. CASE c[1] \notin DOMAIN seen
      BY <2>2, ValuesWritten DEF ParserInv
    <2> QED BY <2>1, <2>2
  <1>3. ASSUME Readable' PROVE Readable
    BY <1>3 DEF Readable, Unmistakable, OkSignatureDataLength, AfterKey, SignedSize, QuoteLen,
                SignatureDataSize, TailSize
  <1> QED BY <1>1, <1>2, <1>3

\* One word is read.
LEMMA ReadOne ==
    ASSUME ParserInv, built' = built, NEW word \in Nat \X {2, 4}, NEW v \in Values(word),
           seen' = Learned(seen, word, v)
    PROVE  /\ DOMAIN seen' = DOMAIN seen \cup {word} /\ seen'[word] = v /\ v \in Nat
           /\ \A w \in DOMAIN seen : seen'[w] = seen[w]
           /\ DOMAIN seen' \subseteq Nat \X {2, 4} /\ \A w \in DOMAIN seen' : seen'[w] \in Nat
           /\ ContentsInv' /\ (Readable' => Readable)
  <1>0. word \in DOMAIN seen => v = seen[word]
    BY ValuesKnown
  <1>1. /\ DOMAIN seen' = DOMAIN seen \cup {word} /\ seen'[word] = v
        /\ \A w \in DOMAIN seen : seen'[w] = seen[w]
    BY <1>0 DEF Learned
  <1>2. v \in Nat
    BY ValuesType DEF ParserInv
  <1>3. /\ DOMAIN seen' \subseteq Nat \X {2, 4} /\ \A w \in DOMAIN seen' : seen'[w] \in Nat
        /\ ContentsInv' /\ (Readable' => Readable)
    BY <1>1, ReadingKeeps
  <1> QED BY <1>1, <1>2, <1>3

\* No word is read.
LEMMA ReadNone ==
    ASSUME ParserInv, built' = built, seen' = seen
    PROVE  ContentsInv' /\ (Readable' => Readable)
  BY ReadingKeeps

\* The quote stays the same, and with it where its pieces are.
LEMMA SameQuote ==
    ASSUME built' = built
    PROVE  /\ QuoteLen(built)' = QuoteLen(built) /\ Tail(built)' = Tail(built)
           /\ SignedSize(built)' = SignedSize(built) /\ AfterKey(built)' = AfterKey(built)
  BY DEF QuoteLen, SignedSize, SignatureDataSize, TailSize, Tail, AfterKey
-----------------------------------------------------------------------------
(* The steps of the parser keep its invariant *)

LEMMA InitInv == Init => ParserInv
  <1> SUFFICES ASSUME Init PROVE ParserInv
    OBVIOUS
  <1>1. QuoteLen(built) \in Nat
    BY QuoteLenType DEF Init
  <1> QED
    BY <1>1 DEF Init, ParserInv, ParserTypeOK, ParserControl, WordsInside, OrderInv, ContentsInv,
                ReadingInv

LEMMA BeginInv == ParserInv /\ Begin => ParserInv'
  <1> SUFFICES ASSUME ParserInv, Begin PROVE ParserInv'
    OBVIOUS
  <1>1. /\ built \in Built /\ built' = built /\ seen' = seen /\ pc = "start"
        /\ pc' \in {"refused", "inferTDX"}
    BY DEF Begin, ParserInv, ParserTypeOK
  <1>2. ContentsInv' /\ (Readable' => Readable) /\ QuoteLen(built)' = QuoteLen(built)
    BY <1>1, ReadNone, SameQuote
  <1>3. ASSUME Readable PROVE ~(QuoteLen(built) < HeaderSize + SgxBody + 4)
    BY <1>1, <1>3, ReadableWords, BuiltSizes, Sizes
  <1>4. ParserTypeOK' /\ ParserControl' /\ WordsInside' /\ OrderInv'
    BY <1>1, <1>2 DEF Begin, ParserInv, ParserTypeOK, ParserControl, WordsInside, OrderInv
  <1>5. ReadingInv'
    BY <1>1, <1>2, <1>3 DEF Begin, ParserInv, ReadingInv, ParserControl
  <1> QED BY <1>2, <1>4, <1>5 DEF ParserInv

LEMMA InferTDXInv ==
    ParserInv /\ InferReportBodySize("inferTDX", TdxBody, "inferSGX") => ParserInv'
  <1> SUFFICES ASSUME ParserInv, InferReportBodySize("inferTDX", TdxBody, "inferSGX")
               PROVE  ParserInv'
    OBVIOUS
  <1> DEFINE at == HeaderSize + TdxBody
             word == <<at, 4>>
  <1>1. /\ ParserTypeOK /\ ParserControl /\ WordsInside /\ ContentsInv /\ ReadingInv
        /\ built \in Built /\ built' = built /\ pc = "inferTDX"
        /\ lo' = lo /\ hi' = hi /\ order' = order /\ auth' = auth
    BY DEF InferReportBodySize, ParserInv, ParserTypeOK
  <1>2. /\ QuoteLen(built)' = QuoteLen(built) /\ QuoteLen(built) \in Nat
        /\ at \in Nat /\ word \in Nat \X {2, 4}
    BY <1>1, SameQuote, QuoteLenType, Sizes
  <1>3. /\ signed = 0 /\ lo = 0 /\ hi = QuoteLen(built) /\ order = "none" /\ DOMAIN seen = {}
    BY <1>1 DEF ParserControl, WordsInside
  <1>4. CASE QuoteLen(built) < at + 4
    <2>1. pc' = "inferSGX" /\ seen' = seen /\ signed' = signed
      BY <1>4 DEF InferReportBodySize
    <2>2. ContentsInv' /\ (Readable' => Readable)
      BY <2>1, <1>1, ReadNone
    <2>3. ASSUME Readable PROVE built.kind # "tdx"
      BY <1>1, <1>2, <1>4, <2>3, ReadableWords, BuiltSizes, Sizes
    <2>4. ReadingInv'
      BY <1>1, <1>3, <2>1, <2>2, <2>3 DEF ReadingInv
    <2>5. ParserTypeOK' /\ ParserControl' /\ WordsInside' /\ OrderInv'
      BY <1>1, <1>2, <1>3, <2>1 DEF ParserTypeOK, ParserControl, WordsInside, OrderInv
    <2> QED BY <2>2, <2>4, <2>5 DEF ParserInv
  <1>5. CASE ~(QuoteLen(built) < at + 4)
    <2>1. PICK n \in Values(word) :
             /\ seen' = Learned(seen, word, n)
             /\ IF OkSignatureDataLength(at, n)
                THEN pc' = "signature" /\ signed' = at
                ELSE pc' = "inferSGX" /\ UNCHANGED signed
      BY <1>5 DEF InferReportBodySize
    <2>2. /\ DOMAIN seen' = {word} /\ seen'[word] = n /\ n \in Nat
          /\ DOMAIN seen' \subseteq Nat \X {2, 4} /\ \A w \in DOMAIN seen' : seen'[w] \in Nat
          /\ ContentsInv' /\ (Readable' => Readable)
      BY <1>1, <1>2, <1>3, <2>1, ReadOne
    <2>3. WordsInside' /\ OrderInv'
      BY <1>1, <1>2, <1>3, <1>5, <2>1, <2>2 DEF WordsInside, OrderInv
    <2>4. ParserTypeOK'
      BY <1>1, <1>2, <1>3, <2>1, <2>2 DEF ParserTypeOK
    <2>5. ParserControl'
      BY <1>1, <1>2, <1>3, <2>1, <2>2 DEF ParserControl, OkSignatureDataLength, SignatureSize
    <2>6. ASSUME Readable', built.kind = "tdx" PROVE OkSignatureDataLength(at, n)
      <3>1. built.kind # "raw" /\ SignedSize(built) = at
        BY <1>1, <2>2, <2>6, ReadableWords, BuiltSizes
      <3>2. n = SignatureDataSize(built)
        BY <1>1, <2>2, <2>6, <3>1, ReadableWords, ValuesWritten
      <3>3. n # 0 /\ QuoteLen(built) = at + 4 + n
        BY <1>1, <3>1, <3>2, BuiltSizes, Sizes
      <3> QED BY <1>2, <3>3 DEF OkSignatureDataLength
    <2>7. ASSUME Readable', built.kind # "tdx" PROVE ~OkSignatureDataLength(at, n)
      <3>1. Unmistakable'
        BY <1>1, <2>7 DEF Readable
      <3> QED BY <1>1, <1>2, <2>2, <3>1, SameQuote DEF Unmistakable, OkSignatureDataLength
    <2>8. ReadingInv'
      BY <1>1, <1>3, <2>1, <2>2, <2>6, <2>7, SameQuote DEF ReadingInv, SignedSize
    <2> QED BY <2>2, <2>3, <2>4, <2>5, <2>8 DEF ParserInv
  <1> QED BY <1>4, <1>5

LEMMA InferSGXInv ==
    ParserInv /\ InferReportBodySize("inferSGX", SgxBody, "refused") => ParserInv'
  <1> SUFFICES ASSUME ParserInv, InferReportBodySize("inferSGX", SgxBody, "refused")
               PROVE  ParserInv'
    OBVIOUS
  <1> DEFINE at == HeaderSize + SgxBody
             word == <<at, 4>>
  <1>1. /\ ParserTypeOK /\ ParserControl /\ WordsInside /\ ContentsInv /\ ReadingInv
        /\ built \in Built /\ built' = built /\ pc = "inferSGX"
        /\ lo' = lo /\ hi' = hi /\ order' = order /\ auth' = auth
    BY DEF InferReportBodySize, ParserInv, ParserTypeOK
  <1>2. /\ QuoteLen(built)' = QuoteLen(built) /\ QuoteLen(built) \in Nat
        /\ at \in Nat /\ word \in Nat \X {2, 4}
    BY <1>1, SameQuote, QuoteLenType, Sizes
  <1>3. /\ signed = 0 /\ lo = 0 /\ hi = QuoteLen(built) /\ order = "none"
        /\ DOMAIN seen \subseteq {<<HeaderSize + TdxBody, 4>>, word}
        /\ Readable => built.kind # "tdx"
    BY <1>1 DEF ParserControl, WordsInside, ReadingInv
  <1>a. ASSUME Readable PROVE /\ built.kind # "raw" /\ SignedSize(built) = at
                              /\ QuoteLen(built) = at + 4 + SignatureDataSize(built)
                              /\ SignatureDataSize(built) \in Nat \ {0}
    BY <1>1, <1>3, <1>a, ReadableWords, BuiltSizes, Sizes
  <1>4. CASE QuoteLen(built) < at + 4
    <2>1. pc' = "refused" /\ seen' = seen /\ signed' = signed
      BY <1>4 DEF InferReportBodySize
    <2>2. ContentsInv' /\ (Readable' => Readable)
      BY <2>1, <1>1, ReadNone
    <2>3. ~Readable
      BY <1>2, <1>4, <1>a
    <2>4. ReadingInv'
      BY <2>2, <2>3 DEF ReadingInv
    <2>5. ParserTypeOK' /\ ParserControl' /\ WordsInside' /\ OrderInv'
      BY <1>1, <1>2, <1>3, <2>1 DEF ParserTypeOK, ParserControl, WordsInside, OrderInv
    <2> QED BY <2>2, <2>4, <2>5 DEF ParserInv
  <1>5. CASE ~(QuoteLen(built) < at + 4)
    <2>1. PICK n \in Values(word) :
             /\ seen' = Learned(seen, word, n)
             /\ IF OkSignatureDataLength(at, n)
                THEN pc' = "signature" /\ signed' = at
                ELSE pc' = "refused" /\ UNCHANGED signed
      BY <1>5 DEF InferReportBodySize
    <2>2. /\ DOMAIN seen' = DOMAIN seen \cup {word} /\ seen'[word] = n /\ n \in Nat
          /\ DOMAIN seen' \subseteq Nat \X {2, 4} /\ \A w \in DOMAIN seen' : seen'[w] \in Nat
          /\ ContentsInv' /\ (Readable' => Readable)
      BY <1>1, <1>2, <2>1, ReadOne
    <2>3. WordsInside' /\ OrderInv'
      <3>1. \A w \in DOMAIN seen' : w[1] + w[2] <= QuoteLen(built)'
        BY <1>1, <1>2, <1>5, <2>2 DEF WordsInside
      <3>2. pc' \in {"signature", "refused"}
        BY <2>1
      <3>3. DOMAIN seen' \subseteq {<<HeaderSize + TdxBody, 4>>, <<HeaderSize + SgxBody, 4>>}
        BY <1>3, <2>2
      <3> QED BY <1>1, <1>3, <3>1, <3>2, <3>3 DEF WordsInside, OrderInv
    <2>4. ParserTypeOK'
      BY <1>1, <1>2, <1>3, <2>1, <2>2 DEF ParserTypeOK
    <2>5. ParserControl'
      BY <1>1, <1>2, <1>3, <2>1, <2>2 DEF ParserControl, OkSignatureDataLength, SignatureSize
    <2>6. ASSUME Readable' PROVE OkSignatureDataLength(at, n)
      <3>1. n = SignatureDataSize(built)
        BY <1>1, <1>a, <2>2, <2>6, ReadableWords, ValuesWritten
      <3> QED BY <1>2, <1>a, <2>2, <2>6, <3>1 DEF OkSignatureDataLength
    <2>7. ReadingInv'
      <3> SUFFICES ASSUME Readable'
                   PROVE  /\ pc' = "signature" /\ order' = "none"
                          /\ signed' = SignedSize(built)'
        BY DEF ReadingInv
      <3> QED BY <1>1, <1>3, <1>a, <2>1, <2>2, <2>6, SameQuote
    <2> QED BY <2>2, <2>3, <2>4, <2>5, <2>7 DEF ParserInv
  <1> QED BY <1>4, <1>5

LEMMA ParseSignatureDataInv == ParserInv /\ ParseSignatureData => ParserInv'
  <1> SUFFICES ASSUME ParserInv, ParseSignatureData PROVE ParserInv'
    OBVIOUS
  <1> DEFINE after == signed + 4 + SigSize + KeySize
             word == <<after, 2>>
  <1>1. /\ ParserTypeOK /\ ParserControl /\ WordsInside /\ ContentsInv /\ ReadingInv
        /\ built \in Built /\ built' = built /\ pc = "signature"
        /\ signed' = signed /\ auth' = auth /\ lo \in Nat /\ hi \in Nat /\ auth \in Nat
    BY DEF ParseSignatureData, ParserInv, ParserTypeOK
  <1>2. /\ signed \in {HeaderSize + TdxBody, HeaderSize + SgxBody} /\ signed \in Nat
        /\ <<signed, 4>> \in DOMAIN seen /\ SignatureSize \in Nat
        /\ signed + 4 + SignatureSize <= QuoteLen(built)
        /\ hi = QuoteLen(built) /\ order = "none" /\ lo = 0
        /\ DOMAIN seen \subseteq {<<HeaderSize + TdxBody, 4>>, <<HeaderSize + SgxBody, 4>>}
    BY <1>1, Sizes DEF ParserControl, WordsInside, SignatureSize, ParserTypeOK
  <1>3. /\ QuoteLen(built)' = QuoteLen(built) /\ QuoteLen(built) \in Nat
        /\ after \in Nat /\ word \in Nat \X {2, 4}
    BY <1>1, <1>2, SameQuote, QuoteLenType, Sizes
  <1>a. ASSUME Readable
        PROVE /\ built.kind \in {"tdx", "sgx"} /\ signed = SignedSize(built) /\ after = AfterKey(built)
              /\ Tail(built) = after + (IF built.kind = "tdx" THEN 6 ELSE 0)
              /\ SignatureSize = SignatureDataSize(built)
              /\ SignatureSize >= SigSize + KeySize + 8
              /\ signed + 4 + SignatureSize = QuoteLen(built)
    <2>1. built.kind # "raw" /\ built.kind \in {"tdx", "sgx"}
      BY <1>1, <1>2, <1>a, ReadableWords, Sizes
    <2>2. signed = SignedSize(built)
      BY <1>1, <1>a, <2>1 DEF ReadingInv
    <2>3. SignatureSize = SignatureDataSize(built)
      BY <1>1, <1>2, <1>a, <2>2, ReadableWords DEF ContentsInv, SignatureSize
    <2> QED BY <1>1, <2>1, <2>2, <2>3, BuiltSizes
  <1>4. PICK n \in Values(<<signed, 4>>) :
          IF signed + 4 + n > QuoteLen(built) \/ n < SigSize + KeySize + 6
          THEN pc' = "refused" /\ UNCHANGED <<seen, lo, hi, order>>
          ELSE \E type \in Values(<<signed + 4 + SigSize + KeySize, 2>>) :
                  /\ seen' = Learned(seen, <<signed + 4 + SigSize + KeySize, 2>>, type)
                  /\ lo' = signed + 4 + SigSize + KeySize /\ hi' = signed + 4 + n
                  /\ IF type = certTypeQEReportCertData
                     THEN pc' = "outer" /\ UNCHANGED order
                     ELSE pc' = "auth" /\ order' = "sgx_style"
    BY DEF ParseSignatureData
  <1>5. n = SignatureSize
    BY <1>2, ValuesKnown DEF SignatureSize
  <1>6. CASE n < SigSize + KeySize + 6
    <2>1. pc' = "refused" /\ seen' = seen /\ lo' = lo /\ hi' = hi /\ order' = order
      BY <1>4, <1>6
    <2>2. ContentsInv' /\ (Readable' => Readable)
      BY <2>1, <1>1, ReadNone
    <2>3. ~Readable
      BY <1>2, <1>5, <1>6, <1>a, Sizes
    <2>4. ParserTypeOK' /\ ParserControl' /\ WordsInside' /\ OrderInv' /\ ReadingInv'
      BY <1>1, <1>2, <1>3, <2>1, <2>2, <2>3
         DEF ParserTypeOK, ParserControl, WordsInside, OrderInv, ReadingInv
    <2> QED BY <2>2, <2>4 DEF ParserInv
  <1>7. CASE ~(n < SigSize + KeySize + 6)
    <2>1. PICK type \in Values(word) :
             /\ seen' = Learned(seen, word, type)
             /\ lo' = after /\ hi' = signed + 4 + n
             /\ IF type = certTypeQEReportCertData
                THEN pc' = "outer" /\ UNCHANGED order
                ELSE pc' = "auth" /\ order' = "sgx_style"
      BY <1>2, <1>3, <1>4, <1>5, <1>7
    <2>2. /\ DOMAIN seen' = DOMAIN seen \cup {word} /\ seen'[word] = type
          /\ \A w \in DOMAIN seen : seen'[w] = seen[w]
          /\ DOMAIN seen' \subseteq Nat \X {2, 4} /\ \A w \in DOMAIN seen' : seen'[w] \in Nat
          /\ ContentsInv' /\ (Readable' => Readable)
      BY <1>1, <1>3, <2>1, ReadOne
    <2>3. /\ after + 6 <= hi' /\ hi' <= QuoteLen(built) /\ lo' \in Nat /\ hi' \in Nat
          /\ SignatureSize' = SignatureSize
      BY <1>1, <1>2, <1>5, <1>7, <2>1, <2>2, Sizes DEF SignatureSize
    <2>4. ParserTypeOK'
      BY <1>1, <1>3, <2>1, <2>2, <2>3 DEF ParserTypeOK
    <2>5. ParserControl'
      <3>1. /\ <<signed', 4>> \in DOMAIN seen' /\ signed' + 4 + SignatureSize' <= QuoteLen(built)'
            /\ signed' + 4 + SigSize + KeySize = lo' /\ lo' <= hi' /\ lo' + 6 <= hi'
            /\ hi' = signed' + 4 + SignatureSize'
        BY <1>1, <1>2, <1>3, <1>5, <2>1, <2>2, <2>3
      <3>2. (pc' = "outer" /\ order' = "none") \/ (pc' = "auth" /\ order' = "sgx_style")
        <4>1. order = "none"
          BY <1>2
        <4> QED BY <2>1, <4>1
      <3>3. hi' <= signed' + 4 + SignatureSize' /\ signed' + 4 + SigSize + KeySize <= lo'
        BY <2>3, <3>1
      <3>4. signed' \in {HeaderSize + TdxBody, HeaderSize + SgxBody}
        BY <1>1, <1>2
      <3> QED BY <3>1, <3>2, <3>3, <3>4 DEF ParserControl
    <2>6. WordsInside'
      <3>1. \A w \in DOMAIN seen \ {<<HeaderSize + TdxBody, 4>>} :
               w[1] + w[2] <= after /\ w[1] < after
        BY <1>2, Sizes
      <3>2. word[1] = after /\ word[2] = 2 /\ after + 2 <= hi'
        BY <1>3, <2>1, <2>3
      <3>3. \A w \in DOMAIN seen' : w[1] + w[2] <= QuoteLen(built)'
        BY <1>1, <1>3, <2>2, <2>3, <3>2 DEF WordsInside
      <3>4. \A w \in DOMAIN seen' \ {<<HeaderSize + TdxBody, 4>>} :
               w[1] + w[2] <= lo' + 2 /\ (w[1] >= lo' => w[1] + w[2] <= hi')
        BY <1>3, <2>1, <2>2, <2>3, <3>1, <3>2
      <3>5. pc' \in {"outer", "auth"}
        BY <2>1
      <3> QED BY <3>3, <3>4, <3>5 DEF WordsInside
    <2>7. OrderInv'
      BY <1>2, <2>1 DEF OrderInv
    <2>8. ReadingInv'
      <3> SUFFICES ASSUME Readable' PROVE ReadingInv'
        BY DEF ReadingInv
      <3>1. /\ built.kind \in {"tdx", "sgx"} /\ signed' = SignedSize(built)'
            /\ after = AfterKey(built) /\ Tail(built)' = after + (IF built.kind = "tdx" THEN 6 ELSE 0)
            /\ hi' = QuoteLen(built)'
        BY <1>1, <1>3, <1>5, <1>a, <2>1, <2>2, SameQuote
      <3>2. CASE built.kind = "tdx"
        <4>1. type = certTypeQEReportCertData
          BY <1>1, <2>2, <3>1, <3>2, ReadableWords, ValuesWritten
        <4> QED BY <1>1, <1>2, <2>1, <3>1, <3>2, <4>1 DEF ReadingInv
      <3>3. CASE built.kind # "tdx"
        <4>1. Unmistakable' /\ AfterKey(built)' = after
          BY <1>1, <3>1, <3>3, SameQuote DEF Readable
        <4>2. type # certTypeQEReportCertData
          BY <2>2, <4>1 DEF Unmistakable
        <4>3. pc' = "auth" /\ order' = "sgx_style" /\ lo' = after
          BY <2>1, <4>2
        <4>4. lo' = Tail(built)'
          BY <1>3, <3>1, <3>3, <4>3
        <4>5. built'.kind # "tdx"
          BY <1>1, <3>3
        <4> QED BY <3>1, <4>3, <4>4, <4>5 DEF ReadingInv
      <3> QED BY <3>2, <3>3
    <2> QED BY <2>2, <2>4, <2>5, <2>6, <2>7, <2>8 DEF ParserInv
  <1> QED BY <1>6, <1>7

LEMMA ParseOuterInv == ParserInv /\ ParseOuter => ParserInv'
  <1> SUFFICES ASSUME ParserInv, ParseOuter PROVE ParserInv'
    OBVIOUS
  <1> DEFINE word == <<lo + 2, 4>>
  <1>1. /\ ParserTypeOK /\ ParserControl /\ WordsInside /\ ContentsInv /\ ReadingInv
        /\ built \in Built /\ built' = built /\ pc = "outer"
        /\ signed' = signed /\ auth' = auth /\ lo \in Nat /\ hi \in Nat /\ auth \in Nat
        /\ hi <= QuoteLen(built)
    BY DEF ParseOuter, ParserInv, ParserTypeOK
  <1>2. /\ signed \in {HeaderSize + TdxBody, HeaderSize + SgxBody} /\ signed \in Nat
        /\ <<signed, 4>> \in DOMAIN seen /\ SignatureSize \in Nat
        /\ signed + 4 + SignatureSize <= QuoteLen(built)
        /\ order = "none" /\ lo = signed + 4 + SigSize + KeySize
        /\ lo + 6 <= hi /\ hi = signed + 4 + SignatureSize
    BY <1>1, Sizes DEF ParserControl, SignatureSize, ParserTypeOK
  <1>3. /\ QuoteLen(built)' = QuoteLen(built) /\ QuoteLen(built) \in Nat
        /\ word \in Nat \X {2, 4}
    BY <1>1, SameQuote, QuoteLenType
  <1>a. ASSUME Readable
        PROVE /\ built.kind = "tdx" /\ built.kind # "raw" /\ lo = AfterKey(built)
              /\ Tail(built) = lo + 6 /\ hi = QuoteLen(built)
              /\ Tail(built) + TailSize(built) = QuoteLen(built)
    <2>1. built.kind = "tdx" /\ built.kind # "raw" /\ signed = SignedSize(built)
      BY <1>1, <1>a, ReadableWords DEF ReadingInv
    <2>2. SignatureSize = SignatureDataSize(built)
      BY <1>1, <1>2, <1>a, <2>1, ReadableWords DEF ContentsInv, SignatureSize
    <2> QED BY <1>1, <1>2, <2>1, <2>2, BuiltSizes
  <1>4. PICK n \in Values(word) :
          /\ seen' = Learned(seen, word, n)
          /\ IF lo + 6 + n > hi
             THEN pc' = "refused" /\ UNCHANGED <<lo, hi, order>>
             ELSE /\ pc' = "auth" /\ order' = "report_then_signature"
                  /\ lo' = lo + 6 /\ hi' = lo + 6 + n
    BY DEF ParseOuter
  <1>5. /\ DOMAIN seen' = DOMAIN seen \cup {word} /\ seen'[word] = n /\ n \in Nat
        /\ \A w \in DOMAIN seen : seen'[w] = seen[w]
        /\ DOMAIN seen' \subseteq Nat \X {2, 4} /\ \A w \in DOMAIN seen' : seen'[w] \in Nat
        /\ ContentsInv' /\ (Readable' => Readable)
    BY <1>1, <1>3, <1>4, ReadOne
  <1>6. \A w \in DOMAIN seen' : w[1] + w[2] <= QuoteLen(built)'
    BY <1>1, <1>2, <1>3, <1>5 DEF WordsInside
  <1>7. ASSUME Readable PROVE n = TailSize(built) /\ lo + 6 + n = hi
    <2>1. <<word, TailSize(built)>> \in Contents(built)
      BY <1>1, <1>7, <1>a, ReadableWords
    <2>2. n = TailSize(built)
      BY <1>1, <2>1, ValuesWritten
    <2> QED BY <1>7, <1>a, <2>2
  <1>8. CASE lo + 6 + n > hi
    <2>1. pc' = "refused" /\ lo' = lo /\ hi' = hi /\ order' = order
      BY <1>4, <1>8
    <2>2. ~Readable
      BY <1>1, <1>7, <1>8
    <2>3. ParserTypeOK'
      BY <1>1, <1>2, <1>3, <1>5, <2>1 DEF ParserTypeOK
    <2>4. ParserControl' /\ WordsInside' /\ OrderInv' /\ ReadingInv'
      BY <1>2, <1>5, <1>6, <2>1, <2>2 DEF ParserControl, WordsInside, OrderInv, ReadingInv
    <2> QED BY <1>5, <2>3, <2>4 DEF ParserInv
  <1>9. CASE ~(lo + 6 + n > hi)
    <2>1. /\ pc' = "auth" /\ order' = "report_then_signature"
          /\ lo' = lo + 6 /\ hi' = lo + 6 + n
      BY <1>4, <1>9
    <2>2. /\ lo' \in Nat /\ hi' \in Nat /\ hi' <= hi /\ lo' <= hi'
          /\ SignatureSize' = SignatureSize
      BY <1>1, <1>2, <1>5, <1>9, <2>1 DEF SignatureSize
    <2>3. ParserTypeOK'
      BY <1>1, <1>2, <1>3, <1>5, <2>1, <2>2 DEF ParserTypeOK
    <2>4. ParserControl'
      <3>1. /\ signed' \in {HeaderSize + TdxBody, HeaderSize + SgxBody}
            /\ <<signed', 4>> \in DOMAIN seen'
            /\ signed' + 4 + SignatureSize' <= QuoteLen(built)'
            /\ signed' + 4 + SigSize + KeySize <= lo'
            /\ hi' <= signed' + 4 + SignatureSize'
        BY <1>1, <1>2, <1>3, <1>5, <2>1, <2>2, Sizes
      <3> QED BY <2>1, <2>2, <3>1 DEF ParserControl
    <2>5. WordsInside'
      <3>1. \A w \in DOMAIN seen' \ {<<HeaderSize + TdxBody, 4>>} : w[1] < lo'
        <4>1. \A w \in DOMAIN seen \ {<<HeaderSize + TdxBody, 4>>} : w[1] + w[2] <= lo + 2
          BY <1>1 DEF WordsInside
        <4>2. \A w \in DOMAIN seen : w[1] \in Nat /\ w[2] \in Nat
          BY <1>1 DEF ParserTypeOK
        <4>3. word[1] = lo + 2
          OBVIOUS
        <4> QED BY <1>1, <1>5, <2>1, <4>1, <4>2, <4>3
      <3>2. \A w \in DOMAIN seen' : w[1] \in Nat
        BY <1>5
      <3> QED BY <1>6, <2>1, <2>2, <3>1, <3>2 DEF WordsInside
    <2>6. OrderInv'
      BY <2>1 DEF OrderInv
    <2>7. ReadingInv'
      <3> SUFFICES ASSUME Readable' PROVE ReadingInv'
        BY DEF ReadingInv
      <3>1. /\ built'.kind = "tdx" /\ signed' = SignedSize(built)'
            /\ lo' = Tail(built)' /\ hi' = QuoteLen(built)'
        BY <1>1, <1>3, <1>5, <1>7, <1>a, <2>1, SameQuote DEF ReadingInv
      <3> QED BY <2>1, <3>1 DEF ReadingInv
    <2> QED BY <1>5, <2>3, <2>4, <2>5, <2>6, <2>7 DEF ParserInv
  <1> QED BY <1>8, <1>9

\* What has been read stays read, so that a failure of the first order stands.
LEMMA FailureStands ==
    ASSUME FirstOrderFailed, lo' = lo, hi' = hi, DOMAIN seen \subseteq DOMAIN seen',
           \A w \in DOMAIN seen : seen'[w] = seen[w]
    PROVE  FirstOrderFailed'
  BY DEF FirstOrderFailed, AuthData, AuthLength

\* An order that does not fit.
LEMMA FailKeeps ==
    ASSUME ParserInv, pc \in {"auth", "cert"}, Fail, FirstOrderFailed', ~Readable',
           built' = built, signed' = signed, lo' = lo, hi' = hi, auth' = auth,
           DOMAIN seen \subseteq DOMAIN seen',
           \A w \in DOMAIN seen : seen'[w] = seen[w],
           DOMAIN seen' \subseteq Nat \X {2, 4}, \A w \in DOMAIN seen' : seen'[w] \in Nat,
           \A w \in DOMAIN seen' \ DOMAIN seen : w[1] + w[2] <= hi,
           ContentsInv'
    PROVE  ParserInv'
  <1>1. /\ ParserTypeOK /\ ParserControl /\ WordsInside /\ built \in Built
        /\ lo \in Nat /\ hi \in Nat /\ hi <= QuoteLen(built)
    BY DEF ParserInv, ParserTypeOK
  <1>2. /\ QuoteLen(built)' = QuoteLen(built) /\ QuoteLen(built) \in Nat
        /\ SignatureSize' = SignatureSize /\ <<signed, 4>> \in DOMAIN seen
    BY <1>1, SameQuote, QuoteLenType DEF SignatureSize, ParserControl
  <1>3. \/ pc' = "auth" /\ order' = "signature_then_report"
        \/ pc' = "refused" /\ order' = order
    BY DEF Fail
  <1>4. ParserTypeOK'
    BY <1>1, <1>2, <1>3 DEF ParserTypeOK
  <1>5. ParserControl'
    BY <1>1, <1>2, <1>3 DEF ParserControl
  <1>6. WordsInside'
    <2>1. \A w \in DOMAIN seen' : w[1] \in Nat /\ w[2] \in Nat
      OBVIOUS
    <2>2. \A w \in DOMAIN seen' : w[1] + w[2] <= QuoteLen(built)'
      BY <1>1, <1>2, <2>1 DEF WordsInside
    <2>3. \A w \in DOMAIN seen' \ {<<HeaderSize + TdxBody, 4>>} :
             w[1] >= lo' => w[1] + w[2] <= hi'
      BY <1>1 DEF WordsInside
    <2> QED BY <1>3, <2>2, <2>3 DEF WordsInside
  <1>7. OrderInv' /\ ReadingInv'
    BY DEF OrderInv, ReadingInv
  <1> QED BY <1>4, <1>5, <1>6, <1>7 DEF ParserInv

LEMMA ParseAuthDataInv == ParserInv /\ ParseAuthData => ParserInv'
  <1> SUFFICES ASSUME ParserInv, ParseAuthData PROVE ParserInv'
    OBVIOUS
  <1> DEFINE word == <<AuthLength, 2>>
  <1>1. /\ ParserTypeOK /\ ParserControl /\ WordsInside /\ OrderInv /\ ContentsInv /\ ReadingInv
        /\ built \in Built /\ built' = built /\ pc = "auth"
        /\ signed' = signed /\ lo' = lo /\ hi' = hi /\ lo \in Nat /\ hi \in Nat /\ auth \in Nat
        /\ hi <= QuoteLen(built)
        /\ DOMAIN seen \subseteq Nat \X {2, 4} /\ \A w \in DOMAIN seen : seen[w] \in Nat
    BY DEF ParseAuthData, ParserInv, ParserTypeOK
  <1>2. /\ QuoteLen(built)' = QuoteLen(built) /\ QuoteLen(built) \in Nat
        /\ AuthLength \in Nat /\ AuthData \in Nat /\ word \in Nat \X {2, 4}
        /\ AuthLength' = AuthLength /\ AuthData' = AuthData /\ AuthData = AuthLength + 2
    BY <1>1, SameQuote, QuoteLenType, Sizes DEF AuthLength, AuthData
  <1>a. ASSUME Readable
        PROVE  /\ <<word, built.auth>> \in Contents(built) /\ built.auth \in Nat
               /\ AuthData + built.auth + 6 <= hi
    <2>1. lo = Tail(built) /\ hi = QuoteLen(built)
      BY <1>1, <1>a DEF ReadingInv
    <2>2. built.kind # "raw" /\ <<word, built.auth>> \in Contents(built)
      BY <1>1, <1>a, <2>1, ReadableWords DEF AuthLength
    <2> QED BY <1>1, <2>1, <2>2, BuiltSizes, Sizes DEF AuthLength, AuthData
  <1>3. CASE hi < AuthData + 6
    <2>1. Fail /\ seen' = seen /\ auth' = auth
      BY <1>3 DEF ParseAuthData
    <2>2. ContentsInv' /\ (Readable' => Readable)
      BY <2>1, <1>1, ReadNone
    <2>3. ~Readable'
      BY <1>1, <1>2, <1>3, <1>a, <2>2
    <2>4. FirstOrderFailed'
      BY <1>1, <1>2, <1>3 DEF FirstOrderFailed
    <2> QED BY <1>1, <2>1, <2>2, <2>3, <2>4, FailKeeps
  <1>4. CASE ~(hi < AuthData + 6)
    <2>1. PICK n \in Values(word) :
             /\ seen' = Learned(seen, word, n)
             /\ IF AuthData + n + 6 > hi
                THEN Fail /\ UNCHANGED auth
                ELSE auth' = n /\ pc' = "cert" /\ UNCHANGED order
      BY <1>4 DEF ParseAuthData
    <2>2. /\ DOMAIN seen' = DOMAIN seen \cup {word} /\ seen'[word] = n /\ n \in Nat
          /\ \A w \in DOMAIN seen : seen'[w] = seen[w]
          /\ DOMAIN seen' \subseteq Nat \X {2, 4} /\ \A w \in DOMAIN seen' : seen'[w] \in Nat
          /\ ContentsInv' /\ (Readable' => Readable)
      BY <1>1, <1>2, <2>1, ReadOne
    <2>3. AuthLength + 2 <= hi
      BY <1>1, <1>2, <1>4
    <2>4. Readable => n = built.auth
      BY <1>1, <1>a, ValuesWritten
    <2>5. CASE AuthData + n + 6 > hi
      <3>1. Fail /\ auth' = auth
        BY <2>1, <2>5
      <3>2. ~Readable'
        BY <1>1, <1>2, <1>a, <2>2, <2>4, <2>5
      <3>3. FirstOrderFailed'
        BY <1>1, <1>2, <2>2, <2>5 DEF FirstOrderFailed
      <3>4. \A w \in DOMAIN seen' \ DOMAIN seen : w[1] + w[2] <= hi
        BY <2>2, <2>3
      <3> QED BY <1>1, <2>2, <3>1, <3>2, <3>3, <3>4, FailKeeps
    <2>6. CASE ~(AuthData + n + 6 > hi)
      <3>1. auth' = n /\ pc' = "cert" /\ order' = order
        BY <2>1, <2>6
      <3>2. ParserTypeOK'
        BY <1>1, <1>2, <2>2, <3>1 DEF ParserTypeOK
      <3>3. ParserControl'
        <4>1. SignatureSize' = SignatureSize
          BY <1>1, <2>2 DEF SignatureSize, ParserControl
        <4>2. CertHeader' + 6 <= hi'
          BY <1>1, <1>2, <2>2, <2>6, <3>1 DEF CertHeader
        <4>3. <<AuthLength', 2>> \in DOMAIN seen' /\ auth' = seen'[<<AuthLength', 2>>]
          BY <1>2, <2>2, <3>1
        <4> QED BY <1>1, <1>2, <2>2, <3>1, <4>1, <4>2, <4>3 DEF ParserControl
      <3>4. WordsInside'
        <4>1. \A w \in DOMAIN seen' : w[1] \in Nat /\ w[2] \in Nat
          BY <2>2
        <4>2. \A w \in DOMAIN seen' : w[1] + w[2] <= QuoteLen(built)'
          BY <1>1, <1>2, <2>2, <2>3 DEF WordsInside
        <4>3. \A w \in DOMAIN seen' \ {<<HeaderSize + TdxBody, 4>>} :
                 w[1] >= lo' => w[1] + w[2] <= hi'
          BY <1>1, <2>2, <2>3 DEF WordsInside
        <4> QED BY <3>1, <4>2, <4>3 DEF WordsInside
      <3>5. OrderInv'
        BY <1>1, <2>2, <3>1, FailureStands DEF OrderInv
      <3>6. ReadingInv'
        <4> SUFFICES ASSUME Readable' PROVE ReadingInv'
          BY DEF ReadingInv
        <4> QED BY <1>1, <2>2, <3>1, SameQuote DEF ReadingInv
      <3> QED BY <2>2, <3>2, <3>3, <3>4, <3>5, <3>6 DEF ParserInv
    <2> QED BY <2>5, <2>6
  <1> QED BY <1>3, <1>4

LEMMA ParseCertDataInv == ParserInv /\ ParseCertData => ParserInv'
  <1> SUFFICES ASSUME ParserInv, ParseCertData PROVE ParserInv'
    OBVIOUS
  <1> DEFINE typeWord == <<CertHeader, 2>>
             sizeWord == <<CertHeader + 2, 4>>
  <1>1. /\ ParserTypeOK /\ ParserControl /\ WordsInside /\ OrderInv /\ ContentsInv /\ ReadingInv
        /\ built \in Built /\ built' = built /\ pc = "cert" /\ auth' = auth
        /\ signed' = signed /\ lo' = lo /\ hi' = hi /\ lo \in Nat /\ hi \in Nat /\ auth \in Nat
        /\ hi <= QuoteLen(built)
        /\ DOMAIN seen \subseteq Nat \X {2, 4} /\ \A w \in DOMAIN seen : seen[w] \in Nat
    BY DEF ParseCertData, ParserInv, ParserTypeOK
  <1>2. /\ QuoteLen(built)' = QuoteLen(built) /\ QuoteLen(built) \in Nat
        /\ AuthLength \in Nat /\ AuthData \in Nat /\ CertHeader \in Nat
        /\ AuthLength' = AuthLength /\ AuthData' = AuthData /\ AuthData = AuthLength + 2
        /\ CertHeader' = CertHeader /\ CertData' = CertData
        /\ CertHeader = AuthData + auth /\ CertData = CertHeader + 6
        /\ typeWord \in Nat \X {2, 4} /\ sizeWord \in Nat \X {2, 4} /\ typeWord # sizeWord
    BY <1>1, SameQuote, QuoteLenType, Sizes DEF AuthLength, AuthData, CertHeader, CertData
  <1>3. /\ <<AuthLength, 2>> \in DOMAIN seen /\ auth = seen[<<AuthLength, 2>>]
        /\ CertHeader + 6 <= hi /\ order # "none"
        /\ <<signed, 4>> \in DOMAIN seen
    BY <1>1 DEF ParserControl
  <1>4. PICK type \in Values(typeWord), n \in Values(sizeWord) :
          /\ seen' = Learned(Learned(seen, typeWord, type), sizeWord, n)
          /\ IF CertData + n > hi \/ (order # "sgx_style" /\ type # certTypePCKCertChain)
             THEN Fail
             ELSE pc' = "parsed" /\ UNCHANGED order
    BY DEF ParseCertData
  <1>5. /\ DOMAIN seen' = DOMAIN seen \cup {typeWord, sizeWord}
        /\ seen'[typeWord] = type /\ seen'[sizeWord] = n
        /\ \A w \in DOMAIN seen : seen'[w] = seen[w]
    <2>1. /\ typeWord \in DOMAIN seen => type = seen[typeWord]
          /\ sizeWord \in DOMAIN seen => n = seen[sizeWord]
      BY ValuesKnown
    <2> QED BY <1>2, <1>4, <2>1 DEF Learned
  <1>6. /\ DOMAIN seen' \subseteq Nat \X {2, 4} /\ \A w \in DOMAIN seen' : seen'[w] \in Nat
        /\ ContentsInv' /\ (Readable' => Readable)
    BY <1>1, <1>2, <1>5, ReadingKeeps
  <1>7. \A w \in DOMAIN seen' \ DOMAIN seen : w[1] + w[2] <= hi
    <2>1. CertHeader + 2 <= hi /\ CertHeader + 2 + 4 <= hi
      BY <1>1, <1>2, <1>3
    <2> QED BY <1>5, <2>1
  <1>8. n \in Nat
    BY <1>5, <1>6
  <1>a. ASSUME Readable
        PROVE  type = certTypePCKCertChain /\ CertData + n = hi
    <2>1. lo = Tail(built) /\ hi = QuoteLen(built) /\ built.kind # "raw"
      BY <1>1, <1>a, ReadableWords DEF ReadingInv
    <2>2. <<<<AuthLength, 2>>, built.auth>> \in Contents(built)
      BY <1>1, <1>a, <2>1, ReadableWords DEF AuthLength
    <2>3. auth = built.auth
      BY <1>3, <1>1, <2>2 DEF ContentsInv
    <2>4. CertHeader = InnerHeader(built)
      BY <1>1, <2>1, <2>3, BuiltSizes, Sizes DEF CertHeader, AuthData, AuthLength
    <2>5. /\ <<typeWord, certTypePCKCertChain>> \in Contents(built)
          /\ <<sizeWord, built.chain>> \in Contents(built)
      BY <1>1, <1>a, <2>4, ReadableWords
    <2>6. type = certTypePCKCertChain /\ n = built.chain
      BY <1>1, <2>5, ValuesWritten
    <2> QED BY <1>1, <1>2, <2>1, <2>4, <2>6, BuiltSizes
  <1>9. CASE CertData + n > hi \/ (order # "sgx_style" /\ type # certTypePCKCertChain)
    <2>1. Fail
      BY <1>4, <1>9
    <2>2. ~Readable'
      BY <1>1, <1>6, <1>9, <1>a
    <2>3. FirstOrderFailed'
      BY <1>1, <1>2, <1>3, <1>5, <1>9 DEF FirstOrderFailed
    <2> QED BY <1>1, <1>5, <1>6, <1>7, <2>1, <2>2, <2>3, FailKeeps
  <1>10. CASE ~(CertData + n > hi \/ (order # "sgx_style" /\ type # certTypePCKCertChain))
    <2>1. /\ pc' = "parsed" /\ order' = order /\ CertData + n <= hi
          /\ order # "sgx_style" => type = certTypePCKCertChain
      BY <1>1, <1>2, <1>4, <1>8, <1>10
    <2>2. ParserTypeOK'
      BY <1>1, <1>2, <1>6, <2>1 DEF ParserTypeOK
    <2>3. ParserControl'
      <3>1. SignatureSize' = SignatureSize
        BY <1>1, <1>3, <1>5 DEF SignatureSize
      <3>2. /\ signed \in {HeaderSize + TdxBody, HeaderSize + SgxBody}
            /\ signed + 4 + SignatureSize <= QuoteLen(built)
            /\ signed + 4 + SigSize + KeySize <= lo /\ lo <= hi
            /\ hi <= signed + 4 + SignatureSize
        BY <1>1 DEF ParserControl
      <3>3. <<AuthLength, 2>> \in DOMAIN seen' /\ auth = seen'[<<AuthLength, 2>>]
        BY <1>3, <1>5
      <3> QED BY <1>1, <1>2, <1>3, <1>5, <2>1, <3>1, <3>2, <3>3 DEF ParserControl
    <2>4. WordsInside'
      <3>1. \A w \in DOMAIN seen' : w[1] \in Nat /\ w[2] \in Nat
        BY <1>6
      <3>2. \A w \in DOMAIN seen' : w[1] + w[2] <= QuoteLen(built)'
        BY <1>1, <1>2, <1>7, <3>1 DEF WordsInside
      <3>3. \A w \in DOMAIN seen' \ {<<HeaderSize + TdxBody, 4>>} :
               w[1] >= lo' => w[1] + w[2] <= hi'
        BY <1>1, <1>7 DEF WordsInside
      <3> QED BY <2>1, <3>2, <3>3 DEF WordsInside
    <2>5. OrderInv'
      BY <1>1, <1>5, <2>1, FailureStands DEF OrderInv
    <2>6. ReadingInv'
      <3> SUFFICES ASSUME Readable' PROVE ReadingInv'
        BY DEF ReadingInv
      <3> QED BY <1>1, <1>6, <2>1, SameQuote DEF ReadingInv
    <2> QED BY <1>6, <2>2, <2>3, <2>4, <2>5, <2>6 DEF ParserInv
  <1> QED BY <1>9, <1>10

\* Every step keeps the invariant.
LEMMA NextInv == ParserInv /\ [Next]_vars => ParserInv'
  <1> SUFFICES ASSUME ParserInv, [Next]_vars PROVE ParserInv'
    OBVIOUS
  <1>1. CASE Next
    BY <1>1, BeginInv, InferTDXInv, InferSGXInv, ParseSignatureDataInv, ParseOuterInv,
       ParseAuthDataInv, ParseCertDataInv DEF Next
  <1>2. CASE UNCHANGED vars
    BY <1>2 DEF vars, ParserInv, ParserTypeOK, ParserControl, WordsInside, OrderInv,
       FirstOrderFailed, ContentsInv, ReadingInv, Readable, Unmistakable, OkSignatureDataLength,
       SignatureSize, AuthLength, AuthData, CertHeader, CertData, QuoteLen, SignedSize,
       SignatureDataSize, TailSize, Tail, AfterKey, InnerHeader, Contents
  <1> QED BY <1>1, <1>2

LEMMA ParserInvariant == Spec => []ParserInv
  BY InitInv, NextInv, PTL DEF Spec
-----------------------------------------------------------------------------
(* What the parser promises *)

\* The parser's variables keep their types, for quotes and words of any size
\* (parseQuote, quote.go:63-108).
THEOREM ParserTypeCorrect == Spec => []ParserTypeOK
  <1>1. ParserInv => ParserTypeOK
    BY DEF ParserInv
  <1> QED BY <1>1, ParserInvariant, PTL

\* Whatever lengths a quote gives, no piece is taken and no word is read
\* outside the piece it belongs to (quote.go:164-288).
THEOREM SlicesAreNested == Spec => []SlicesNested
  <1>1. ParserInv => SlicesNested
    BY DEF ParserInv, ParserControl, WordsInside, SlicesNested, SignatureSize
  <1> QED BY <1>1, ParserInvariant, PTL

\* The second of the two orders that parseQEReportCertificationDataAuto tries
\* never succeeds (quote.go:192-203).
THEOREM OneOrderOnly == Spec => []SecondOrderNeverParses
  <1>1. ParserInv => SecondOrderNeverParses
    <2> SUFFICES ASSUME ParserInv, order = "signature_then_report", pc = "parsed" PROVE FALSE
      BY DEF SecondOrderNeverParses
    <2>1. FirstOrderFailed /\ ParserControl /\ ParserTypeOK
      BY DEF ParserInv, OrderInv
    <2>2. /\ AuthData \in Nat /\ CertHeader = AuthData + auth /\ CertData = CertHeader + 6
          /\ hi \in Nat /\ auth \in Nat
      BY <2>1, Sizes DEF AuthData, AuthLength, CertHeader, CertData, ParserTypeOK
    <2>3. /\ <<AuthLength, 2>> \in DOMAIN seen /\ auth = seen[<<AuthLength, 2>>]
          /\ CertHeader + 6 <= hi
          /\ <<CertHeader, 2>> \in DOMAIN seen /\ <<CertHeader + 2, 4>> \in DOMAIN seen
          /\ CertData + seen[<<CertHeader + 2, 4>>] <= hi
          /\ seen[<<CertHeader, 2>>] = certTypePCKCertChain
      BY <2>1 DEF ParserControl
    <2>4. seen[<<CertHeader + 2, 4>>] \in Nat
      BY <2>1, <2>3 DEF ParserTypeOK
    <2> QED BY <2>1, <2>2, <2>3, <2>4 DEF FirstOrderFailed
  <1> QED BY <1>1, ParserInvariant, PTL

\* A quote that was built with the layout of a TDX quote is never refused, and
\* its pieces are those it was built from; so is an SGX quote that cannot be
\* mistaken (quote.go:63-108, synthetic_quote.go:197-214).
THEOREM RoundTrip == Spec => []ReadsWhatWasWritten
  <1>1. ParserInv => ReadsWhatWasWritten
    <2> SUFFICES ASSUME ParserInv, pc \in {"parsed", "refused"}, Readable
                 PROVE  ReadsWhatWasWritten
      BY DEF ReadsWhatWasWritten, Readable
    <2>1. /\ built \in Built /\ ParserControl /\ ContentsInv /\ ReadingInv /\ built.kind # "raw"
      BY ReadableWords DEF ParserInv, ParserTypeOK
    <2>2. /\ pc = "parsed" /\ signed = SignedSize(built)
          /\ lo = Tail(built) /\ hi = QuoteLen(built)
          /\ order = IF built.kind = "tdx" THEN "report_then_signature" ELSE "sgx_style"
      BY <2>1 DEF ReadingInv
    <2>3. auth = built.auth
      <3>1. <<<<AuthLength, 2>>, built.auth>> \in Contents(built)
        BY <2>1, <2>2, ReadableWords DEF AuthLength
      <3> QED BY <2>1, <2>2, <3>1 DEF ParserControl, ContentsInv
    <2>4. CertHeader = InnerHeader(built)
      BY <2>1, <2>2, <2>3, BuiltSizes, Sizes DEF CertHeader, AuthData, AuthLength
    <2>5. CertData + built.chain = QuoteLen(built)
      BY <2>1, <2>4, BuiltSizes DEF CertData
    <2>6. seen[<<CertHeader + 2, 4>>] = built.chain
      <3>1. <<<<CertHeader + 2, 4>>, built.chain>> \in Contents(built)
        BY <2>1, <2>4, ReadableWords
      <3> QED BY <2>1, <2>2, <3>1 DEF ParserControl, ContentsInv
    <2> QED BY <2>2, <2>3, <2>5, <2>6 DEF ReadsWhatWasWritten
  <1> QED BY <1>1, ParserInvariant, PTL
=============================================================================
