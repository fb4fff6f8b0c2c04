------------------------ MODULE SyntheticFiles_proofs ------------------------
(***************************************************************************)
(* Proofs about module SyntheticFiles, for any number of processes,        *)
(* commands and files.                                                     *)
(***************************************************************************)
EXTENDS SyntheticFiles, FiniteSetTheorems, TLAPS

\* What is generated has the types the files are declared with.
LEMMA CertTyped ==
    ASSUME NEW key \in Key, NEW signer \in Key, NEW ca \in BOOLEAN, NEW serial \in Nat,
           NEW t \in Nat, Skew < t, NEW life \in Nat
    PROVE  SyntheticCert(key, signer, ca, serial, t, life) \in Cert
  <1>1. t - Skew \in Nat /\ t + life \in Nat
    BY LifeAssumption
  <1> QED BY <1>1 DEF SyntheticCert, Cert

LEMMA KeyTyped ==
    ASSUME NEW n \in Nat
    PROVE  /\ KeyOf(n, "root") \in Key /\ KeyOf(n, "intermediate") \in Key
           /\ KeyOf(n, "pck") \in Key
  BY DEF KeyOf, Key

LEMMA RootTyped ==
    ASSUME NEW n \in Nat, NEW t \in Nat, Skew < t
    PROVE  RootCert(n, t) \in Cert
  BY CertTyped, KeyTyped, LifeAssumption DEF RootCert

LEMMA QuoteTyped ==
    ASSUME NEW n \in Nat, NEW t \in Nat, Skew < t, NEW rootKey \in Key
    PROVE  Quote(n, t, rootKey) \in SyntheticQuote
  <1>1. PCKCert(n, t) \in Cert
    BY CertTyped, KeyTyped, LifeAssumption DEF PCKCert
  <1>2. IntermediateCert(n, t, rootKey) \in Cert
    BY CertTyped, KeyTyped, LifeAssumption DEF IntermediateCert
  <1> QED BY <1>1, <1>2, KeyTyped DEF Quote, SyntheticQuote

OutputRecord == [path : Path, content : Content]

LEMMA ChainOutputTyped ==
    ASSUME NEW c \in Command, c.op \in {"synthesize", "synthetic-quote"},
           NEW quote \in SyntheticQuote
    PROVE  ChainOutput(c, quote) \in Seq(OutputRecord)
  <1>1. ChainFile(quote.certs) \in Content
    BY DEF ChainFile, Content, SyntheticQuote
  <1>2. CASE c.chain = NoPath
    BY <1>2 DEF ChainOutput
  <1>3. CASE c.chain # NoPath
    <2>1. c.chain \in Path
      BY <1>3, CommandAssumption
    <2>2. Output(c.chain, ChainFile(quote.certs)) \in OutputRecord
      BY <1>1, <2>1 DEF Output, OutputRecord
    <2>3. <<Output(c.chain, ChainFile(quote.certs))>> \in Seq(OutputRecord)
      BY <2>2
    <2> QED BY <1>3, <2>3 DEF ChainOutput
  <1> QED BY <1>2, <1>3

LEMMA OutputsTyped ==
    ASSUME NEW c \in Command, NEW n \in Nat, NEW t \in Nat, Skew < t, NEW rootKey \in Key
    PROVE  /\ c.op = "synthesize" => SynthesizeOutputs(c, n, t) \in Seq(OutputRecord)
           /\ c.op = "synthetic-root" => RootOutputs(c, n, t) \in Seq(OutputRecord)
           /\ c.op = "synthetic-quote" => QuoteOutputs(c, n, t, rootKey) \in Seq(OutputRecord)
  <1>1. RootFile(RootCert(n, t)) \in Content /\ KeyFile(KeyOf(n, "root")) \in Content
    BY RootTyped, KeyTyped DEF RootFile, KeyFile, Content
  <1>2. ASSUME NEW k \in Key
        PROVE  QuoteFile(Quote(n, t, k)) \in Content
    BY QuoteTyped DEF QuoteFile, Content
  <1>3. ASSUME c.op = "synthesize" PROVE SynthesizeOutputs(c, n, t) \in Seq(OutputRecord)
    <2> DEFINE quote == Quote(n, t, KeyOf(n, "root"))
    <2>1. quote \in SyntheticQuote
      BY QuoteTyped, KeyTyped
    <2>2. ChainOutput(c, quote) \in Seq(OutputRecord)
      BY <1>3, <2>1, ChainOutputTyped
    <2>3. <<Output(c.quote, QuoteFile(quote)), Output(c.root, RootFile(RootCert(n, t)))>>
             \in Seq(OutputRecord)
      BY <1>1, <1>2, <1>3, KeyTyped, CommandAssumption DEF Output, OutputRecord
    <2> HIDE DEF quote
    <2> QED BY <2>2, <2>3 DEF SynthesizeOutputs, quote
  <1>4. ASSUME c.op = "synthetic-root" PROVE RootOutputs(c, n, t) \in Seq(OutputRecord)
    BY <1>1, <1>4, CommandAssumption DEF RootOutputs, Output, OutputRecord
  <1>5. ASSUME c.op = "synthetic-quote" PROVE QuoteOutputs(c, n, t, rootKey) \in Seq(OutputRecord)
    <2> DEFINE quote == Quote(n, t, rootKey)
    <2>1. quote \in SyntheticQuote
      BY QuoteTyped
    <2>2. ChainOutput(c, quote) \in Seq(OutputRecord)
      BY <1>5, <2>1, ChainOutputTyped
    <2>3. <<Output(c.quote, QuoteFile(quote))>> \in Seq(OutputRecord)
      BY <1>2, <1>5, CommandAssumption DEF Output, OutputRecord
    <2> HIDE DEF quote
    <2> QED BY <2>2, <2>3 DEF QuoteOutputs, quote
  <1> QED BY <1>3, <1>4, <1>5

LEMMA ContentParts ==
    ASSUME NEW content \in Content
    PROVE  /\ content.kind = "key" => content.key \in Key
           /\ content.kind = "cert" => content.cert \in Cert
           /\ content.kind = "quote" => content.quote \in SyntheticQuote
           /\ content.kind = "chain" => content.certs \in Cert \X Cert
  BY DEF Content, Missing, Torn

LEMMA ParsedCertTyped ==
    ASSUME NEW content \in Content, ParsesAsCert(content)
    PROVE  ParseOneCert(content) \in Cert
  <1>1. CASE content.kind = "cert"
    BY <1>1, ContentParts DEF ParseOneCert
  <1>2. CASE content.kind = "chain"
    BY <1>2, ContentParts DEF ParseOneCert
  <1>3. CASE content.kind = "quote"
    BY <1>3, ContentParts DEF ParseOneCert, SyntheticQuote
  <1> QED BY <1>1, <1>2, <1>3 DEF ParsesAsCert
----------------------------------------------------------------------------
(* Where a command is, and what it has read by then *)

Reading == {"readKey", "readQuote", "readRoot", "generate", "verify"}

PlaceOK(p) ==
    /\ pc[p] \notin {"ready"} \cup Ended => cmd[p] \in Command
    /\ pc[p] \in {"readKey", "generate"} => cmd[p].op = "synthetic-quote"
    /\ pc[p] \in {"readQuote", "verify"} => cmd[p].op = "verify"
    /\ pc[p] = "readRoot" => cmd[p].op \in {"synthetic-quote", "verify"}
    /\ pc[p] \in {"readRoot", "generate"} /\ cmd[p].op = "synthetic-quote" => read[p].key \in Key
    /\ pc[p] = "generate" => read[p].root \in Cert
    /\ pc[p] \in Reading => outputs[p] = <<>> /\ done[p] = 0
    /\ done[p] <= Len(outputs[p])

TypeInv == SyntheticTypeOK /\ \A p \in Process : PlaceOK(p)

LEMMA TypeInit == Init => TypeInv
  <1> SUFFICES ASSUME Init PROVE TypeInv
    OBVIOUS
  <1> USE DEF Init
  <1>1. SyntheticTypeOK
    <2>1. now \in FirstTime..LastTime /\ begun \in 0..MaxCommands
      BY LifeAssumption
    <2>2. outputs \in [Process -> Seq([path : Path, content : Content])]
      OBVIOUS
    <2>3. /\ read \in [Process -> [key : Key \cup {Unread}, root : Cert \cup {Unread},
                                  quote : Content \cup {Unread}]]
          /\ began \in [Process -> Nat] /\ done \in [Process -> Nat]
          /\ cmd \in [Process -> Command \cup {NoCommand}]
      BY DEF NothingRead, ZeroTime
    <2>4. /\ files \in [Path -> Content] /\ before \in [Path -> Content]
          /\ generations \in Seq(Generation)
      BY FilesAssumption
    <2>5. /\ pc \in [Process -> {"ready", "readKey", "readQuote", "readRoot", "generate",
                                "verify", "open", "fill"} \cup Ended]
          /\ \A p \in Process : pc[p] = "ready"
      OBVIOUS
    <2> QED BY <2>1, <2>2, <2>3, <2>4, <2>5 DEF SyntheticTypeOK
  <1>2. \A p \in Process : PlaceOK(p)
    BY DEF PlaceOK, Reading, Ended
  <1> QED BY <1>1, <1>2 DEF TypeInv

\* A command starts with outputs of the right type, or with none.
LEMMA StartTyped ==
    ASSUME TypeInv, NEW p \in Process, NEW c \in Command,
           NEW place \in {"open", "readKey", "readQuote"}, NEW what \in Seq(OutputRecord),
           place = "open" => 0 < Len(what),
           place = "readKey" => c.op = "synthetic-quote" /\ what = <<>>,
           place = "readQuote" => c.op = "verify" /\ what = <<>>,
           Start(p, c, place, what), generations' \in Seq(Generation)
    PROVE  TypeInv'
  <1>1. /\ files' \in [Path -> Content] /\ before' \in [Path -> Content]
        /\ now' \in FirstTime..LastTime /\ begun' \in 0..MaxCommands
    BY LifeAssumption DEF Start, TypeInv, SyntheticTypeOK
  <1>2. pc' \in [Process -> {"ready", "readKey", "readQuote", "readRoot", "generate", "verify",
                             "open", "fill"} \cup Ended]
    BY DEF Start, TypeInv, SyntheticTypeOK
  <1>3. cmd' \in [Process -> Command \cup {NoCommand}]
    BY DEF Start, TypeInv, SyntheticTypeOK
  <1>4. read' \in [Process -> [key : Key \cup {Unread}, root : Cert \cup {Unread},
                               quote : Content \cup {Unread}]]
    BY DEF Start, TypeInv, SyntheticTypeOK, NothingRead
  <1>5. VerifyTime(c) \in Nat
    BY CommandAssumption, LifeAssumption DEF VerifyTime, ZeroTime, TypeInv, SyntheticTypeOK
  <1>6. began' \in [Process -> Nat]
    BY <1>5 DEF Start, TypeInv, SyntheticTypeOK, ZeroTime
  <1>7. outputs' \in [Process -> Seq([path : Path, content : Content])]
    <2>1. ASSUME NEW q \in Process
          PROVE  (IF q = p THEN what ELSE IF Active(q) THEN outputs[q] ELSE <<>>)
                   \in Seq(OutputRecord)
      <3>1. outputs[q] \in Seq(OutputRecord)
        BY DEF TypeInv, SyntheticTypeOK, OutputRecord
      <3>2. <<>> \in Seq(OutputRecord)
        OBVIOUS
      <3> HIDE DEF OutputRecord
      <3> QED BY <3>1, <3>2
    <2>2. outputs' = [q \in Process |->
                        IF q = p THEN what ELSE IF Active(q) THEN outputs[q] ELSE <<>>]
      BY DEF Start
    <2> QED BY <2>1, <2>2 DEF OutputRecord
  <1>8. done' \in [Process -> Nat]
    BY DEF Start, TypeInv, SyntheticTypeOK
  <1>9. sole' \in Process \cup {Nobody}
    BY DEF Start
  <1>10. ASSUME NEW q \in Process
         PROVE  /\ pc'[q] \in {"open", "fill"} => done'[q] < Len(outputs'[q])
                /\ PlaceOK(q)'
    <2>1. CASE q = p
      <3>1. /\ pc'[p] = place /\ cmd'[p] = c /\ outputs'[p] = what /\ done'[p] = 0
            /\ read'[p] = NothingRead
        BY DEF Start
      <3> QED BY <2>1, <3>1 DEF PlaceOK, Reading, Ended
    <2>2. CASE q # p /\ Active(q)
      <3>1. /\ pc'[q] = pc[q] /\ cmd'[q] = cmd[q] /\ outputs'[q] = outputs[q]
            /\ done'[q] = done[q] /\ read'[q] = read[q]
        BY <2>2 DEF Start
      <3> QED BY <2>2, <3>1 DEF PlaceOK, TypeInv, SyntheticTypeOK
    <2>3. CASE q # p /\ ~Active(q)
      <3>1. pc'[q] = "ready" /\ outputs'[q] = <<>> /\ done'[q] = 0
        BY <2>3 DEF Start
      <3> QED BY <3>1 DEF PlaceOK, Reading
    <2> QED BY <2>1, <2>2, <2>3
  <1> QED BY <1>1, <1>2, <1>3, <1>4, <1>6, <1>7, <1>8, <1>9, <1>10 DEF TypeInv, SyntheticTypeOK

\* A step of a command that leaves the outputs of all commands alone.
LEMMA StepTyped ==
    ASSUME TypeInv, NEW p \in Process, NEW place, Active(p),
           place \in {"readRoot", "generate", "verify", "open", "fill"} \cup Ended, To(p, place),
           files' \in [Path -> Content], generations' \in Seq(Generation),
           read' \in [Process -> [key : Key \cup {Unread}, root : Cert \cup {Unread},
                                  quote : Content \cup {Unread}]],
           outputs' \in [Process -> Seq([path : Path, content : Content])],
           done' \in [Process -> Nat], Elsewhere,
           \A q \in Process \ {p} :
              read'[q] = read[q] /\ outputs'[q] = outputs[q] /\ done'[q] = done[q],
           place \in {"open", "fill"} => done'[p] < Len(outputs'[p]),
           PlaceOK(p)'
    PROVE  TypeInv'
  <1>1. pc' \in [Process -> {"ready", "readKey", "readQuote", "readRoot", "generate", "verify",
                             "open", "fill"} \cup Ended]
    BY DEF TypeInv, SyntheticTypeOK, To
  <1>2. /\ now' = now /\ begun' = begun /\ cmd' = cmd /\ began' = began /\ sole' = sole
        /\ before' = before
    BY DEF Elsewhere
  <1>3. pc'[p] = place /\ \A q \in Process \ {p} : pc'[q] = pc[q]
    BY DEF TypeInv, SyntheticTypeOK, To
  <1>4. ASSUME NEW q \in Process, q # p
        PROVE  /\ pc'[q] \in {"open", "fill"} => done'[q] < Len(outputs'[q])
               /\ PlaceOK(q)'
    BY <1>2, <1>3, <1>4 DEF PlaceOK, TypeInv, SyntheticTypeOK
  <1> QED BY <1>1, <1>2, <1>3, <1>4 DEF TypeInv, SyntheticTypeOK

ReadType == [key : Key \cup {Unread}, root : Cert \cup {Unread}, quote : Content \cup {Unread}]

\* The four ways a command starts.
LEMMA StartActionsTyped ==
    ASSUME TypeInv, NEW p \in Process, NEW c \in Command,
           Synthesize(p, c) \/ GenerateRoot(p, c) \/ BeginQuote(p, c) \/ BeginVerify(p, c)
    PROVE  TypeInv'
  <1>1. /\ NextGeneration \in Nat /\ now \in Nat /\ Skew < now /\ generations \in Seq(Generation)
        /\ KeyOf(NextGeneration, "root") \in Key
    BY KeyTyped, LifeAssumption DEF TypeInv, SyntheticTypeOK, NextGeneration
  <1>2. ASSUME Generate(KeyOf(NextGeneration, "root"))
        PROVE  generations' \in Seq(Generation)
    BY <1>1, <1>2 DEF Generate, Generation
  <1>3. CASE Synthesize(p, c)
    <2>1. SynthesizeOutputs(c, NextGeneration, now) \in Seq(OutputRecord)
      BY <1>1, <1>3, OutputsTyped DEF Synthesize
    <2>2. 0 < Len(SynthesizeOutputs(c, NextGeneration, now))
      BY DEF SynthesizeOutputs, ChainOutput
    <2>3. Start(p, c, "open", SynthesizeOutputs(c, NextGeneration, now))
      BY <1>3 DEF Synthesize
    <2> QED BY <1>2, <1>3, <2>1, <2>2, <2>3, StartTyped DEF Synthesize
  <1>4. CASE GenerateRoot(p, c)
    <2>1. RootOutputs(c, NextGeneration, now) \in Seq(OutputRecord)
      BY <1>1, <1>4, OutputsTyped DEF GenerateRoot
    <2>2. 0 < Len(RootOutputs(c, NextGeneration, now))
      BY DEF RootOutputs
    <2>3. Start(p, c, "open", RootOutputs(c, NextGeneration, now))
      BY <1>4 DEF GenerateRoot
    <2> QED BY <1>2, <1>4, <2>1, <2>2, <2>3, StartTyped DEF GenerateRoot
  <1>5. <<>> \in Seq(OutputRecord)
    OBVIOUS
  <1>6. CASE BeginQuote(p, c)
    BY <1>1, <1>5, <1>6, StartTyped DEF BeginQuote
  <1>7. CASE BeginVerify(p, c)
    BY <1>1, <1>5, <1>7, StartTyped DEF BeginVerify
  <1> QED BY <1>3, <1>4, <1>6, <1>7

\* The steps that only read or decide.
LEMMA ReadingTyped ==
    ASSUME TypeInv, NEW p \in Process, NEW place, pc[p] \in Reading, To(p, place),
           place \in {"readRoot", "generate", "verify"} \cup Ended,
           UNCHANGED <<files, outputs, done, generations>>, Elsewhere,
           NEW mine \in ReadType, read' = [read EXCEPT ![p] = mine],
           place = "readRoot" => cmd[p].op \in {"synthetic-quote", "verify"},
           place = "generate" => cmd[p].op = "synthetic-quote" /\ mine.root \in Cert,
           place = "verify" => cmd[p].op = "verify",
           place \in {"readRoot", "generate"} /\ cmd[p].op = "synthetic-quote" => mine.key \in Key
    PROVE  TypeInv'
  <1>1. PlaceOK(p)
    BY DEF TypeInv
  <1>2. /\ pc'[p] = place /\ read'[p] = mine /\ cmd' = cmd /\ outputs' = outputs /\ done' = done
        /\ \A q \in Process \ {p} : read'[q] = read[q]
    BY DEF TypeInv, SyntheticTypeOK, To, Elsewhere
  <1>3. cmd[p] \in Command
    BY <1>1 DEF PlaceOK, Reading, Ended
  <1>4. PlaceOK(p)'
    BY <1>1, <1>2, <1>3 DEF PlaceOK, Ended, Reading
  <1>5. read' \in [Process -> ReadType]
    BY DEF TypeInv, SyntheticTypeOK, ReadType
  <1>6. Active(p)
    BY DEF Reading, Active, Ended
  <1>7. /\ files' \in [Path -> Content] /\ generations' \in Seq(Generation)
        /\ outputs' \in [Process -> Seq([path : Path, content : Content])]
        /\ done' \in [Process -> Nat]
    BY DEF TypeInv, SyntheticTypeOK
  <1>8. place \notin {"open", "fill"}
    BY DEF Ended
  <1> QED BY <1>2, <1>4, <1>5, <1>6, <1>7, <1>8, StepTyped DEF ReadType

\* There is a next output while there are outputs to write.
LEMMA NextOutputTyped ==
    ASSUME SyntheticTypeOK, NEW p \in Process, done[p] < Len(outputs[p])
    PROVE  /\ done[p] + 1 \in 1..Len(outputs[p])
           /\ NextOutput(p) \in OutputRecord
  <1> DEFINE what == outputs[p]
  <1>1. what \in Seq(OutputRecord) /\ done[p] \in Nat
    BY DEF SyntheticTypeOK, OutputRecord
  <1> HIDE DEF what
  <1>2. Len(what) \in Nat
    BY <1>1
  <1>3. done[p] + 1 \in 1..Len(what)
    BY <1>1, <1>2 DEF what
  <1>4. what[done[p] + 1] \in OutputRecord
    BY <1>1, <1>3
  <1> QED BY <1>3, <1>4 DEF NextOutput, what

LEMMA StepActionsTyped ==
    ASSUME TypeInv, NEW p \in Process, Step(p)
    PROVE  TypeInv'
  <1>1. PlaceOK(p) /\ read[p] \in ReadType /\ read = [read EXCEPT ![p] = read[p]]
    BY DEF TypeInv, SyntheticTypeOK, ReadType
  <1>2. pc[p] \notin {"ready"} \cup Ended => cmd[p] \in Command
    BY <1>1 DEF PlaceOK
  <1>3. CASE ReadKey(p)
    <2> DEFINE content == files[cmd[p].key]
    <2>1. pc[p] = "readKey" /\ cmd[p] \in Command /\ cmd[p].op = "synthetic-quote"
      BY <1>1, <1>3 DEF ReadKey, PlaceOK, Ended
    <2>2. content \in Content
      BY <2>1, CommandAssumption DEF TypeInv, SyntheticTypeOK
    <2>3. CASE ParsesAsKey(content)
      <3> DEFINE mine == [read[p] EXCEPT !.key = content.key]
      <3>1. content.key \in Key
        BY <2>2, <2>3, ContentParts DEF ParsesAsKey
      <3>2. mine \in ReadType /\ mine.key \in Key
        BY <1>1, <3>1 DEF ReadType
      <3>3. read' = [read EXCEPT ![p] = mine] /\ To(p, "readRoot")
        BY <1>3, <2>3 DEF ReadKey
      <3> HIDE DEF mine
      <3> QED BY <1>3, <2>1, <3>2, <3>3, ReadingTyped DEF ReadKey, Reading
    <2>4. CASE ~ParsesAsKey(content)
      <3>1. read' = read /\ To(p, "refused")
        BY <1>3, <2>4 DEF ReadKey
      <3> QED BY <1>1, <1>3, <2>1, <3>1, ReadingTyped DEF ReadKey, Reading, Ended
    <2> QED BY <2>3, <2>4
  <1>4. CASE ReadQuote(p)
    <2> DEFINE content == files[cmd[p].quote]
    <2>1. pc[p] = "readQuote" /\ cmd[p] \in Command /\ cmd[p].op = "verify"
      BY <1>1, <1>4 DEF ReadQuote, PlaceOK, Ended
    <2>2. content \in Content
      BY <2>1, CommandAssumption DEF TypeInv, SyntheticTypeOK
    <2>3. CASE content # Missing
      <3> DEFINE mine == [read[p] EXCEPT !.quote = content]
      <3>1. mine \in ReadType
        BY <1>1, <2>2 DEF ReadType
      <3>2. read' = [read EXCEPT ![p] = mine] /\ To(p, "readRoot")
        BY <1>4, <2>3 DEF ReadQuote
      <3> HIDE DEF mine
      <3> QED BY <1>4, <2>1, <3>1, <3>2, ReadingTyped DEF ReadQuote, Reading
    <2>4. CASE content = Missing
      <3>1. read' = read /\ To(p, "refused")
        BY <1>4, <2>4 DEF ReadQuote
      <3> QED BY <1>1, <1>4, <2>1, <3>1, ReadingTyped DEF ReadQuote, Reading, Ended
    <2> QED BY <2>3, <2>4
  <1>5. CASE ReadRoot(p)
    <2> DEFINE content == files[cmd[p].root]
    <2>1. pc[p] = "readRoot" /\ cmd[p] \in Command /\ cmd[p].op \in {"synthetic-quote", "verify"}
      BY <1>1, <1>5 DEF ReadRoot, PlaceOK, Ended
    <2>2. content \in Content
      BY <2>1, CommandAssumption DEF TypeInv, SyntheticTypeOK
    <2>3. CASE ParsesAsCert(content)
      <3> DEFINE mine == [read[p] EXCEPT !.root = ParseOneCert(content)]
                 place == IF cmd[p].op = "verify" THEN "verify" ELSE "generate"
      <3>1. ParseOneCert(content) \in Cert
        BY <2>2, <2>3, ParsedCertTyped
      <3>2. mine \in ReadType /\ mine.root \in Cert /\ mine.key = read[p].key
        BY <1>1, <3>1 DEF ReadType
      <3>3. read' = [read EXCEPT ![p] = mine] /\ To(p, place)
        BY <1>5, <2>3 DEF ReadRoot
      <3>4. cmd[p].op = "synthetic-quote" => mine.key \in Key
        BY <1>1, <2>1, <3>2 DEF PlaceOK
      <3>5. /\ place \in {"generate", "verify"}
            /\ place = "generate" => cmd[p].op = "synthetic-quote"
            /\ place = "verify" => cmd[p].op = "verify"
        BY <2>1
      <3> HIDE DEF mine, place
      <3> QED BY <1>5, <2>1, <3>2, <3>3, <3>4, <3>5, ReadingTyped DEF ReadRoot, Reading
    <2>4. CASE ~ParsesAsCert(content)
      <3>1. read' = read /\ To(p, "refused")
        BY <1>5, <2>4 DEF ReadRoot
      <3> QED BY <1>1, <1>5, <2>1, <3>1, ReadingTyped DEF ReadRoot, Reading, Ended
    <2> QED BY <2>3, <2>4
  <1>6. CASE GenerateQuote(p)
    <2>1. /\ pc[p] = "generate" /\ cmd[p] \in Command /\ cmd[p].op = "synthetic-quote"
          /\ read[p].key \in Key /\ read[p].root \in Cert
      BY <1>1, <1>6 DEF GenerateQuote, PlaceOK, Ended
    <2>2. CASE KeyMatchesRoot(read[p].key, read[p].root)
      <3> DEFINE what == QuoteOutputs(cmd[p], NextGeneration, now, read[p].key)
      <3>1. /\ NextGeneration \in Nat /\ now \in Nat /\ Skew < now
            /\ generations \in Seq(Generation)
        BY LifeAssumption DEF TypeInv, SyntheticTypeOK, NextGeneration
      <3>2. what \in Seq(OutputRecord) /\ Len(what) > 0
        BY <2>1, <3>1, OutputsTyped DEF QuoteOutputs, ChainOutput
      <3>3. generations' \in Seq(Generation)
        <4>1. generations' = Append(generations, [time |-> now, root |-> read[p].root.key])
          BY <1>6, <2>2 DEF GenerateQuote, Generate
        <4>2. read[p].root.key \in Key
          BY <2>1 DEF Cert
        <4>3. [time |-> now, root |-> read[p].root.key] \in Generation
          BY <3>1, <4>2 DEF Generation
        <4> QED BY <3>1, <4>1, <4>3
      <3>4. To(p, "open") /\ outputs' = [outputs EXCEPT ![p] = what]
        BY <1>6, <2>2 DEF GenerateQuote
      <3>5. done' = done /\ done[p] = 0 /\ read' = read /\ files' = files /\ cmd' = cmd
        BY <1>1, <1>6, <2>1 DEF GenerateQuote, PlaceOK, Reading, Elsewhere
      <3> HIDE DEF what
      <3>6. /\ outputs' \in [Process -> Seq([path : Path, content : Content])]
            /\ outputs'[p] = what /\ pc'[p] = "open"
            /\ \A q \in Process \ {p} : outputs'[q] = outputs[q]
        BY <3>2, <3>4 DEF TypeInv, SyntheticTypeOK, OutputRecord, To
      <3>7. PlaceOK(p)'
        BY <2>1, <3>2, <3>5, <3>6 DEF PlaceOK, Reading
      <3>8. Active(p)
        BY <2>1 DEF Active, Ended
      <3>9. /\ files' \in [Path -> Content] /\ read' \in [Process -> ReadType]
            /\ done' \in [Process -> Nat] /\ done'[p] < Len(outputs'[p])
        BY <3>2, <3>5, <3>6 DEF TypeInv, SyntheticTypeOK, ReadType
      <3>10. Elsewhere
        BY <1>6 DEF GenerateQuote
      <3> QED BY <3>3, <3>4, <3>5, <3>6, <3>7, <3>8, <3>9, <3>10, StepTyped DEF ReadType
    <2>3. CASE ~KeyMatchesRoot(read[p].key, read[p].root)
      <3>1. UNCHANGED <<files, outputs, done, generations>> /\ read' = read /\ To(p, "refused")
        BY <1>6, <2>3 DEF GenerateQuote
      <3> QED BY <1>1, <1>6, <2>1, <3>1, ReadingTyped DEF GenerateQuote, Reading, Ended
    <2> QED BY <2>2, <2>3
  <1>7. CASE Verify(p)
    <2> DEFINE place == IF QuoteCryptoOK(read[p].quote, read[p].root, began[p])
                        THEN "ok" ELSE "refused"
    <2>1. /\ pc[p] \in Reading /\ To(p, place) /\ place \in Ended /\ read' = read
          /\ UNCHANGED <<files, outputs, done, generations>> /\ Elsewhere
      BY <1>7 DEF Verify, Reading, Ended
    <2>2. place \notin {"readRoot", "generate", "verify"}
      BY DEF Ended
    <2> HIDE DEF place
    <2> QED BY <1>1, <2>1, <2>2, ReadingTyped
  <1>8. CASE Open(p)
    <2>1. pc[p] = "open" /\ done[p] < Len(outputs[p])
      BY <1>8 DEF Open, TypeInv, SyntheticTypeOK
    <2>2. NextOutput(p) \in OutputRecord
      BY <2>1, NextOutputTyped DEF TypeInv
    <2>3. files' \in [Path -> Content]
      BY <1>8 DEF Open, TypeInv, SyntheticTypeOK, Content
    <2>4. /\ read' = read /\ outputs' = outputs /\ done' = done /\ cmd' = cmd
          /\ pc'[p] = "fill"
      BY <1>8 DEF Open, Elsewhere, To, TypeInv, SyntheticTypeOK
    <2>5. PlaceOK(p)'
      BY <1>1, <1>2, <2>1, <2>4 DEF PlaceOK, Reading, Ended
    <2>6. /\ read' \in [Process -> ReadType] /\ done' \in [Process -> Nat]
          /\ outputs' \in [Process -> Seq([path : Path, content : Content])]
      BY <2>4 DEF TypeInv, SyntheticTypeOK, ReadType
    <2>7. Active(p) /\ generations' \in Seq(Generation) /\ Elsewhere /\ To(p, "fill")
      BY <1>8, <2>1 DEF Open, Active, Ended, TypeInv, SyntheticTypeOK
    <2> QED BY <2>1, <2>3, <2>4, <2>5, <2>6, <2>7, StepTyped DEF ReadType
  <1>9. CASE Fill(p)
    <2> DEFINE place == IF done[p] + 1 = Len(outputs[p]) THEN "ok" ELSE "open"
    <2>1. pc[p] = "fill" /\ done[p] < Len(outputs[p]) /\ done[p] \in Nat /\ Len(outputs[p]) \in Nat
      BY <1>9 DEF Fill, TypeInv, SyntheticTypeOK
    <2>2. NextOutput(p) \in OutputRecord
      BY <2>1, NextOutputTyped DEF TypeInv
    <2>3. files' \in [Path -> Content]
      BY <1>9, <2>2 DEF Fill, TypeInv, SyntheticTypeOK, OutputRecord
    <2>4. /\ read' = read /\ outputs' = outputs /\ cmd' = cmd /\ To(p, place)
          /\ pc'[p] = place /\ done' = [done EXCEPT ![p] = done[p] + 1]
      BY <1>9 DEF Fill, Elsewhere, To, TypeInv, SyntheticTypeOK
    <2>5. /\ done' \in [Process -> Nat] /\ done'[p] = done[p] + 1
          /\ \A q \in Process \ {p} : done'[q] = done[q]
      BY <2>4 DEF TypeInv, SyntheticTypeOK
    <2>6. place = "open" => done'[p] < Len(outputs'[p])
      BY <2>1, <2>4, <2>5
    <2>7. place \in {"open", "ok"} /\ done'[p] <= Len(outputs'[p])
      BY <2>1, <2>4, <2>5
    <2> HIDE DEF place
    <2>8. PlaceOK(p)'
      BY <1>1, <1>2, <2>1, <2>4, <2>7 DEF PlaceOK, Reading, Ended
    <2>9. /\ read' \in [Process -> ReadType]
          /\ outputs' \in [Process -> Seq([path : Path, content : Content])]
      BY <2>4 DEF TypeInv, SyntheticTypeOK, ReadType
    <2>10. Active(p) /\ generations' \in Seq(Generation) /\ Elsewhere
      BY <1>9, <2>1 DEF Fill, Active, Ended, TypeInv, SyntheticTypeOK
    <2>11. place \in {"open"} \cup Ended /\ place # "fill"
      BY <2>7 DEF Ended
    <2> QED BY <2>3, <2>4, <2>5, <2>6, <2>8, <2>9, <2>10, <2>11, StepTyped DEF ReadType
  <1>10. CASE Stop(p)
    <2>1. /\ read' = read /\ outputs' = outputs /\ done' = done /\ cmd' = cmd /\ files' = files
          /\ pc'[p] = "stopped"
      BY <1>10 DEF Stop, Elsewhere, To, TypeInv, SyntheticTypeOK
    <2>2. PlaceOK(p)'
      BY <1>1, <2>1 DEF PlaceOK, Reading, Ended
    <2>3. /\ read' \in [Process -> ReadType] /\ done' \in [Process -> Nat]
          /\ outputs' \in [Process -> Seq([path : Path, content : Content])]
          /\ files' \in [Path -> Content] /\ generations' \in Seq(Generation)
      BY <1>10, <2>1 DEF Stop, TypeInv, SyntheticTypeOK, ReadType
    <2>4. Active(p) /\ Elsewhere /\ To(p, "stopped") /\ "stopped" \in Ended
      BY <1>10 DEF Stop, Ended
    <2> QED BY <2>1, <2>2, <2>3, <2>4, StepTyped DEF ReadType
  <1> QED BY <1>3, <1>4, <1>5, <1>6, <1>7, <1>8, <1>9, <1>10 DEF Step

\* Every step of the commands, and of the clock, keeps the types.
LEMMA TypeStep == TypeInv /\ [Next]_vars => TypeInv'
  <1> SUFFICES ASSUME TypeInv, [Next]_vars PROVE TypeInv'
    OBVIOUS
  <1>1. ASSUME NEW p \in Process, NEW c \in Command,
               Synthesize(p, c) \/ GenerateRoot(p, c) \/ BeginQuote(p, c) \/ BeginVerify(p, c)
        PROVE  TypeInv'
    BY <1>1, StartActionsTyped
  <1>2. ASSUME NEW p \in Process, Step(p) PROVE TypeInv'
    BY <1>2, StepActionsTyped
  <1>3. CASE Tick
    <2>1. now' \in FirstTime..LastTime
      BY <1>3, LifeAssumption DEF Tick, TypeInv, SyntheticTypeOK
    <2>2. /\ files' = files /\ before' = before /\ begun' = begun /\ pc' = pc /\ cmd' = cmd
          /\ read' = read /\ began' = began /\ outputs' = outputs /\ done' = done
          /\ generations' = generations /\ sole' = sole
      BY <1>3 DEF Tick, procVars, historyVars
    <2>3. SyntheticTypeOK'
      BY <2>1, <2>2 DEF TypeInv, SyntheticTypeOK
    <2>4. \A p \in Process : PlaceOK(p)'
      BY <2>2 DEF TypeInv, PlaceOK
    <2> QED BY <2>3, <2>4 DEF TypeInv
  <1>4. CASE UNCHANGED vars
    <2>1. /\ files' = files /\ before' = before /\ begun' = begun /\ pc' = pc /\ cmd' = cmd
          /\ read' = read /\ began' = began /\ outputs' = outputs /\ done' = done
          /\ generations' = generations /\ sole' = sole /\ now' = now
      BY <1>4 DEF vars, procVars, historyVars
    <2>2. SyntheticTypeOK'
      BY <2>1 DEF TypeInv, SyntheticTypeOK
    <2>3. \A p \in Process : PlaceOK(p)'
      BY <2>1 DEF TypeInv, PlaceOK
    <2> QED BY <2>2, <2>3 DEF TypeInv
  <1> QED BY <1>1, <1>2, <1>3, <1>4 DEF Next

LEMMA TypeAlways == Spec => []TypeInv
  BY TypeInit, TypeStep, PTL DEF Spec

\* Whatever the processes run and however they end, the files, what is read
\* and the outputs have their types, and a command that is about to write has
\* an output left to write (synthetic_cli.go:36-142).
THEOREM SyntheticTypeCorrect == Spec => []SyntheticTypeOK
  BY TypeAlways, PTL DEF TypeInv
----------------------------------------------------------------------------
(* Quotes are signed under the root their command was given *)

\* The invariant: also the quotes that are still to be written.
AllUnder(what, made) == \A i \in 1..Len(what) : UnderRootGiven(what[i].content, made)

GenerationInv ==
    /\ QuotesUnderTheRootGiven
    /\ \A p \in Process : AllUnder(outputs[p], generations)

\* A later generation changes nothing for the earlier ones.
LEMMA UnderRootMonotone ==
    ASSUME NEW made \in Seq(Generation), NEW g \in Generation, NEW content,
           UnderRootGiven(content, made)
    PROVE  UnderRootGiven(content, Append(made, g))
  <1>1. /\ DOMAIN made \subseteq DOMAIN Append(made, g)
        /\ \A n \in DOMAIN made : Append(made, g)[n] = made[n]
    OBVIOUS
  <1> QED BY <1>1 DEF UnderRootGiven

LEMMA NewQuoteUnder ==
    ASSUME NEW made \in Seq(Generation), NEW t \in Nat, NEW k \in Key
    PROVE  UnderRootGiven(QuoteFile(Quote(Len(made) + 1, t, k)),
                          Append(made, [time |-> t, root |-> k]))
  <1> DEFINE new == Append(made, [time |-> t, root |-> k])
             quote == Quote(Len(made) + 1, t, k)
  <1>1. [time |-> t, root |-> k] \in Generation
    BY DEF Generation
  <1>2. Len(made) + 1 \in DOMAIN new /\ new[Len(made) + 1].root = k
    BY <1>1
  <1>3. quote.certs[1].key.made = Len(made) + 1 /\ quote.certs[2].signer = k
    BY DEF Quote, PCKCert, IntermediateCert, SyntheticCert, KeyOf
  <1> HIDE DEF new, quote
  <1> QED BY <1>2, <1>3 DEF UnderRootGiven, QuoteFile, new, quote

LEMMA NotAQuoteUnder ==
    ASSUME NEW content, content.kind # "quote", NEW made
    PROVE  UnderRootGiven(content, made)
  BY DEF UnderRootGiven

LEMMA NewOutputsUnder ==
    ASSUME NEW made \in Seq(Generation), NEW t \in Nat, NEW k \in Key, NEW c \in Command,
           NEW new, new = Append(made, [time |-> t, root |-> k])
    PROVE  /\ k = KeyOf(Len(made) + 1, "root") =>
                 AllUnder(SynthesizeOutputs(c, Len(made) + 1, t), new)
           /\ AllUnder(RootOutputs(c, Len(made) + 1, t), new)
           /\ AllUnder(QuoteOutputs(c, Len(made) + 1, t, k), new)
  <1> DEFINE n == Len(made) + 1
             quote == Quote(n, t, k)
  <1>1. UnderRootGiven(QuoteFile(quote), new)
    BY NewQuoteUnder
  <1>2. /\ UnderRootGiven(KeyFile(KeyOf(n, "root")), new)
        /\ UnderRootGiven(RootFile(RootCert(n, t)), new)
        /\ UnderRootGiven(ChainFile(quote.certs), new)
    BY DEF UnderRootGiven, KeyFile, RootFile, ChainFile
  <1> HIDE DEF n, quote
  <1>3. AllUnder(RootOutputs(c, n, t), new)
    BY <1>2 DEF AllUnder, RootOutputs, Output
  <1>4. AllUnder(QuoteOutputs(c, n, t, k), new)
    BY <1>1, <1>2 DEF AllUnder, QuoteOutputs, ChainOutput, Output, quote
  <1>5. ASSUME k = KeyOf(n, "root")
        PROVE  AllUnder(SynthesizeOutputs(c, n, t), new)
    BY <1>1, <1>2, <1>5 DEF AllUnder, SynthesizeOutputs, ChainOutput, Output, quote
  <1> QED BY <1>3, <1>4, <1>5 DEF n

LEMMA GenerationInit == Init => GenerationInv
  BY FilesAssumption DEF Init, GenerationInv, QuotesUnderTheRootGiven, AllUnder

LEMMA GenerationStep == TypeInv /\ GenerationInv /\ [Next]_vars => GenerationInv'
  <1> SUFFICES ASSUME TypeInv, GenerationInv, [Next]_vars PROVE GenerationInv'
    OBVIOUS
  <1>1. /\ generations \in Seq(Generation) /\ now \in Nat /\ NextGeneration = Len(generations) + 1
        /\ KeyOf(NextGeneration, "root") \in Key
    BY KeyTyped, LifeAssumption DEF TypeInv, SyntheticTypeOK, NextGeneration
  <1>2. ASSUME NEW g \in Generation, generations' = Append(generations, g)
        PROVE  /\ \A path \in Path : UnderRootGiven(files[path], generations')
               /\ \A p \in Process : AllUnder(outputs[p], generations')
    BY <1>1, <1>2, UnderRootMonotone DEF GenerationInv, QuotesUnderTheRootGiven, AllUnder
  <1>3. ASSUME NEW p \in Process, NEW c \in Command, NEW place, NEW what,
               Start(p, c, place, what), AllUnder(what, generations'),
               \/ generations' = generations
               \/ \E g \in Generation : generations' = Append(generations, g)
        PROVE  GenerationInv'
    <2>1. /\ \A path \in Path : UnderRootGiven(files[path], generations')
          /\ \A q \in Process : AllUnder(outputs[q], generations')
      BY <1>2, <1>3 DEF GenerationInv, QuotesUnderTheRootGiven
    <2>2. \A q \in Process : outputs'[q] \in {what, outputs[q], <<>>}
      BY <1>3 DEF Start
    <2>3. AllUnder(<<>>, generations')
      BY DEF AllUnder
    <2>4. \A q \in Process : AllUnder(outputs'[q], generations')
      BY <1>3, <2>1, <2>2, <2>3
    <2>5. files' = files
      BY <1>3 DEF Start
    <2> QED BY <2>1, <2>4, <2>5 DEF GenerationInv, QuotesUnderTheRootGiven, AllUnder
  <1>4. ASSUME NEW p \in Process, NEW c \in Command, Synthesize(p, c) PROVE GenerationInv'
    <2>1. generations' = Append(generations, [time |-> now, root |-> KeyOf(NextGeneration, "root")])
      BY <1>4 DEF Synthesize, Generate
    <2>2. AllUnder(SynthesizeOutputs(c, NextGeneration, now), generations')
      BY <1>1, <2>1, NewOutputsUnder
    <2>3. [time |-> now, root |-> KeyOf(NextGeneration, "root")] \in Generation
      BY <1>1 DEF Generation
    <2>4. Start(p, c, "open", SynthesizeOutputs(c, NextGeneration, now))
      BY <1>4 DEF Synthesize
    <2> QED BY <1>3, <2>1, <2>2, <2>3, <2>4
  <1>5. ASSUME NEW p \in Process, NEW c \in Command, GenerateRoot(p, c) PROVE GenerationInv'
    <2>1. generations' = Append(generations, [time |-> now, root |-> KeyOf(NextGeneration, "root")])
      BY <1>5 DEF GenerateRoot, Generate
    <2>2. AllUnder(RootOutputs(c, NextGeneration, now), generations')
      BY <1>1, <2>1, NewOutputsUnder
    <2>3. [time |-> now, root |-> KeyOf(NextGeneration, "root")] \in Generation
      BY <1>1 DEF Generation
    <2>4. Start(p, c, "open", RootOutputs(c, NextGeneration, now))
      BY <1>5 DEF GenerateRoot
    <2> QED BY <1>3, <2>1, <2>2, <2>3, <2>4
  <1>6. AllUnder(<<>>, generations')
    BY DEF AllUnder
  <1>7. ASSUME NEW p \in Process, NEW c \in Command, BeginQuote(p, c) \/ BeginVerify(p, c)
        PROVE  GenerationInv'
    BY <1>3, <1>6, <1>7 DEF BeginQuote, BeginVerify
  <1>8. ASSUME NEW p \in Process, GenerateQuote(p) PROVE GenerationInv'
    <2>1. /\ cmd[p] \in Command /\ read[p].key \in Key /\ pc[p] = "generate"
          /\ cmd[p].op = "synthetic-quote"
      BY <1>8 DEF GenerateQuote, TypeInv, PlaceOK, Ended
    <2>2. CASE KeyMatchesRoot(read[p].key, read[p].root)
      <3> DEFINE what == QuoteOutputs(cmd[p], NextGeneration, now, read[p].key)
      <3>1. generations' = Append(generations, [time |-> now, root |-> read[p].key])
        BY <1>8, <2>2 DEF GenerateQuote, Generate, KeyMatchesRoot
      <3>2. AllUnder(what, generations')
        BY <1>1, <2>1, <3>1, NewOutputsUnder
      <3>3. [time |-> now, root |-> read[p].key] \in Generation
        BY <1>1, <2>1 DEF Generation
      <3>4. outputs' = [outputs EXCEPT ![p] = what] /\ files' = files
        BY <1>8, <2>2 DEF GenerateQuote
      <3>5. \A q \in Process : outputs'[q] \in {what, outputs[q]}
        BY <3>4 DEF TypeInv, SyntheticTypeOK
      <3>6. /\ \A path \in Path : UnderRootGiven(files[path], generations')
            /\ \A q \in Process : AllUnder(outputs[q], generations')
        BY <1>2, <3>1, <3>3
      <3>7. \A q \in Process : AllUnder(outputs'[q], generations')
        BY <3>2, <3>5, <3>6
      <3> HIDE DEF what
      <3> QED BY <3>4, <3>6, <3>7 DEF GenerationInv, QuotesUnderTheRootGiven, AllUnder
    <2>3. CASE ~KeyMatchesRoot(read[p].key, read[p].root)
      BY <1>8, <2>3 DEF GenerateQuote, GenerationInv, QuotesUnderTheRootGiven, AllUnder
    <2> QED BY <2>2, <2>3
  <1>9. ASSUME NEW p \in Process, Open(p) \/ Fill(p) PROVE GenerationInv'
    <2>1. /\ outputs' = outputs /\ generations' = generations
          /\ \/ files' = [files EXCEPT ![NextOutput(p).path] = Torn]
             \/ files' = [files EXCEPT ![NextOutput(p).path] = NextOutput(p).content]
      BY <1>9 DEF Open, Fill
    <2>2. done[p] < Len(outputs[p])
      BY <1>9 DEF Open, Fill, TypeInv, SyntheticTypeOK
    <2>3. UnderRootGiven(NextOutput(p).content, generations)
      BY <2>2, NextOutputTyped DEF NextOutput, TypeInv, GenerationInv, AllUnder
    <2>4. UnderRootGiven(Torn, generations)
      BY DEF UnderRootGiven, Torn
    <2>5. \A path \in Path : files'[path] \in {files[path], Torn, NextOutput(p).content}
      BY <2>1 DEF TypeInv, SyntheticTypeOK
    <2> QED BY <2>1, <2>3, <2>4, <2>5 DEF GenerationInv, QuotesUnderTheRootGiven, AllUnder
  <1>10. ASSUME NEW p \in Process,
                ReadKey(p) \/ ReadQuote(p) \/ ReadRoot(p) \/ Verify(p) \/ Stop(p)
         PROVE  GenerationInv'
    <2>1. files' = files /\ outputs' = outputs /\ generations' = generations
      BY <1>10 DEF ReadKey, ReadQuote, ReadRoot, Verify, Stop
    <2> QED BY <2>1 DEF GenerationInv, QuotesUnderTheRootGiven, AllUnder
  <1>11. CASE Tick \/ UNCHANGED vars
    <2>1. files' = files /\ outputs' = outputs /\ generations' = generations
      BY <1>11 DEF Tick, vars, procVars, historyVars
    <2> QED BY <2>1 DEF GenerationInv, QuotesUnderTheRootGiven, AllUnder
  <1> QED BY <1>4, <1>5, <1>7, <1>8, <1>9, <1>10, <1>11 DEF Next, Step

\* However commands are interleaved, stopped and run over each other's files:
\* no quote is on disk whose issuer was not signed by the key of the root
\* certificate its command had read (synthetic_cli.go:80-102,
\* synthetic_quote.go:92).
THEOREM QuotesUnderTheRootGivenAlways == Spec => []QuotesUnderTheRootGiven
  BY TypeAlways, GenerationInit, GenerationStep, PTL DEF Spec, GenerationInv
----------------------------------------------------------------------------
(* What a command leaves when it fails or dies *)

\* No other command runs beside the one that runs, or ran, alone.
AloneInv == \A p \in Process : sole = p => \A q \in Process \ {p} : ~Active(q)

\* CrashLeavesPrefix for one process.
Prefix(p) ==
    LET n == done[p] IN
    /\ pc[p] = "ok" => n = Len(outputs[p])
    /\ \A i \in 1..n : files[outputs[p][i].path] = outputs[p][i].content
    /\ n < Len(outputs[p]) =>
          files[outputs[p][n + 1].path] \in {before[outputs[p][n + 1].path], Torn}
    /\ \A path \in Path : files[path] # before[path] =>
          \E i \in 1..(n + 1) : i <= Len(outputs[p]) /\ outputs[p][i].path = path

PrefixInv == \A p \in Process : sole = p /\ Distinct(p) => Prefix(p)

LEMMA PrefixIsCrashLeavesPrefix == PrefixInv <=> CrashLeavesPrefix
  BY DEF PrefixInv, CrashLeavesPrefix, Prefix

LEMMA AloneInit == Init => AloneInv /\ PrefixInv
  <1> SUFFICES ASSUME Init PROVE AloneInv /\ PrefixInv
    OBVIOUS
  <1>1. sole \notin Process
    BY CommandAssumption DEF Init
  <1> QED BY <1>1 DEF AloneInv, PrefixInv

\* The steps of a command that ran alone are the only ones but the clock's
\* and the next command's.
LEMMA AloneStep == TypeInv /\ AloneInv /\ [Next]_vars => AloneInv'
  <1> SUFFICES ASSUME TypeInv, AloneInv, [Next]_vars PROVE AloneInv'
    OBVIOUS
  <1>1. ASSUME NEW p \in Process, NEW c, NEW place, NEW what, Start(p, c, place, what)
        PROVE  AloneInv'
    <2>1. CASE \E q \in Process \ {p} : Active(q)
      BY <1>1, <2>1, CommandAssumption DEF Start, AloneInv
    <2>2. CASE \A q \in Process \ {p} : ~Active(q)
      <3>1. sole' = p /\ \A q \in Process \ {p} : pc'[q] = "ready"
        BY <1>1, <2>2 DEF Start
      <3> QED BY <3>1 DEF AloneInv, Active
    <2> QED BY <2>1, <2>2
  <1>2. ASSUME NEW p \in Process, NEW c \in Command,
               Synthesize(p, c) \/ GenerateRoot(p, c) \/ BeginQuote(p, c) \/ BeginVerify(p, c)
        PROVE  AloneInv'
    BY <1>1, <1>2 DEF Synthesize, GenerateRoot, BeginQuote, BeginVerify
  <1>3. ASSUME NEW p \in Process, Step(p) PROVE AloneInv'
    <2>1. Active(p)
      BY <1>3 DEF Step, ReadKey, ReadQuote, ReadRoot, GenerateQuote, Verify, Open, Fill, Stop,
                  Active, Ended
    <2>2. sole' = sole
      BY <1>3 DEF Step, ReadKey, ReadQuote, ReadRoot, GenerateQuote, Verify, Open, Fill, Stop,
                  Elsewhere
    <2>3. \E place : To(p, place)
      BY <1>3 DEF Step, ReadKey, ReadQuote, ReadRoot, GenerateQuote, Verify, Open, Fill, Stop
    <2>4. \A q \in Process \ {p} : pc'[q] = pc[q]
      BY <2>3 DEF To, TypeInv, SyntheticTypeOK
    <2> QED BY <2>1, <2>2, <2>4 DEF AloneInv, Active
  <1>4. CASE Tick \/ UNCHANGED vars
    BY <1>4 DEF Tick, vars, procVars, historyVars, AloneInv, Active
  <1> QED BY <1>2, <1>3, <1>4 DEF Next

\* A command that has not begun to write has changed nothing.
LEMMA ReadingUnchanged ==
    ASSUME TypeInv, PrefixInv, NEW p \in Process, sole = p, pc[p] \in Reading
    PROVE  files = before /\ outputs[p] = <<>> /\ done[p] = 0
  <1>1. outputs[p] = <<>> /\ done[p] = 0
    BY DEF TypeInv, PlaceOK
  <1>2. Distinct(p)
    BY <1>1 DEF Distinct
  <1>3. Prefix(p)
    BY <1>2 DEF PrefixInv
  <1>4. \A path \in Path : files[path] = before[path]
    BY <1>1, <1>3 DEF Prefix
  <1> QED BY <1>1, <1>4 DEF TypeInv, SyntheticTypeOK

LEMMA PrefixStep == TypeInv /\ TypeInv' /\ AloneInv /\ PrefixInv /\ [Next]_vars => PrefixInv'
  <1> SUFFICES ASSUME TypeInv, TypeInv', AloneInv, PrefixInv, [Next]_vars,
                      NEW p \in Process, sole' = p, Distinct(p)'
               PROVE  Prefix(p)'
    BY DEF PrefixInv
  <1>1. ASSUME NEW q \in Process, NEW c \in Command,
               Synthesize(q, c) \/ GenerateRoot(q, c) \/ BeginQuote(q, c) \/ BeginVerify(q, c)
        PROVE  Prefix(p)'
    <2>1. PICK place \in {"open", "readKey", "readQuote"} : \E what : Start(q, c, place, what)
      BY <1>1 DEF Synthesize, GenerateRoot, BeginQuote, BeginVerify
    <2>2. PICK what : Start(q, c, place, what)
      BY <2>1
    <2>3. p = q
      BY <2>2, CommandAssumption DEF Start
    <2>4. /\ files' = files /\ before' = files /\ pc'[p] = place /\ done'[p] = 0
          /\ outputs'[p] = what
      BY <2>2, <2>3 DEF Start
    <2> QED BY <2>4 DEF Prefix
  <1>2. ASSUME NEW q \in Process, Step(q) PROVE q = p /\ sole = p /\ before' = before
    <2>1. Active(q)
      BY <1>2 DEF Step, ReadKey, ReadQuote, ReadRoot, GenerateQuote, Verify, Open, Fill, Stop,
                  Active, Ended
    <2>2. sole' = sole /\ before' = before
      BY <1>2 DEF Step, ReadKey, ReadQuote, ReadRoot, GenerateQuote, Verify, Open, Fill, Stop,
                  Elsewhere
    <2> QED BY <2>1, <2>2 DEF AloneInv
  <1>3. ASSUME ReadKey(p) \/ ReadQuote(p) \/ ReadRoot(p) \/ Stop(p), sole = p, before' = before
        PROVE  Prefix(p)'
    <2>1. /\ files' = files /\ outputs' = outputs /\ done' = done /\ pc'[p] # "ok"
      BY <1>3 DEF ReadKey, ReadQuote, ReadRoot, Stop, To, TypeInv, SyntheticTypeOK
    <2>2. Distinct(p)
      BY <2>1 DEF Distinct
    <2>3. Prefix(p)
      BY <1>3, <2>2 DEF PrefixInv
    <2> QED BY <1>3, <2>1, <2>3 DEF Prefix
  <1>4. ASSUME GenerateQuote(p) \/ Verify(p), sole = p, before' = before PROVE Prefix(p)'
    <2>1. pc[p] \in Reading /\ files' = files /\ done' = done
      BY <1>4 DEF GenerateQuote, Verify, Reading
    <2>2. files = before /\ outputs[p] = <<>> /\ done[p] = 0
      BY <1>4, <2>1, ReadingUnchanged
    <2>3. pc'[p] = "ok" => outputs' = outputs
      BY <1>4 DEF GenerateQuote, Verify, To, TypeInv, SyntheticTypeOK
    <2> QED BY <1>4, <2>1, <2>2, <2>3 DEF Prefix
  <1> DEFINE n == done[p]
             path(i) == outputs[p][i].path
  <1>5. ASSUME Open(p) \/ Fill(p), sole = p, before' = before
        PROVE  /\ n \in Nat /\ n < Len(outputs[p]) /\ Len(outputs[p]) \in Nat
               /\ Distinct(p) /\ Prefix(p) /\ outputs' = outputs
               /\ \A i \in 1..Len(outputs[p]) : path(i) \in Path
               /\ \A i, j \in 1..Len(outputs[p]) : path(i) = path(j) => i = j
               /\ NextOutput(p) = outputs[p][n + 1]
    <2>1. outputs' = outputs /\ pc[p] \in {"open", "fill"}
      BY <1>5 DEF Open, Fill
    <2>2. Distinct(p)
      BY <2>1 DEF Distinct
    <2>3. Prefix(p)
      BY <1>5, <2>2 DEF PrefixInv
    <2>4. outputs[p] \in Seq(OutputRecord) /\ n \in Nat /\ n < Len(outputs[p])
      BY <2>1 DEF TypeInv, SyntheticTypeOK, OutputRecord
    <2>5. \A i \in 1..Len(outputs[p]) : outputs[p][i] \in OutputRecord
      BY <2>4
    <2>6. \A i, j \in 1..Len(outputs[p]) : path(i) = path(j) => i = j
      BY <2>2, <2>4 DEF Distinct
    <2>7. \A i \in 1..Len(outputs[p]) : path(i) \in Path
      BY <2>5 DEF OutputRecord
    <2>8. Len(outputs[p]) \in Nat
      BY <2>4
    <2> QED BY <2>1, <2>2, <2>3, <2>4, <2>6, <2>7, <2>8 DEF NextOutput
  <1>6. ASSUME Open(p), sole = p, before' = before PROVE Prefix(p)'
    <2>1. /\ files' = [files EXCEPT ![path(n + 1)] = Torn] /\ done' = done /\ pc'[p] # "ok"
          /\ outputs' = outputs
      BY <1>5, <1>6 DEF Open, To, TypeInv, SyntheticTypeOK
    <2>2. n + 1 \in 1..Len(outputs[p])
      BY <1>5, <1>6
    <2>3. \A i \in 1..n : i \in 1..Len(outputs[p]) /\ i # n + 1
      BY <1>5, <1>6
    <2>4. \A i \in 1..n : path(i) # path(n + 1)
      BY <1>5, <1>6, <2>2, <2>3
    <2>5. \A i \in 1..n : files'[path(i)] = outputs[p][i].content
      BY <1>5, <1>6, <2>1, <2>3, <2>4 DEF Prefix, TypeInv, SyntheticTypeOK
    <2>6. files'[path(n + 1)] = Torn
      BY <1>5, <1>6, <2>1, <2>2 DEF TypeInv, SyntheticTypeOK
    <2>7. ASSUME NEW place \in Path, files'[place] # before[place]
          PROVE  \E i \in 1..(n + 1) : i <= Len(outputs[p]) /\ path(i) = place
      <3>1. CASE place = path(n + 1)
        BY <1>5, <1>6, <2>2, <3>1
      <3>2. CASE place # path(n + 1)
        BY <1>5, <1>6, <2>1, <2>7, <3>2 DEF Prefix, TypeInv, SyntheticTypeOK
      <3> QED BY <3>1, <3>2
    <2> QED BY <1>6, <2>1, <2>5, <2>6, <2>7 DEF Prefix
  <1>7. ASSUME Fill(p), sole = p, before' = before PROVE Prefix(p)'
    <2>1. /\ files' = [files EXCEPT ![path(n + 1)] = outputs[p][n + 1].content]
          /\ done'[p] = n + 1 /\ outputs' = outputs
          /\ pc'[p] = "ok" => n + 1 = Len(outputs[p])
      BY <1>5, <1>7 DEF Fill, To, TypeInv, SyntheticTypeOK
    <2>2. n + 1 \in 1..Len(outputs[p])
      BY <1>5, <1>7
    <2>3. \A i \in 1..n : i \in 1..Len(outputs[p]) /\ i # n + 1
      BY <1>5, <1>7
    <2>4. \A i \in 1..n : path(i) # path(n + 1)
      BY <1>5, <1>7, <2>2, <2>3
    <2>5. \A i \in 1..n : files'[path(i)] = outputs[p][i].content
      BY <1>5, <1>7, <2>1, <2>3, <2>4 DEF Prefix, TypeInv, SyntheticTypeOK
    <2>6. files'[path(n + 1)] = outputs[p][n + 1].content
      BY <1>5, <1>7, <2>1, <2>2 DEF TypeInv, SyntheticTypeOK
    <2>7. \A i \in 1..(n + 1) : files'[path(i)] = outputs[p][i].content
      BY <1>5, <1>7, <2>5, <2>6
    <2>8. ASSUME NEW place \in Path, files'[place] # before[place]
          PROVE  \E i \in 1..(n + 1) : path(i) = place
      <3>1. CASE place = path(n + 1)
        BY <1>5, <1>7, <2>2, <3>1
      <3>2. CASE place # path(n + 1)
        BY <1>5, <1>7, <2>1, <2>8, <3>2 DEF Prefix, TypeInv, SyntheticTypeOK
      <3> QED BY <3>1, <3>2
    <2>9. ASSUME n + 1 < Len(outputs[p])
          PROVE  files'[path(n + 2)] = before[path(n + 2)]
      <3>1. n + 2 \in 1..Len(outputs[p]) /\ path(n + 2) \in Path
        BY <1>5, <1>7, <2>9
      <3>2. \A i \in 1..(n + 1) : i \in 1..Len(outputs[p]) /\ i # n + 2
        BY <1>5, <1>7
      <3>3. \A i \in 1..(n + 1) : path(i) # path(n + 2)
        BY <1>5, <1>7, <3>1, <3>2
      <3> QED BY <2>8, <3>1, <3>3
    <2>10. \A place \in Path : files'[place] # before[place] =>
              \E i \in 1..(n + 2) : i <= Len(outputs[p]) /\ path(i) = place
      <3>1. \A i \in 1..(n + 1) : i \in 1..(n + 2) /\ i <= Len(outputs[p])
        BY <1>5, <1>7
      <3> QED BY <2>8, <3>1
    <2>11. n \in Nat /\ (n + 1) + 1 = n + 2
      BY <1>5, <1>7
    <2> HIDE DEF n
    <2> QED BY <1>7, <2>1, <2>7, <2>9, <2>10, <2>11 DEF Prefix
  <1>8. CASE Tick \/ UNCHANGED vars
    <2>1. /\ files' = files /\ outputs' = outputs /\ done' = done /\ pc' = pc /\ sole' = sole
          /\ before' = before
      BY <1>8 DEF Tick, vars, procVars, historyVars
    <2> QED BY <2>1 DEF PrefixInv, Prefix, Distinct
  <1> QED BY <1>1, <1>2, <1>3, <1>4, <1>6, <1>7, <1>8 DEF Next, Step

LEMMA AloneAlways == Spec => [](AloneInv /\ PrefixInv)
  BY TypeAlways, AloneInit, AloneStep, PrefixStep, PTL DEF Spec

\* Wherever a command that ran alone fails or is killed, the files it leaves
\* are the new outputs it had written, one that is old or torn, and otherwise
\* what was there before (synthetic_cli.go:41-52, 67-72, 106-113).
THEOREM CrashLeavesPrefixAlways == Spec => []CrashLeavesPrefix
  BY AloneAlways, PrefixIsCrashLeavesPrefix, PTL
----------------------------------------------------------------------------
(* What a command that succeeds leaves *)

\* What the outputs of a command that ran alone are made from: a fresh
\* generation, or the root certificate that was there when it started.
MadeFrom(p) ==
    LET c == cmd[p] IN
    \/ c.op = "synthetic-root" /\ \E n, t : outputs[p] = RootOutputs(c, n, t)
    \/ c.op = "synthesize" /\ \E n, t : outputs[p] = SynthesizeOutputs(c, n, t)
    \/ /\ c.op = "synthetic-quote" /\ ParsesAsCert(before[c.root])
       /\ \E n, t : outputs[p] = QuoteOutputs(c, n, t, ParseOneCert(before[c.root]).key)

MatchInv ==
    \A p \in Process : sole = p =>
        /\ outputs[p] # <<>> => cmd[p] \in Command /\ MadeFrom(p)
        /\ pc[p] = "generate" => /\ ParsesAsCert(before[cmd[p].root])
                                 /\ read[p].root = ParseOneCert(before[cmd[p].root])

LEMMA MatchInit == Init => MatchInv
  BY CommandAssumption DEF Init, MatchInv

LEMMA MatchStep == TypeInv /\ AloneInv /\ PrefixInv /\ MatchInv /\ [Next]_vars => MatchInv'
  <1> SUFFICES ASSUME TypeInv, AloneInv, PrefixInv, MatchInv, [Next]_vars,
                      NEW p \in Process, sole' = p
               PROVE  /\ outputs'[p] # <<>> => cmd'[p] \in Command /\ MadeFrom(p)'
                      /\ pc'[p] = "generate" =>
                            /\ ParsesAsCert(before'[cmd'[p].root])
                            /\ read'[p].root = ParseOneCert(before'[cmd'[p].root])
    BY DEF MatchInv
  <1>1. ASSUME NEW q \in Process, NEW c \in Command, NEW place, NEW what,
               Start(q, c, place, what), sole' = p
        PROVE  pc'[p] = place /\ cmd'[p] = c /\ outputs'[p] = what
    BY <1>1, CommandAssumption DEF Start
  <1>2. ASSUME NEW q \in Process, NEW c \in Command, Synthesize(q, c) \/ GenerateRoot(q, c)
        PROVE  /\ pc'[p] = "open" /\ cmd'[p] \in Command /\ MadeFrom(p)'
    BY <1>1, <1>2 DEF Synthesize, GenerateRoot, MadeFrom
  <1>3. ASSUME NEW q \in Process, NEW c \in Command, BeginQuote(q, c) \/ BeginVerify(q, c)
        PROVE  /\ pc'[p] \in {"readKey", "readQuote"} /\ outputs'[p] = <<>>
    BY <1>1, <1>3 DEF BeginQuote, BeginVerify
  <1>4. ASSUME NEW q \in Process, Step(q)
        PROVE  q = p /\ sole = p /\ before' = before /\ cmd' = cmd
    <2>1. Active(q)
      BY <1>4 DEF Step, ReadKey, ReadQuote, ReadRoot, GenerateQuote, Verify, Open, Fill, Stop,
                  Active, Ended
    <2>2. sole' = sole /\ before' = before /\ cmd' = cmd
      BY <1>4 DEF Step, ReadKey, ReadQuote, ReadRoot, GenerateQuote, Verify, Open, Fill, Stop,
                  Elsewhere
    <2> QED BY <2>1, <2>2 DEF AloneInv
  <1>5. ASSUME outputs' = outputs, sole = p, before' = before, cmd' = cmd
        PROVE  outputs'[p] # <<>> => cmd'[p] \in Command /\ MadeFrom(p)'
    <2>1. outputs[p] # <<>> => cmd[p] \in Command /\ MadeFrom(p)
      BY <1>5 DEF MatchInv
    <2>2. MadeFrom(p) => MadeFrom(p)'
      BY <1>5 DEF MadeFrom
    <2> QED BY <1>5, <2>1, <2>2
  <1>6. ASSUME ReadKey(p) \/ ReadQuote(p) \/ Verify(p) \/ Open(p) \/ Fill(p) \/ Stop(p)
        PROVE  outputs' = outputs /\ pc'[p] # "generate"
    BY <1>6 DEF ReadKey, ReadQuote, Verify, Open, Fill, Stop, To, TypeInv, SyntheticTypeOK
  <1>7. ASSUME ReadRoot(p), sole = p, before' = before, cmd' = cmd
        PROVE  /\ outputs' = outputs
               /\ pc'[p] = "generate" =>
                     /\ ParsesAsCert(before'[cmd'[p].root])
                     /\ read'[p].root = ParseOneCert(before'[cmd'[p].root])
    <2>1. files = before
      BY <1>7, ReadingUnchanged DEF ReadRoot, Reading
    <2>2. CASE ParsesAsCert(files[cmd[p].root])
      <3>1. read' = [read EXCEPT ![p].root = ParseOneCert(files[cmd[p].root])]
        BY <1>7, <2>2 DEF ReadRoot
      <3>2. read'[p].root = ParseOneCert(files[cmd[p].root])
        BY <3>1 DEF TypeInv, SyntheticTypeOK
      <3> QED BY <1>7, <2>1, <2>2, <3>2 DEF ReadRoot
    <2>3. CASE ~ParsesAsCert(files[cmd[p].root])
      BY <1>7, <2>3 DEF ReadRoot, To, TypeInv, SyntheticTypeOK
    <2> QED BY <2>2, <2>3
  <1>8. ASSUME GenerateQuote(p), sole = p, before' = before, cmd' = cmd
        PROVE  /\ outputs'[p] # <<>> => cmd'[p] \in Command /\ MadeFrom(p)'
               /\ pc'[p] # "generate"
    <2>1. /\ pc[p] = "generate" /\ cmd[p] \in Command /\ cmd[p].op = "synthetic-quote"
      BY <1>8 DEF GenerateQuote, TypeInv, PlaceOK, Ended
    <2>2. CASE KeyMatchesRoot(read[p].key, read[p].root)
      <3>1. /\ outputs' = [outputs EXCEPT ![p] =
                             QuoteOutputs(cmd[p], NextGeneration, now, read[p].key)]
            /\ To(p, "open")
        BY <1>8, <2>2 DEF GenerateQuote
      <3>2. /\ outputs'[p] = QuoteOutputs(cmd[p], NextGeneration, now, read[p].key)
            /\ pc'[p] = "open"
        BY <3>1 DEF TypeInv, SyntheticTypeOK, To
      <3>3. /\ ParsesAsCert(before[cmd[p].root])
            /\ read[p].key = ParseOneCert(before[cmd[p].root]).key
        BY <1>8, <2>1, <2>2 DEF MatchInv, KeyMatchesRoot
      <3> QED BY <1>8, <2>1, <3>2, <3>3 DEF MadeFrom
    <2>3. CASE ~KeyMatchesRoot(read[p].key, read[p].root)
      <3>1. outputs' = outputs /\ To(p, "refused")
        BY <1>8, <2>3 DEF GenerateQuote
      <3>2. pc'[p] = "refused"
        BY <3>1 DEF TypeInv, SyntheticTypeOK, To
      <3> QED BY <1>5, <1>8, <3>1, <3>2
    <2> QED BY <2>2, <2>3
  <1>9. CASE Tick \/ UNCHANGED vars
    <2>1. /\ outputs' = outputs /\ pc' = pc /\ sole' = sole /\ before' = before /\ cmd' = cmd
          /\ read' = read
      BY <1>9 DEF Tick, vars, procVars, historyVars
    <2> QED BY <1>5, <2>1 DEF MatchInv
  <1>10. ASSUME NEW q \in Process, Step(q)
         PROVE  /\ outputs'[p] # <<>> => cmd'[p] \in Command /\ MadeFrom(p)'
                /\ pc'[p] = "generate" =>
                      /\ ParsesAsCert(before'[cmd'[p].root])
                      /\ read'[p].root = ParseOneCert(before'[cmd'[p].root])
    <2>1. q = p /\ sole = p /\ before' = before /\ cmd' = cmd
      BY <1>4, <1>10
    <2>2. CASE ReadRoot(p)
      BY <1>5, <1>7, <2>1, <2>2
    <2>3. CASE GenerateQuote(p)
      BY <1>8, <2>1, <2>3
    <2>4. CASE ReadKey(p) \/ ReadQuote(p) \/ Verify(p) \/ Open(p) \/ Fill(p) \/ Stop(p)
      BY <1>5, <1>6, <2>1, <2>4
    <2> QED BY <1>10, <2>1, <2>2, <2>3, <2>4 DEF Step
  <1> QED BY <1>2, <1>3, <1>9, <1>10 DEF Next

LEMMA MatchAlways == Spec => []MatchInv
  BY TypeAlways, AloneAlways, MatchInit, MatchStep, PTL DEF Spec

\* The outputs of a command that succeeded are on disk, and what it did not
\* write is as before.
LEMMA SuccessOnDisk ==
    ASSUME TypeInv, PrefixInv, NEW p \in Process, sole = p, pc[p] = "ok", Distinct(p)
    PROVE  /\ \A i \in 1..Len(outputs[p]) : files[outputs[p][i].path] = outputs[p][i].content
           /\ \A path \in Path \ OutputPaths(p) : files[path] = before[path]
  <1>1. Prefix(p) /\ done[p] = Len(outputs[p])
    BY DEF PrefixInv, Prefix
  <1>2. outputs[p] \in Seq(OutputRecord) /\ Len(outputs[p]) \in Nat
    <2>1. outputs[p] \in Seq(OutputRecord)
      BY DEF TypeInv, SyntheticTypeOK, OutputRecord
    <2> QED BY <2>1
  <1>3. DOMAIN outputs[p] = 1..Len(outputs[p])
    BY <1>2
  <1>4. \A i \in 1..(Len(outputs[p]) + 1) : i <= Len(outputs[p]) => i \in DOMAIN outputs[p]
    BY <1>2, <1>3
  <1> QED BY <1>1, <1>4 DEF Prefix, OutputPaths

LEMMA MatchSuccess ==
    TypeInv /\ PrefixInv /\ MatchInv => SuccessLeavesMatchingFiles
  <1> SUFFICES ASSUME TypeInv, PrefixInv, MatchInv, NEW p \in Process,
                      sole = p, pc[p] = "ok", outputs[p] # <<>>, Distinct(p)
               PROVE  LET c == cmd[p] IN
                      /\ c.op = "synthetic-root" =>
                            /\ ParsesAsKey(files[c.key]) /\ ParsesAsCert(files[c.root])
                            /\ KeyMatchesRoot(files[c.key].key, ParseOneCert(files[c.root]))
                      /\ c.op # "synthetic-root"
                           /\ (c.op = "synthesize" \/ c.root \notin OutputPaths(p)) =>
                            /\ ParsesAsQuote(files[c.quote]) /\ ParsesAsCert(files[c.root])
                            /\ files[c.quote].quote.certs[2].signer
                                 = ParseOneCert(files[c.root]).key
                            /\ c.chain # NoPath =>
                                  files[c.chain] = ChainFile(files[c.quote].quote.certs)
    BY DEF SuccessLeavesMatchingFiles
  <1> DEFINE c == cmd[p]
             out == outputs[p]
  <1>1. c \in Command /\ MadeFrom(p)
    BY DEF MatchInv
  <1>2. \A i \in 1..Len(out) : files[out[i].path] = out[i].content
    BY SuccessOnDisk
  <1>3. ASSUME NEW cert
        PROVE  ParsesAsCert(RootFile(cert)) /\ ParseOneCert(RootFile(cert)) = cert
    <2>1. RootFile(cert).kind = "cert" /\ RootFile(cert).cert = cert
      BY DEF RootFile
    <2> QED BY <2>1 DEF ParsesAsCert, ParseOneCert
  <1>4. ASSUME NEW n, NEW t, out = RootOutputs(c, n, t)
        PROVE  /\ ParsesAsKey(files[c.key]) /\ ParsesAsCert(files[c.root])
               /\ KeyMatchesRoot(files[c.key].key, ParseOneCert(files[c.root]))
    <2>1. /\ Len(out) = 2 /\ out[1] = Output(c.key, KeyFile(KeyOf(n, "root")))
          /\ out[2] = Output(c.root, RootFile(RootCert(n, t)))
      BY <1>4 DEF RootOutputs
    <2>2. files[out[1].path] = out[1].content /\ files[out[2].path] = out[2].content
      BY <1>2, <2>1
    <2>3. files[c.key] = KeyFile(KeyOf(n, "root")) /\ files[c.root] = RootFile(RootCert(n, t))
      BY <2>1, <2>2 DEF Output
    <2>4. ParsesAsCert(files[c.root]) /\ ParseOneCert(files[c.root]) = RootCert(n, t)
      BY <1>3, <2>3
    <2>5. RootCert(n, t).ca = TRUE /\ RootCert(n, t).key = KeyOf(n, "root")
      BY DEF RootCert, SyntheticCert
    <2>6. ParsesAsKey(files[c.key]) /\ files[c.key].key = KeyOf(n, "root")
      BY <2>3 DEF ParsesAsKey, KeyFile
    <2> QED BY <2>4, <2>5, <2>6 DEF KeyMatchesRoot
  <1>5. ASSUME NEW n, NEW t, out = SynthesizeOutputs(c, n, t)
        PROVE  /\ ParsesAsQuote(files[c.quote]) /\ ParsesAsCert(files[c.root])
               /\ files[c.quote].quote.certs[2].signer = ParseOneCert(files[c.root]).key
               /\ c.chain # NoPath => files[c.chain] = ChainFile(files[c.quote].quote.certs)
    <2> DEFINE quote == Quote(n, t, KeyOf(n, "root"))
    <2>1. /\ Len(out) >= 2 /\ Len(out) \in Nat /\ out[1] = Output(c.quote, QuoteFile(quote))
          /\ out[2] = Output(c.root, RootFile(RootCert(n, t)))
          /\ c.chain # NoPath => Len(out) = 3 /\ out[3] = Output(c.chain, ChainFile(quote.certs))
      <3>1. CASE c.chain = NoPath
        BY <1>5, <3>1 DEF SynthesizeOutputs, ChainOutput
      <3>2. CASE c.chain # NoPath
        BY <1>5, <3>2 DEF SynthesizeOutputs, ChainOutput
      <3> QED BY <3>1, <3>2
    <2> HIDE DEF quote
    <2>2. files[out[1].path] = out[1].content /\ files[out[2].path] = out[2].content
      BY <1>2, <2>1
    <2>3. files[c.quote] = QuoteFile(quote) /\ files[c.root] = RootFile(RootCert(n, t))
      BY <2>1, <2>2 DEF Output
    <2>4. ASSUME c.chain # NoPath PROVE files[c.chain] = ChainFile(quote.certs)
      <3>1. files[out[3].path] = out[3].content
        BY <1>2, <2>1, <2>4
      <3> QED BY <2>1, <2>4, <3>1 DEF Output
    <2>5. ParsesAsCert(files[c.root]) /\ ParseOneCert(files[c.root]) = RootCert(n, t)
      BY <1>3, <2>3
    <2>6. RootCert(n, t).key = KeyOf(n, "root") /\ quote.certs[2].signer = KeyOf(n, "root")
      BY DEF RootCert, SyntheticCert, quote, Quote, IntermediateCert
    <2>7. ParsesAsQuote(files[c.quote]) /\ files[c.quote].quote = quote
      BY <2>3 DEF ParsesAsQuote, QuoteFile
    <2> QED BY <2>4, <2>5, <2>6, <2>7
  <1>6. ASSUME NEW n, NEW t, ParsesAsCert(before[c.root]), c.op = "synthetic-quote",
               out = QuoteOutputs(c, n, t, ParseOneCert(before[c.root]).key),
               c.root \notin OutputPaths(p)
        PROVE  /\ ParsesAsQuote(files[c.quote]) /\ ParsesAsCert(files[c.root])
               /\ files[c.quote].quote.certs[2].signer = ParseOneCert(files[c.root]).key
               /\ c.chain # NoPath => files[c.chain] = ChainFile(files[c.quote].quote.certs)
    <2> DEFINE k == ParseOneCert(before[c.root]).key
               quote == Quote(n, t, k)
    <2>1. /\ Len(out) >= 1 /\ Len(out) \in Nat /\ out[1] = Output(c.quote, QuoteFile(quote))
          /\ c.chain # NoPath => Len(out) = 2 /\ out[2] = Output(c.chain, ChainFile(quote.certs))
      <3> HIDE DEF k
      <3>1. CASE c.chain = NoPath
        BY <1>6, <3>1 DEF QuoteOutputs, ChainOutput, k
      <3>2. CASE c.chain # NoPath
        BY <1>6, <3>2 DEF QuoteOutputs, ChainOutput, k
      <3> QED BY <3>1, <3>2
    <2> HIDE DEF k, quote
    <2>2. files[out[1].path] = out[1].content
      BY <1>2, <2>1
    <2>3. files[c.quote] = QuoteFile(quote)
      BY <2>1, <2>2 DEF Output
    <2>4. ASSUME c.chain # NoPath PROVE files[c.chain] = ChainFile(quote.certs)
      <3>1. files[out[2].path] = out[2].content
        BY <1>2, <2>1, <2>4
      <3> QED BY <2>1, <2>4, <3>1 DEF Output
    <2>5. files[c.root] = before[c.root]
      BY <1>1, <1>6, SuccessOnDisk, CommandAssumption
    <2>6. quote.certs[2].signer = k
      BY DEF quote, Quote, IntermediateCert, SyntheticCert
    <2>7. ParsesAsQuote(files[c.quote]) /\ files[c.quote].quote = quote
      BY <2>3 DEF ParsesAsQuote, QuoteFile
    <2> QED BY <1>6, <2>4, <2>5, <2>6, <2>7 DEF k
  <1>7. CASE c.op = "synthetic-root"
    BY <1>1, <1>4, <1>7 DEF MadeFrom
  <1>8. CASE c.op = "synthesize"
    BY <1>1, <1>5, <1>8 DEF MadeFrom
  <1>9. CASE c.op = "synthetic-quote"
    <2>1. ParsesAsCert(before[c.root])
      BY <1>1, <1>9 DEF MadeFrom
    <2>2. PICK n, t : out = QuoteOutputs(c, n, t, ParseOneCert(before[c.root]).key)
      BY <1>1, <1>9 DEF MadeFrom
    <2>3. c.root \notin OutputPaths(p) =>
            /\ ParsesAsQuote(files[c.quote]) /\ ParsesAsCert(files[c.root])
            /\ files[c.quote].quote.certs[2].signer = ParseOneCert(files[c.root]).key
            /\ c.chain # NoPath => files[c.chain] = ChainFile(files[c.quote].quote.certs)
      BY <1>6, <1>9, <2>1, <2>2
    <2> QED BY <1>9, <2>3
  <1> QED BY <1>1, <1>7, <1>8, <1>9 DEF MadeFrom

\* A command that ran alone and reports success leaves a key and a root
\* certificate, or a quote, its root certificate and its chain, that belong
\* together, whatever was there before (synthetic_cli.go:36-119).
THEOREM SuccessLeavesMatchingFilesAlways == Spec => []SuccessLeavesMatchingFiles
  BY TypeAlways, AloneAlways, MatchAlways, MatchSuccess, PTL
----------------------------------------------------------------------------
(* A quote and a certificate of generations: what the chain check finds *)

\* How many certificates there are to make a path of.
LEMMA PathLengths ==
    ASSUME NEW a, NEW b, NEW S \in SUBSET {a, b}
    PROVE  /\ Cardinality(S) \in Nat
           /\ S # {} => 1 \in 1..Cardinality(S)
           /\ S = {a, b} /\ a # b => 2 \in 1..Cardinality(S)
  <1>1. IsFiniteSet({a}) /\ Cardinality({a}) = 1
    BY FS_Singleton, Zenon
  <1>2. IsFiniteSet({a} \cup {b})
        /\ Cardinality({a} \cup {b}) =
             IF b \in {a} THEN Cardinality({a}) ELSE Cardinality({a}) + 1
    BY <1>1, FS_AddElement
  <1>3. {a} \cup {b} = {a, b}
    OBVIOUS
  <1>4. IsFiniteSet({a, b}) /\ (a # b => Cardinality({a, b}) = 2)
    BY <1>1, <1>2, <1>3
  <1>5. IsFiniteSet(S)
    BY <1>4, FS_Subset
  <1>6. Cardinality(S) \in Nat
    BY <1>5, FS_CardinalityType
  <1>7. ASSUME S # {} PROVE Cardinality(S) # 0
    <2>1. \A T : IsFiniteSet(T) => (Cardinality(T) = 0 <=> T = {})
      BY FS_EmptySet, Zenon
    <2> QED BY <1>5, <1>7, <2>1
  <1>8. S # {} => 1 \in 1..Cardinality(S)
    BY <1>6, <1>7
  <1>9. S = {a, b} /\ a # b => 2 \in 1..Cardinality(S)
    <2>1. ASSUME S = {a, b}, a # b PROVE Cardinality(S) = 2
      BY <1>4, <2>1
    <2> QED BY <2>1
  <1> QED BY <1>6, <1>8, <1>9

\* From a leaf through one intermediate: which roots are reached.
LEMMA TwoStepChain ==
    ASSUME NEW leaf, NEW int, NEW root, NEW t \in Nat, t # ZeroTime,
           int.ca, leaf.signer = int.key, int.signer # int.key,
           root.key = int.key => root = int
    PROVE  VerifyCertChain(leaf, <<int>>, root, t) <=>
             /\ ValidAt(leaf, t) /\ ValidAt(root, t)
             /\ \/ leaf = root
                \/ root = int
                \/ ValidAt(int, t) /\ root.ca /\ int.signer = root.key
  <1> DEFINE pool == Intermediates(<<int>>, root)
             usable == {cert \in pool \cup {root} : ValidAt(cert, t)}
             Reaches(n, path) ==
                /\ Issued(path[1], leaf) /\ path[n] = root
                /\ \A i \in 2..n : Issued(path[i], path[i - 1])
  <1>1. ToSet(<<int>>) = {int}
    BY DEF ToSet
  <1>2. pool = {int} \ {root}
    BY <1>1 DEF Intermediates, IsSelfSigned
  <1>3. pool \cup {root} = {int, root}
    BY <1>2
  <1>4. CurrentTime(t) = t
    BY DEF CurrentTime
  <1>5. VerifyCertChain(leaf, <<int>>, root, t) <=>
          /\ ValidAt(leaf, t) /\ ValidAt(root, t)
          /\ \/ leaf = root
             \/ \E n \in 1..Cardinality(usable) : \E path \in [1..n -> usable] : Reaches(n, path)
    BY <1>4 DEF VerifyCertChain, PathToRoot
  <1>6. usable \in SUBSET {int, root} /\ Cardinality(usable) \in Nat
    BY <1>3, PathLengths
  <1>7. ASSUME ValidAt(root, t), root = int
        PROVE  \E n \in 1..Cardinality(usable) : \E path \in [1..n -> usable] : Reaches(n, path)
    <2> DEFINE path == [i \in 1..1 |-> int]
    <2>1. int \in usable
      BY <1>3, <1>7
    <2>2. 1 \in 1..Cardinality(usable)
      BY <1>6, <2>1, PathLengths
    <2>3. path \in [1..1 -> usable]
      BY <2>1
    <2>4. Reaches(1, path)
      BY <1>7 DEF Issued
    <2> HIDE DEF path, usable, Reaches
    <2> QED BY <2>2, <2>3, <2>4
  <1>8. ASSUME ValidAt(root, t), root # int, ValidAt(int, t), root.ca, int.signer = root.key
        PROVE  \E n \in 1..Cardinality(usable) : \E path \in [1..n -> usable] : Reaches(n, path)
    <2> DEFINE path == [i \in 1..2 |-> IF i = 1 THEN int ELSE root]
    <2>1. usable = {int, root}
      BY <1>3, <1>8
    <2>2. 2 \in 1..Cardinality(usable)
      BY <1>6, <1>8, <2>1, PathLengths
    <2>3. path \in [1..2 -> usable]
      BY <2>1
    <2>4. path[1] = int /\ path[2] = root
      OBVIOUS
    <2>5. Issued(path[1], leaf) /\ Issued(path[2], path[1])
      BY <1>8, <2>4 DEF Issued
    <2> HIDE DEF path
    <2>6. Reaches(2, path)
      BY <2>4, <2>5
    <2> HIDE DEF usable, Reaches
    <2> QED BY <2>2, <2>3, <2>6
  <1>9. ASSUME NEW n \in 1..Cardinality(usable), NEW path \in [1..n -> usable], Reaches(n, path)
        PROVE  root = int \/ (ValidAt(int, t) /\ root.ca /\ int.signer = root.key)
    <2>1. n \in Nat /\ n >= 1
      BY <1>6
    <2>2. path[1] \in usable /\ Issued(path[1], leaf)
      BY <2>1, <1>9
    <2>3. path[1] \in {int, root} /\ path[1].key = int.key /\ ValidAt(path[1], t)
      BY <1>6, <2>2 DEF Issued
    <2>4. path[1] = int
      BY <2>3
    <2>5. CASE n = 1
      BY <1>9, <2>4, <2>5
    <2>6. CASE n # 1
      <3>1. 2 \in 1..n /\ 2 \in 2..n
        BY <2>1, <2>6
      <3>2. path[2] \in {int, root} /\ Issued(path[2], path[1])
        BY <1>6, <1>9, <3>1
      <3>3. path[2].ca /\ int.signer = path[2].key
        BY <2>4, <3>2 DEF Issued
      <3>4. path[2] = root
        BY <3>2, <3>3
      <3> QED BY <2>3, <2>4, <3>3, <3>4
    <2> QED BY <2>5, <2>6
  <1> HIDE DEF usable, Reaches
  <1> QED BY <1>5, <1>7, <1>8, <1>9

\* A verification accepts a quote of generation n under a certificate exactly
\* when the certificate vouches for it.
LEMMA MadeVerdict ==
    ASSUME NEW made \in Seq(Generation), NEW n \in DOMAIN made, NEW root \in Cert,
           MadeKey(made[n].root, made), MadeCert(root, made),
           NEW t \in Nat, t # ZeroTime
    PROVE  VerifyCertChain(QuoteMade(n, made).certs[1], <<QuoteMade(n, made).certs[2]>>, root, t)
             <=> Vouches(root.key, n, t, made)
  <1> DEFINE leaf == PCKCert(n, made[n].time)
             int == IntermediateCert(n, made[n].time, made[n].root)
  <1>1. QuoteMade(n, made).certs[1] = leaf /\ QuoteMade(n, made).certs[2] = int
    BY DEF QuoteMade, Quote
  <1>2. PICK m \in DOMAIN made : made[n].root = KeyOf(m, "root")
    BY DEF MadeKey
  <1>3. /\ leaf.key = KeyOf(n, "pck") /\ leaf.signer = KeyOf(n, "intermediate") /\ ~leaf.ca
        /\ int.key = KeyOf(n, "intermediate") /\ int.signer = KeyOf(m, "root") /\ int.ca
        /\ leaf.notBefore = made[n].time - Skew /\ leaf.notAfter = made[n].time + LeafLife
        /\ int.notBefore = made[n].time - Skew
        /\ int.notAfter = made[n].time + IntermediateLife
    BY <1>2 DEF PCKCert, IntermediateCert, SyntheticCert
  <1>4. /\ \A k, l : KeyOf(k, "pck") # KeyOf(l, "intermediate")
        /\ \A k, l : KeyOf(k, "pck") # KeyOf(l, "root")
        /\ \A k, l : KeyOf(k, "intermediate") # KeyOf(l, "root")
        /\ \A k, l, role : KeyOf(k, role) = KeyOf(l, role) => k = l
        /\ \A k, role : KeyOf(k, role).made = k
    BY DEF KeyOf
  <1>5. DOMAIN made \subseteq Nat \ {0}
    OBVIOUS
  <1>6. /\ made[n].time \in Nat
        /\ Skew \in Nat /\ LeafLife \in Nat /\ IntermediateLife \in Nat /\ RootLife \in Nat
        /\ LeafLife <= IntermediateLife
    <2>1. made[n] \in Generation
      OBVIOUS
    <2>2. made[n].time \in Nat
      BY <2>1 DEF Generation
    <2> QED BY <2>2, LifeAssumption
  <1>7. ValidAt(leaf, t) <=> WithinLife(n, LeafLife, t, made)
    BY <1>3 DEF ValidAt, WithinLife
  <1>8. ValidAt(leaf, t) => ValidAt(int, t)
    BY <1>3, <1>6 DEF ValidAt
  <1> HIDE DEF leaf, int
  <1> DEFINE Verdict == VerifyCertChain(leaf, <<int>>, root, t)
  <1>9. ASSUME root.key = int.key => root = int
        PROVE  Verdict <=>
                 /\ ValidAt(leaf, t) /\ ValidAt(root, t)
                 /\ \/ leaf = root
                    \/ root = int
                    \/ ValidAt(int, t) /\ root.ca /\ int.signer = root.key
    <2>1. int.ca /\ leaf.signer = int.key /\ int.signer # int.key
      BY <1>3, <1>4
    <2> QED BY <1>9, <2>1, TwoStepChain
  <1> HIDE DEF Verdict
  <1>10. ASSUME root.key.made = 0
         PROVE  Verdict <=> Vouches(root.key, n, t, made)
    <2>1. /\ root.key # KeyOf(n, "pck") /\ root.key # KeyOf(n, "intermediate")
          /\ root.key # KeyOf(m, "root")
      BY <1>4, <1>5, <1>10
    <2>2. root # leaf /\ root # int /\ root.key # int.key /\ int.signer # root.key
      BY <1>3, <2>1
    <2>3. ~Verdict
      BY <1>9, <2>2
    <2> QED BY <1>2, <2>1, <2>3 DEF Vouches
  <1>11. ASSUME NEW k \in DOMAIN made, root = RootCert(k, made[k].time)
         PROVE  Verdict <=> Vouches(root.key, n, t, made)
    <2>1. /\ root.key = KeyOf(k, "root") /\ root.ca
          /\ root.notBefore = made[k].time - Skew /\ root.notAfter = made[k].time + RootLife
      BY <1>11 DEF RootCert, SyntheticCert
    <2>2. root # leaf /\ root # int /\ root.key # int.key
      BY <1>3, <1>4, <2>1
    <2>3. ValidAt(root, t) <=> WithinLife(k, RootLife, t, made)
      BY <2>1 DEF ValidAt, WithinLife
    <2>4. int.signer = root.key <=> root.key = made[n].root
      BY <1>2, <1>3
    <2>5. Verdict <=> ValidAt(leaf, t) /\ ValidAt(root, t) /\ root.key = made[n].root
      BY <1>8, <1>9, <2>1, <2>2, <2>4
    <2>6. root.key.made = k /\ root.key \notin {KeyOf(n, "pck"), KeyOf(n, "intermediate")}
      BY <1>4, <2>1
    <2>7. Vouches(root.key, n, t, made) <=>
            /\ WithinLife(n, LeafLife, t, made)
            /\ root.key = made[n].root /\ WithinLife(k, RootLife, t, made)
      BY <2>6 DEF Vouches
    <2> QED BY <1>7, <2>3, <2>5, <2>7
  <1>12. ASSUME NEW k \in DOMAIN made, root = QuoteMade(k, made).certs[1]
         PROVE  Verdict <=> Vouches(root.key, n, t, made)
    <2>1. /\ root = PCKCert(k, made[k].time)
          /\ root.key = KeyOf(k, "pck") /\ ~root.ca
      BY <1>12 DEF QuoteMade, Quote, PCKCert, SyntheticCert
    <2>2. root # int /\ root.key # int.key /\ root.key # made[n].root
      BY <1>2, <1>3, <1>4, <2>1
    <2>3. root = leaf <=> k = n
      BY <1>3, <1>4, <2>1 DEF leaf
    <2>4. Verdict <=> ValidAt(leaf, t) /\ k = n
      BY <1>9, <2>1, <2>2, <2>3
    <2>5. root.key \in {KeyOf(n, "pck"), KeyOf(n, "intermediate")} <=> k = n
      BY <1>4, <2>1
    <2>6. Vouches(root.key, n, t, made) <=> WithinLife(n, LeafLife, t, made) /\ k = n
      BY <2>2, <2>5 DEF Vouches
    <2> QED BY <1>7, <2>4, <2>6
  <1>13. ASSUME NEW k \in DOMAIN made, root = QuoteMade(k, made).certs[2]
         PROVE  Verdict <=> Vouches(root.key, n, t, made)
    <2>1. /\ root = IntermediateCert(k, made[k].time, made[k].root)
          /\ root.key = KeyOf(k, "intermediate")
      BY <1>13 DEF QuoteMade, Quote, IntermediateCert, SyntheticCert
    <2>2. root # leaf /\ root.key # made[n].root /\ int.signer # root.key
      BY <1>2, <1>3, <1>4, <2>1
    <2>3. (root = int <=> k = n) /\ (root.key = int.key => root = int)
      BY <1>3, <1>4, <2>1 DEF int
    <2>4. Verdict <=> ValidAt(leaf, t) /\ ValidAt(root, t) /\ k = n
      BY <1>9, <2>2, <2>3
    <2>5. Verdict <=> ValidAt(leaf, t) /\ k = n
      BY <1>8, <2>3, <2>4
    <2>6. root.key \in {KeyOf(n, "pck"), KeyOf(n, "intermediate")} <=> k = n
      BY <1>4, <2>1
    <2>7. Vouches(root.key, n, t, made) <=> WithinLife(n, LeafLife, t, made) /\ k = n
      BY <2>2, <2>6 DEF Vouches
    <2> QED BY <1>7, <2>5, <2>7
  <1>14. Verdict <=> Vouches(root.key, n, t, made)
    BY <1>1, <1>10, <1>11, <1>12, <1>13 DEF MadeCert, Verdict
  <1> QED BY <1>1, <1>14 DEF Verdict
----------------------------------------------------------------------------
(* Everything on disk was made by a generation, or is somebody else's *)

AllMade(what, made) == \A i \in 1..Len(what) : MadeContent(what[i].content, made)

ReadMade(r, made) ==
    /\ r.key # Unread => MadeKey(r.key, made)
    /\ r.root # Unread => MadeCert(r.root, made)
    /\ MadeContent(r.quote, made)

RootsMade(made) == \A n \in DOMAIN made : MadeKey(made[n].root, made)

MadeInv ==
    /\ RootsMade(generations)
    /\ \A path \in Path : MadeContent(files[path], generations)
    /\ \A p \in Process : AllMade(outputs[p], generations) /\ ReadMade(read[p], generations)

\* What was made stays made.
LEMMA MadeMonotone ==
    ASSUME NEW made \in Seq(Generation), NEW g \in Generation, NEW new, new = Append(made, g)
    PROVE  /\ \A key : MadeKey(key, made) => MadeKey(key, new)
           /\ \A cert : MadeCert(cert, made) => MadeCert(cert, new)
           /\ \A content : MadeContent(content, made) => MadeContent(content, new)
  <1>1. /\ DOMAIN made \subseteq DOMAIN new
        /\ \A n \in DOMAIN made : new[n] = made[n]
    OBVIOUS
  <1>2. \A n \in DOMAIN made : QuoteMade(n, new) = QuoteMade(n, made)
    BY <1>1 DEF QuoteMade
  <1>3. \A key : MadeKey(key, made) => MadeKey(key, new)
    BY <1>1 DEF MadeKey
  <1>4. ASSUME NEW cert, MadeCert(cert, made) PROVE MadeCert(cert, new)
    <2>1. CASE cert.key.made = 0
      BY <2>1 DEF MadeCert
    <2>2. CASE cert.key.made # 0
      <3>1. PICK n \in DOMAIN made :
              \/ cert = RootCert(n, made[n].time)
              \/ cert \in {QuoteMade(n, made).certs[1], QuoteMade(n, made).certs[2]}
        BY <1>4, <2>2 DEF MadeCert
      <3>2. /\ n \in DOMAIN new
            /\ \/ cert = RootCert(n, new[n].time)
               \/ cert \in {QuoteMade(n, new).certs[1], QuoteMade(n, new).certs[2]}
        BY <1>1, <1>2, <3>1
      <3> QED BY <3>2 DEF MadeCert
    <2> QED BY <2>1, <2>2
  <1>5. ASSUME NEW content, MadeContent(content, made) PROVE MadeContent(content, new)
    <2>1. content.kind = "quote" => \E n \in DOMAIN new : content.quote = QuoteMade(n, new)
      BY <1>1, <1>2, <1>5 DEF MadeContent
    <2>2. content.kind = "chain" =>
            \E n \in DOMAIN new : content.certs = QuoteMade(n, new).certs
      BY <1>1, <1>2, <1>5 DEF MadeContent
    <2> QED BY <1>3, <1>4, <1>5, <2>1, <2>2 DEF MadeContent
  <1> QED BY <1>3, <1>4, <1>5

\* A new generation adds what is of it.
LEMMA NewMade ==
    ASSUME NEW made \in Seq(Generation), NEW t \in Nat, NEW k \in Key, NEW c \in Command,
           NEW new, new = Append(made, [time |-> t, root |-> k])
    PROVE  /\ k = KeyOf(Len(made) + 1, "root") =>
                 AllMade(SynthesizeOutputs(c, Len(made) + 1, t), new)
           /\ AllMade(RootOutputs(c, Len(made) + 1, t), new)
           /\ AllMade(QuoteOutputs(c, Len(made) + 1, t, k), new)
           /\ RootsMade(made) /\ MadeKey(k, new) => RootsMade(new)
           /\ MadeKey(KeyOf(Len(made) + 1, "root"), new)
  <1> DEFINE n == Len(made) + 1
             quote == Quote(n, t, k)
  <1>1. [time |-> t, root |-> k] \in Generation
    BY DEF Generation
  <1>2. n \in DOMAIN new /\ new[n] = [time |-> t, root |-> k]
    BY <1>1
  <1>3. QuoteMade(n, new) = quote
    BY <1>2 DEF QuoteMade
  <1>4. MadeKey(KeyOf(n, "root"), new)
    BY <1>2 DEF MadeKey
  <1>5. MadeCert(RootCert(n, t), new)
    BY <1>2 DEF MadeCert
  <1>6. ASSUME RootsMade(made), MadeKey(k, new) PROVE RootsMade(new)
    <2>1. \A m \in DOMAIN new : m = n \/ (m \in DOMAIN made /\ new[m] = made[m])
      BY <1>1
    <2>2. \A key : MadeKey(key, made) => MadeKey(key, new)
      BY <1>1, MadeMonotone
    <2> HIDE DEF n
    <2> QED BY <1>2, <1>6, <2>1, <2>2 DEF RootsMade
  <1> HIDE DEF n, quote
  <1>7. /\ MadeContent(KeyFile(KeyOf(n, "root")), new)
        /\ MadeContent(RootFile(RootCert(n, t)), new)
    BY <1>4, <1>5 DEF MadeContent, KeyFile, RootFile
  <1>8. /\ MadeContent(QuoteFile(quote), new)
        /\ MadeContent(ChainFile(quote.certs), new)
    BY <1>2, <1>3 DEF MadeContent, QuoteFile, ChainFile
  <1>9. AllMade(RootOutputs(c, n, t), new)
    BY <1>7 DEF AllMade, RootOutputs, Output
  <1>10. AllMade(QuoteOutputs(c, n, t, k), new)
    BY <1>8 DEF AllMade, QuoteOutputs, ChainOutput, Output, quote
  <1>11. ASSUME k = KeyOf(n, "root")
         PROVE  AllMade(SynthesizeOutputs(c, n, t), new)
    BY <1>7, <1>8, <1>11 DEF AllMade, SynthesizeOutputs, ChainOutput, Output, quote
  <1> QED BY <1>4, <1>6, <1>9, <1>10, <1>11 DEF n

LEMMA MadeParsed ==
    ASSUME NEW content, NEW made, MadeContent(content, made), ParsesAsCert(content)
    PROVE  MadeCert(ParseOneCert(content), made)
  <1>1. CASE content.kind = "cert"
    BY <1>1 DEF MadeContent, ParseOneCert
  <1>2. CASE content.kind = "chain"
    <2>1. PICK n \in DOMAIN made : content.certs = QuoteMade(n, made).certs
      BY <1>2 DEF MadeContent
    <2>2. ParseOneCert(content) = QuoteMade(n, made).certs[1]
      BY <1>2, <2>1 DEF ParseOneCert
    <2> QED BY <2>2 DEF MadeCert
  <1>3. CASE content.kind = "quote"
    <2>1. PICK n \in DOMAIN made : content.quote = QuoteMade(n, made)
      BY <1>3 DEF MadeContent
    <2>2. ParseOneCert(content) = QuoteMade(n, made).certs[2]
      BY <1>3, <2>1 DEF ParseOneCert
    <2> QED BY <2>2 DEF MadeCert
  <1> QED BY <1>1, <1>2, <1>3 DEF ParsesAsCert

LEMMA MadeInit == Init => MadeInv
  <1> SUFFICES ASSUME Init PROVE MadeInv
    OBVIOUS
  <1>1. /\ RootsMade(generations)
        /\ \A path \in Path : MadeContent(files[path], generations)
    BY HistoryAssumption DEF Init, RootsMade
  <1>2. ReadMade(NothingRead, generations)
    BY DEF ReadMade, NothingRead, Unread, MadeContent
  <1>3. \A p \in Process : read[p] = NothingRead /\ outputs[p] = <<>>
    BY DEF Init
  <1>4. AllMade(<<>>, generations)
    BY DEF AllMade
  <1> QED BY <1>1, <1>2, <1>3, <1>4 DEF MadeInv

LEMMA MadeStep == TypeInv /\ MadeInv /\ [Next]_vars => MadeInv'
  <1> SUFFICES ASSUME TypeInv, MadeInv, [Next]_vars PROVE MadeInv'
    OBVIOUS
  <1>1. /\ generations \in Seq(Generation) /\ now \in Nat /\ NextGeneration = Len(generations) + 1
        /\ KeyOf(NextGeneration, "root") \in Key
    BY KeyTyped, LifeAssumption DEF TypeInv, SyntheticTypeOK, NextGeneration
  <1>2. ASSUME NEW g \in Generation, generations' = Append(generations, g)
        PROVE  /\ \A path \in Path : MadeContent(files[path], generations')
               /\ \A p \in Process :
                     AllMade(outputs[p], generations') /\ ReadMade(read[p], generations')
    <2>1. /\ \A key : MadeKey(key, generations) => MadeKey(key, generations')
          /\ \A cert : MadeCert(cert, generations) => MadeCert(cert, generations')
          /\ \A content : MadeContent(content, generations) => MadeContent(content, generations')
      BY <1>1, <1>2, MadeMonotone
    <2>2. \A path \in Path : MadeContent(files[path], generations')
      BY <2>1 DEF MadeInv
    <2>3. \A p \in Process : AllMade(outputs[p], generations')
      BY <2>1 DEF MadeInv, AllMade
    <2>4. \A p \in Process : ReadMade(read[p], generations')
      BY <2>1 DEF MadeInv, ReadMade
    <2> QED BY <2>2, <2>3, <2>4
  <1>13. ASSUME NEW g \in Generation, generations' = Append(generations, g)
         PROVE  /\ \A key : MadeKey(key, generations) => MadeKey(key, generations')
                /\ MadeKey(g.root, generations') => RootsMade(generations')
    <2>1. \A key : MadeKey(key, generations) => MadeKey(key, generations')
      BY <1>1, <1>13, MadeMonotone
    <2>2. \A m \in DOMAIN generations' :
            \/ generations'[m] = g
            \/ m \in DOMAIN generations /\ generations'[m] = generations[m]
      BY <1>1, <1>13
    <2>3. RootsMade(generations)
      BY DEF MadeInv
    <2> QED BY <2>1, <2>2, <2>3 DEF RootsMade
  <1>3. ASSUME NEW p \in Process, NEW c \in Command, NEW place, NEW what,
               Start(p, c, place, what), AllMade(what, generations'), RootsMade(generations'),
               \/ generations' = generations
               \/ \E g \in Generation : generations' = Append(generations, g)
        PROVE  MadeInv'
    <2>1. /\ \A path \in Path : MadeContent(files[path], generations')
          /\ \A q \in Process :
                AllMade(outputs[q], generations') /\ ReadMade(read[q], generations')
      BY <1>2, <1>3 DEF MadeInv
    <2>2. \A q \in Process :
            outputs'[q] \in {what, outputs[q], <<>>} /\ read'[q] \in {NothingRead, read[q]}
      BY <1>3 DEF Start
    <2>3. AllMade(<<>>, generations') /\ ReadMade(NothingRead, generations')
      BY DEF AllMade, ReadMade, NothingRead, Unread, MadeContent
    <2>4. \A q \in Process :
            AllMade(outputs'[q], generations') /\ ReadMade(read'[q], generations')
      BY <1>3, <2>1, <2>2, <2>3
    <2>5. files' = files
      BY <1>3 DEF Start
    <2> QED BY <1>3, <2>1, <2>4, <2>5 DEF MadeInv, AllMade, ReadMade, RootsMade
  <1>4. ASSUME generations' = Append(generations,
                                [time |-> now, root |-> KeyOf(NextGeneration, "root")])
        PROVE  /\ RootsMade(generations')
               /\ [time |-> now, root |-> KeyOf(NextGeneration, "root")] \in Generation
               /\ \A c \in Command :
                     /\ AllMade(SynthesizeOutputs(c, NextGeneration, now), generations')
                     /\ AllMade(RootOutputs(c, NextGeneration, now), generations')
    <2>1. [time |-> now, root |-> KeyOf(NextGeneration, "root")] \in Generation
      BY <1>1 DEF Generation
    <2>2. MadeKey(KeyOf(NextGeneration, "root"), generations')
      <3>1. /\ NextGeneration \in DOMAIN generations'
        BY <1>1, <1>4, <2>1
      <3> QED BY <3>1 DEF MadeKey
    <2>6. RootsMade(generations')
      BY <1>4, <1>13, <2>1, <2>2
    <2>7. ASSUME NEW c \in Command
          PROVE  /\ AllMade(SynthesizeOutputs(c, NextGeneration, now), generations')
                 /\ AllMade(RootOutputs(c, NextGeneration, now), generations')
      BY <1>1, <1>4, NewMade
    <2> QED BY <2>1, <2>6, <2>7
  <1>5. ASSUME NEW p \in Process, NEW c \in Command, Synthesize(p, c) PROVE MadeInv'
    <2>1. generations' = Append(generations, [time |-> now, root |-> KeyOf(NextGeneration, "root")])
      BY <1>5 DEF Synthesize, Generate
    <2>2. Start(p, c, "open", SynthesizeOutputs(c, NextGeneration, now))
      BY <1>5 DEF Synthesize
    <2> QED BY <1>3, <1>4, <2>1, <2>2
  <1>6. ASSUME NEW p \in Process, NEW c \in Command, GenerateRoot(p, c) PROVE MadeInv'
    <2>1. generations' = Append(generations, [time |-> now, root |-> KeyOf(NextGeneration, "root")])
      BY <1>6 DEF GenerateRoot, Generate
    <2>2. Start(p, c, "open", RootOutputs(c, NextGeneration, now))
      BY <1>6 DEF GenerateRoot
    <2> QED BY <1>3, <1>4, <2>1, <2>2
  <1>7. ASSUME NEW p \in Process, NEW c \in Command, BeginQuote(p, c) \/ BeginVerify(p, c)
        PROVE  MadeInv'
    <2>1. AllMade(<<>>, generations')
      BY DEF AllMade
    <2>2. RootsMade(generations)
      BY DEF MadeInv
    <2> QED BY <1>3, <1>7, <2>1, <2>2 DEF BeginQuote, BeginVerify
  <1>8. ASSUME NEW p \in Process, GenerateQuote(p) PROVE MadeInv'
    <2>1. /\ cmd[p] \in Command /\ read[p].key \in Key /\ pc[p] = "generate"
          /\ cmd[p].op = "synthetic-quote"
      BY <1>8 DEF GenerateQuote, TypeInv, PlaceOK, Ended
    <2>2. CASE KeyMatchesRoot(read[p].key, read[p].root)
      <3> DEFINE what == QuoteOutputs(cmd[p], NextGeneration, now, read[p].key)
      <3>1. generations' = Append(generations, [time |-> now, root |-> read[p].key])
        BY <1>8, <2>2 DEF GenerateQuote, Generate, KeyMatchesRoot
      <3>2. [time |-> now, root |-> read[p].key] \in Generation
        BY <1>1, <2>1 DEF Generation
      <3>3. AllMade(what, generations')
        BY <1>1, <2>1, <3>1, NewMade
      <3>4. MadeKey(read[p].key, generations')
        <4>1. read[p].key # Unread
          BY <2>1 DEF Unread, Key
        <4>2. MadeKey(read[p].key, generations)
          BY <4>1 DEF MadeInv, ReadMade
        <4> QED BY <1>13, <3>1, <3>2, <4>2
      <3>5. RootsMade(generations')
        BY <1>13, <3>1, <3>2, <3>4
      <3>6. outputs' = [outputs EXCEPT ![p] = what] /\ files' = files /\ read' = read
        BY <1>8, <2>2 DEF GenerateQuote
      <3>7. \A q \in Process : outputs'[q] \in {what, outputs[q]}
        BY <3>6 DEF TypeInv, SyntheticTypeOK
      <3>8. /\ \A path \in Path : MadeContent(files[path], generations')
            /\ \A q \in Process :
                  AllMade(outputs[q], generations') /\ ReadMade(read[q], generations')
        BY <1>2, <3>1, <3>2
      <3> HIDE DEF what
      <3>9. \A q \in Process : AllMade(outputs'[q], generations')
        BY <3>3, <3>7, <3>8
      <3> QED BY <3>5, <3>6, <3>8, <3>9 DEF MadeInv, AllMade, ReadMade, RootsMade
    <2>3. CASE ~KeyMatchesRoot(read[p].key, read[p].root)
      <3>1. /\ files' = files /\ outputs' = outputs /\ read' = read
            /\ generations' = generations
        BY <1>8, <2>3 DEF GenerateQuote
      <3> QED BY <3>1 DEF MadeInv, AllMade, ReadMade, RootsMade
    <2> QED BY <2>2, <2>3
  <1>9. ASSUME NEW p \in Process, Open(p) \/ Fill(p) PROVE MadeInv'
    <2>1. /\ outputs' = outputs /\ generations' = generations /\ read' = read
          /\ \/ files' = [files EXCEPT ![NextOutput(p).path] = Torn]
             \/ files' = [files EXCEPT ![NextOutput(p).path] = NextOutput(p).content]
      BY <1>9 DEF Open, Fill
    <2>2. done[p] < Len(outputs[p])
      BY <1>9 DEF Open, Fill, TypeInv, SyntheticTypeOK
    <2>3. MadeContent(NextOutput(p).content, generations)
      BY <2>2, NextOutputTyped DEF NextOutput, TypeInv, MadeInv, AllMade
    <2>4. MadeContent(Torn, generations)
      BY DEF MadeContent, Torn
    <2>5. \A path \in Path : files'[path] \in {files[path], Torn, NextOutput(p).content}
      BY <2>1 DEF TypeInv, SyntheticTypeOK
    <2>6. \A path \in Path : MadeContent(files'[path], generations)
      BY <2>3, <2>4, <2>5 DEF MadeInv
    <2> QED BY <2>1, <2>6 DEF MadeInv, AllMade, ReadMade, RootsMade
  <1>10. ASSUME NEW p \in Process, ReadKey(p) \/ ReadQuote(p) \/ ReadRoot(p) PROVE MadeInv'
    <2>1. files' = files /\ outputs' = outputs /\ generations' = generations
      BY <1>10 DEF ReadKey, ReadQuote, ReadRoot
    <2>2. ASSUME NEW path \in Path PROVE MadeContent(files[path], generations)
      BY DEF MadeInv
    <2>3. cmd[p] \in Command /\ cmd[p].root \in Path
      BY <1>10, CommandAssumption DEF ReadKey, ReadQuote, ReadRoot, TypeInv, PlaceOK, Ended
    <2>4. ASSUME NEW q \in Process, q # p PROVE read'[q] = read[q]
      BY <1>10, <2>4 DEF ReadKey, ReadQuote, ReadRoot, TypeInv, SyntheticTypeOK
    <2>5. ReadMade(read[p], generations)
      BY DEF MadeInv
    <2>6. CASE ReadKey(p)
      <3>1. cmd[p].key \in Path
        BY <2>3, <2>6, CommandAssumption DEF ReadKey, TypeInv, PlaceOK
      <3>2. \/ read' = read
            \/ /\ files[cmd[p].key].kind = "key"
               /\ read' = [read EXCEPT ![p].key = files[cmd[p].key].key]
        BY <2>6 DEF ReadKey, ParsesAsKey
      <3>3. files[cmd[p].key].kind = "key" => MadeKey(files[cmd[p].key].key, generations)
        BY <2>2, <3>1 DEF MadeContent
      <3>4. /\ p \in DOMAIN read
            /\ read[p] \in [key : Key \cup {Unread}, root : Cert \cup {Unread},
                            quote : Content \cup {Unread}]
        BY DEF TypeInv, SyntheticTypeOK
      <3>5. /\ read'[p].root = read[p].root /\ read'[p].quote = read[p].quote
            /\ \/ read'[p].key = read[p].key
               \/ /\ files[cmd[p].key].kind = "key"
                  /\ read'[p].key = files[cmd[p].key].key
        BY <3>2, <3>4
      <3>6. ReadMade(read'[p], generations)
        BY <2>5, <3>3, <3>5 DEF ReadMade
      <3> QED BY <2>1, <2>4, <3>6 DEF MadeInv, AllMade, ReadMade, RootsMade
    <2>7. CASE ReadQuote(p)
      <3>1. cmd[p].quote \in Path
        BY <2>3, <2>7, CommandAssumption DEF ReadQuote, TypeInv, PlaceOK
      <3>2. \/ read' = read
            \/ read' = [read EXCEPT ![p].quote = files[cmd[p].quote]]
        BY <2>7 DEF ReadQuote
      <3>3. ReadMade(read'[p], generations)
        BY <2>2, <2>5, <3>1, <3>2 DEF ReadMade, TypeInv, SyntheticTypeOK
      <3> QED BY <2>1, <2>4, <3>3 DEF MadeInv, AllMade, ReadMade, RootsMade
    <2>8. CASE ReadRoot(p)
      <3> DEFINE content == files[cmd[p].root]
      <3>1. \/ read' = read
            \/ ParsesAsCert(content) /\ read' = [read EXCEPT ![p].root = ParseOneCert(content)]
        BY <2>8 DEF ReadRoot
      <3>2. ParsesAsCert(content) => MadeCert(ParseOneCert(content), generations)
        BY <2>2, <2>3, MadeParsed
      <3> HIDE DEF content
      <3>3. ReadMade(read'[p], generations)
        BY <2>5, <3>1, <3>2 DEF ReadMade, TypeInv, SyntheticTypeOK
      <3> QED BY <2>1, <2>4, <3>3 DEF MadeInv, AllMade, ReadMade, RootsMade
    <2> QED BY <1>10, <2>6, <2>7, <2>8
  <1>11. ASSUME NEW p \in Process, Verify(p) \/ Stop(p) PROVE MadeInv'
    <2>1. files' = files /\ outputs' = outputs /\ generations' = generations /\ read' = read
      BY <1>11 DEF Verify, Stop
    <2> QED BY <2>1 DEF MadeInv, AllMade, ReadMade, RootsMade
  <1>12. CASE Tick \/ UNCHANGED vars
    <2>1. files' = files /\ outputs' = outputs /\ generations' = generations /\ read' = read
      BY <1>12 DEF Tick, vars, procVars, historyVars
    <2> QED BY <2>1 DEF MadeInv, AllMade, ReadMade, RootsMade
  <1> QED BY <1>5, <1>6, <1>7, <1>8, <1>9, <1>10, <1>11, <1>12 DEF Next, Step
----------------------------------------------------------------------------
(* A verification is judged by what it has read *)

Acceptable(content, root, t, made) ==
    ParsesAsQuote(content) /\ Vouches(root.key, content.quote.certs[1].key.made, t, made)

\* VerdictByGeneration for one process.
Judged(p) ==
    pc[p] \in {"ok", "refused"} /\ cmd[p].op = "verify" /\ read[p].root # Unread =>
        (pc[p] = "ok" <=> Acceptable(read[p].quote, read[p].root, began[p], generations))

VerifyPlace(p) ==
    /\ cmd[p].op = "verify" => began[p] # ZeroTime
    /\ pc[p] \in {"readKey", "readQuote", "readRoot"} => read[p].root = Unread
    /\ pc[p] = "verify" => read[p].root # Unread
    /\ pc[p] \in {"open", "fill"} => cmd[p].op # "verify"

JudgedInv == \A p \in Process : VerifyPlace(p) /\ Judged(p)

LEMMA JudgedIsVerdict == JudgedInv => VerdictByGeneration
  BY DEF JudgedInv, Judged, Acceptable, VerdictByGeneration

LEMMA JudgedInit == Init => JudgedInv
  <1> SUFFICES ASSUME Init PROVE JudgedInv
    OBVIOUS
  <1>1. \A p \in Process : pc[p] = "ready" /\ cmd[p] = NoCommand /\ read[p] = NothingRead
    BY DEF Init
  <1> QED BY <1>1 DEF JudgedInv, Judged, VerifyPlace, NoCommand

\* A generation number is that of the PCK certificate.
LEMMA QuoteNumber ==
    ASSUME NEW n, NEW made
    PROVE  /\ QuoteMade(n, made).certs[1].key.made = n
           /\ QuoteMade(n, made).parses /\ QuoteMade(n, made).certType = 5
           /\ Len(QuoteMade(n, made).certs) = 2
           /\ Tail(QuoteMade(n, made).certs) = <<QuoteMade(n, made).certs[2]>>
           /\ VerifyQuoteLocalSignatures(QuoteMade(n, made), QuoteMade(n, made).certs[1])
  <1> DEFINE leaf == PCKCert(n, made[n].time)
             int == IntermediateCert(n, made[n].time, made[n].root)
             quote == QuoteMade(n, made)
  <1>1. /\ quote.parses = TRUE /\ quote.certType = 5 /\ quote.certs = <<leaf, int>>
        /\ quote.qeSigner = KeyOf(n, "pck") /\ quote.akBound = TRUE /\ quote.signedByAK = TRUE
    BY DEF QuoteMade, Quote
  <1>2. leaf.key = KeyOf(n, "pck") /\ leaf.key.made = n
    BY DEF PCKCert, SyntheticCert, KeyOf
  <1> HIDE DEF leaf, int, quote
  <1>3. quote.certs[1] = leaf /\ quote.certs[2] = int
        /\ Len(quote.certs) = 2 /\ Tail(quote.certs) = <<int>>
    BY <1>1
  <1>4. VerifyQuoteLocalSignatures(quote, leaf)
    BY <1>1, <1>2 DEF VerifyQuoteLocalSignatures, QEReportSigned, AKBound, QuoteSigned
  <1> QED BY <1>1, <1>2, <1>3, <1>4 DEF quote

\* A later generation changes no judgement.
LEMMA AcceptableStays ==
    ASSUME NEW made \in Seq(Generation), NEW g \in Generation, NEW new, new = Append(made, g),
           RootsMade(made), NEW content, MadeContent(content, made), NEW root, NEW t
    PROVE  Acceptable(content, root, t, new) <=> Acceptable(content, root, t, made)
  <1>1. CASE ~ParsesAsQuote(content)
    BY <1>1 DEF Acceptable
  <1>2. CASE ParsesAsQuote(content)
    <2>1. PICK n \in DOMAIN made : content.quote = QuoteMade(n, made)
      BY <1>2 DEF MadeContent, ParsesAsQuote
    <2>2. content.quote.certs[1].key.made = n
      BY <2>1, QuoteNumber
    <2>3. /\ DOMAIN made \subseteq DOMAIN new
          /\ \A m \in DOMAIN made : new[m] = made[m]
      OBVIOUS
    <2>4. PICK m \in DOMAIN made : made[n].root = KeyOf(m, "root")
      BY <2>1 DEF RootsMade, MadeKey
    <2>5. made[n].root.made = m
      BY <2>4 DEF KeyOf
    <2>6. /\ WithinLife(n, LeafLife, t, new) <=> WithinLife(n, LeafLife, t, made)
          /\ WithinLife(m, RootLife, t, new) <=> WithinLife(m, RootLife, t, made)
      BY <2>3 DEF WithinLife
    <2>7. Vouches(root.key, n, t, new) <=> Vouches(root.key, n, t, made)
      BY <2>3, <2>5, <2>6 DEF Vouches
    <2> QED BY <2>2, <2>7 DEF Acceptable
  <1> QED BY <1>1, <1>2

\* What a verification computes is whether the certificate vouches for the quote.
LEMMA VerifiedIsAcceptable ==
    ASSUME NEW made \in Seq(Generation), RootsMade(made),
           NEW content, MadeContent(content, made),
           NEW root \in Cert, MadeCert(root, made), NEW t \in Nat, t # ZeroTime
    PROVE  QuoteCryptoOK(content, root, t) <=> Acceptable(content, root, t, made)
  <1>1. CASE ~ParsesAsQuote(content)
    BY <1>1 DEF Acceptable, QuoteCryptoOK
  <1>2. CASE ParsesAsQuote(content)
    <2>1. PICK n \in DOMAIN made : content.quote = QuoteMade(n, made)
      BY <1>2 DEF MadeContent, ParsesAsQuote
    <2> DEFINE quote == QuoteMade(n, made)
               r == [quote |-> quote, root |-> root, time |-> t]
    <2>2. EvidenceOK(r) <=> VerifyCertChain(quote.certs[1], <<quote.certs[2]>>, root, t)
      <3>1. /\ r.quote = quote /\ r.root = root /\ r.time = t
            /\ PCKLeaf(r) = quote.certs[1]
        BY DEF PCKLeaf
      <3> HIDE DEF r, quote
      <3>2. /\ quote.parses /\ quote.certType = 5 /\ Len(quote.certs) >= 2
            /\ Tail(quote.certs) = <<quote.certs[2]>>
        BY QuoteNumber DEF quote
      <3> QED BY <3>1, <3>2 DEF EvidenceOK
    <2>3. QuoteCryptoOK(content, root, t) <=> EvidenceOK(r)
      <3>1. VerifyQuoteLocalSignatures(quote, quote.certs[1])
        BY QuoteNumber
      <3> QED BY <1>2, <2>1, <3>1 DEF QuoteCryptoOK, PCKLeaf
    <2>4. MadeKey(made[n].root, made)
      BY <2>1 DEF RootsMade
    <2>5. VerifyCertChain(quote.certs[1], <<quote.certs[2]>>, root, t)
             <=> Vouches(root.key, n, t, made)
      BY <2>1, <2>4, MadeVerdict
    <2>6. content.quote.certs[1].key.made = n
      BY <2>1, QuoteNumber
    <2> QED BY <1>2, <2>2, <2>3, <2>5, <2>6 DEF Acceptable
  <1> QED BY <1>1, <1>2

LEMMA JudgedStep == TypeInv /\ MadeInv /\ JudgedInv /\ [Next]_vars => JudgedInv'
  <1> SUFFICES ASSUME TypeInv, MadeInv, JudgedInv, [Next]_vars PROVE JudgedInv'
    OBVIOUS
  <1>1. /\ generations \in Seq(Generation) /\ RootsMade(generations)
        /\ now \in Nat /\ now # ZeroTime
        /\ NextGeneration = Len(generations) + 1 /\ KeyOf(NextGeneration, "root") \in Key
    BY KeyTyped, LifeAssumption
       DEF TypeInv, SyntheticTypeOK, NextGeneration, MadeInv, ZeroTime
  <1>2. ASSUME NEW p \in Process, pc'[p] = pc[p], cmd'[p] = cmd[p], read'[p] = read[p],
               began'[p] = began[p],
               \/ generations' = generations
               \/ \E g \in Generation : generations' = Append(generations, g)
        PROVE  VerifyPlace(p)' /\ Judged(p)'
    <2>1. MadeContent(read[p].quote, generations)
      BY DEF MadeInv, ReadMade
    <2>2. Acceptable(read[p].quote, read[p].root, began[p], generations')
            <=> Acceptable(read[p].quote, read[p].root, began[p], generations)
      BY <1>1, <1>2, <2>1, AcceptableStays
    <2>3. VerifyPlace(p) /\ Judged(p)
      BY DEF JudgedInv
    <2> QED BY <1>2, <2>2, <2>3 DEF VerifyPlace, Judged
  <1>3. ASSUME NEW p \in Process, NEW c \in Command, NEW what,
               NEW place \in {"open", "readKey", "readQuote"},
               Start(p, c, place, what), c.op = "verify" => place = "readQuote",
               \/ generations' = generations
               \/ \E g \in Generation : generations' = Append(generations, g)
        PROVE  JudgedInv'
    <2>1. ASSUME c.op = "verify" PROVE VerifyTime(c) # ZeroTime
      BY <1>1, <2>1 DEF VerifyTime
    <2>2. /\ pc'[p] = place /\ cmd'[p] = c /\ read'[p] = NothingRead
          /\ began'[p] = VerifyTime(c)
      BY <1>3 DEF Start
    <2>3. VerifyPlace(p)' /\ Judged(p)'
      BY <1>3, <2>1, <2>2 DEF VerifyPlace, Judged, NothingRead
    <2>4. ASSUME NEW q \in Process \ {p} PROVE VerifyPlace(q)' /\ Judged(q)'
      <3>1. CASE Active(q)
        <4>1. /\ pc'[q] = pc[q] /\ cmd'[q] = cmd[q] /\ read'[q] = read[q]
              /\ began'[q] = began[q]
          BY <1>3, <3>1 DEF Start
        <4> QED BY <1>2, <1>3, <4>1
      <3>2. CASE ~Active(q)
        <4>1. pc'[q] = "ready" /\ cmd'[q] = NoCommand
          BY <1>3, <3>2 DEF Start
        <4> QED BY <4>1 DEF VerifyPlace, Judged, NoCommand
      <3> QED BY <3>1, <3>2
    <2> QED BY <2>3, <2>4 DEF JudgedInv
  <1>4. [time |-> now, root |-> KeyOf(NextGeneration, "root")] \in Generation
    BY <1>1 DEF Generation
  <1>5. ASSUME NEW p \in Process, NEW c \in Command,
               Synthesize(p, c) \/ GenerateRoot(p, c) \/ BeginQuote(p, c) \/ BeginVerify(p, c)
        PROVE  JudgedInv'
    <2>1. CASE Synthesize(p, c) \/ GenerateRoot(p, c)
      BY <1>3, <1>4, <2>1 DEF Synthesize, GenerateRoot, Generate
    <2>2. CASE BeginQuote(p, c) \/ BeginVerify(p, c)
      BY <1>3, <2>2 DEF BeginQuote, BeginVerify
    <2> QED BY <1>5, <2>1, <2>2
  <1>6. ASSUME NEW p \in Process, Step(p) PROVE JudgedInv'
    <2>1. VerifyPlace(p) /\ Judged(p)
      BY DEF JudgedInv
    <2>2. cmd' = cmd /\ began' = began
      BY <1>6 DEF Step, ReadKey, ReadQuote, ReadRoot, GenerateQuote, Verify, Open, Fill, Stop,
                  Elsewhere
    <2>3. ASSUME NEW place, pc' = [pc EXCEPT ![p] = place] PROVE pc'[p] = place
      BY <2>3 DEF TypeInv, SyntheticTypeOK
    <2>4. \/ generations' = generations
          \/ \E g \in Generation : generations' = Append(generations, g)
      <3>1. CASE GenerateQuote(p)
        <4>1. ASSUME KeyMatchesRoot(read[p].key, read[p].root)
              PROVE  [time |-> now, root |-> read[p].root.key] \in Generation
          <5>1. read[p].root \in Cert
            BY <3>1 DEF GenerateQuote, TypeInv, PlaceOK
          <5>2. read[p].root.key \in Key
            BY <5>1 DEF Cert
          <5> QED BY <1>1, <5>2 DEF Generation
        <4> QED BY <3>1, <4>1 DEF GenerateQuote, Generate
      <3>2. CASE ~GenerateQuote(p)
        BY <1>6, <3>2 DEF Step, ReadKey, ReadQuote, ReadRoot, Verify, Open, Fill, Stop
      <3> QED BY <3>1, <3>2
    <2>5. ASSUME NEW q \in Process \ {p} PROVE VerifyPlace(q)' /\ Judged(q)'
      <3>1. pc'[q] = pc[q]
        <4>1. \E place : pc' = [pc EXCEPT ![p] = place]
          BY <1>6 DEF Step, ReadKey, ReadQuote, ReadRoot, GenerateQuote, Verify, Open, Fill,
                      Stop, To
        <4> QED BY <4>1 DEF TypeInv, SyntheticTypeOK
      <3>2. read'[q] = read[q]
        BY <1>6 DEF Step, ReadKey, ReadQuote, ReadRoot, GenerateQuote, Verify, Open, Fill,
                    Stop, TypeInv, SyntheticTypeOK
      <3> QED BY <1>2, <2>2, <2>4, <3>1, <3>2
    <2>6. /\ p \in DOMAIN read
          /\ read[p] \in [key : Key \cup {Unread}, root : Cert \cup {Unread},
                          quote : Content \cup {Unread}]
      BY DEF TypeInv, SyntheticTypeOK
    <2>7. ASSUME ReadKey(p) PROVE VerifyPlace(p)' /\ Judged(p)'
      <3>1. read'[p].root = read[p].root
        BY <2>6, <2>7 DEF ReadKey
      <3>2. pc[p] = "readKey" /\ cmd[p].op = "synthetic-quote"
        BY <2>7 DEF ReadKey, TypeInv, PlaceOK
      <3>3. pc'[p] \in {"readRoot", "refused"}
        BY <2>3, <2>7 DEF ReadKey, To
      <3> QED BY <2>1, <2>2, <3>1, <3>2, <3>3 DEF VerifyPlace, Judged
    <2>8. ASSUME ReadQuote(p) PROVE VerifyPlace(p)' /\ Judged(p)'
      <3>1. read'[p].root = read[p].root
        BY <2>6, <2>8 DEF ReadQuote
      <3>2. pc[p] = "readQuote"
        BY <2>8 DEF ReadQuote
      <3>3. pc'[p] \in {"readRoot", "refused"}
        BY <2>3, <2>8 DEF ReadQuote, To
      <3> QED BY <2>1, <2>2, <3>1, <3>2, <3>3 DEF VerifyPlace, Judged
    <2>9. ASSUME ReadRoot(p) PROVE VerifyPlace(p)' /\ Judged(p)'
      <3>1. pc[p] = "readRoot" /\ read[p].root = Unread
        BY <2>1, <2>9 DEF ReadRoot, VerifyPlace
      <3>2. cmd[p].root \in Path
        BY <2>9, CommandAssumption DEF ReadRoot, TypeInv, PlaceOK, Ended
      <3>3. CASE ParsesAsCert(files[cmd[p].root])
        <4>1. files[cmd[p].root] \in Content
          BY <3>2 DEF TypeInv, SyntheticTypeOK
        <4>2. ParseOneCert(files[cmd[p].root]) \in Cert
          BY <3>3, <4>1, ParsedCertTyped
        <4>3. ParseOneCert(files[cmd[p].root]) # Unread
          BY <4>2 DEF Cert, Unread
        <4>4. read'[p].root # Unread
          BY <2>6, <2>9, <3>3, <4>3 DEF ReadRoot
        <4>5. pc'[p] = IF cmd[p].op = "verify" THEN "verify" ELSE "generate"
          BY <2>3, <2>9, <3>3 DEF ReadRoot, To
        <4>6. pc'[p] \in {"verify", "generate"}
          BY <4>5
        <4> QED BY <2>1, <2>2, <4>4, <4>6 DEF VerifyPlace, Judged
      <3>4. CASE ~ParsesAsCert(files[cmd[p].root])
        <4>1. read' = read /\ pc'[p] = "refused"
          BY <2>3, <2>9, <3>4 DEF ReadRoot, To
        <4> QED BY <2>1, <2>2, <3>1, <4>1 DEF VerifyPlace, Judged
      <3> QED BY <3>3, <3>4
    <2>10. ASSUME Verify(p) PROVE VerifyPlace(p)' /\ Judged(p)'
      <3>1. /\ pc[p] = "verify" /\ cmd[p].op = "verify"
            /\ read[p].root # Unread /\ began[p] # ZeroTime
        BY <2>1, <2>10 DEF Verify, VerifyPlace, TypeInv, PlaceOK
      <3>2. read[p].root \in Cert /\ began[p] \in Nat
        BY <2>6, <3>1 DEF TypeInv, SyntheticTypeOK
      <3>3. MadeCert(read[p].root, generations) /\ MadeContent(read[p].quote, generations)
        BY <3>1 DEF MadeInv, ReadMade
      <3>4. QuoteCryptoOK(read[p].quote, read[p].root, began[p])
              <=> Acceptable(read[p].quote, read[p].root, began[p], generations)
        BY <1>1, <3>1, <3>2, <3>3, VerifiedIsAcceptable
      <3>5. /\ read' = read /\ generations' = generations
            /\ pc'[p] = IF QuoteCryptoOK(read[p].quote, read[p].root, began[p])
                        THEN "ok" ELSE "refused"
        BY <2>3, <2>10 DEF Verify, To
      <3> QED BY <2>1, <2>2, <3>4, <3>5 DEF VerifyPlace, Judged
    <2>11. ASSUME GenerateQuote(p) \/ Open(p) \/ Fill(p) PROVE VerifyPlace(p)' /\ Judged(p)'
      <3>1. cmd[p].op # "verify"
        BY <2>1, <2>11 DEF GenerateQuote, Open, Fill, VerifyPlace, TypeInv, PlaceOK
      <3>2. pc'[p] \in {"open", "fill", "ok", "refused"}
        BY <2>3, <2>11 DEF GenerateQuote, Open, Fill, To
      <3> QED BY <2>1, <2>2, <3>1, <3>2 DEF VerifyPlace, Judged
    <2>12. ASSUME Stop(p) PROVE VerifyPlace(p)' /\ Judged(p)'
      <3>1. pc'[p] = "stopped"
        BY <2>3, <2>12 DEF Stop, To
      <3> QED BY <2>1, <2>2, <3>1 DEF VerifyPlace, Judged
    <2>13. VerifyPlace(p)' /\ Judged(p)'
      BY <1>6, <2>7, <2>8, <2>9, <2>10, <2>11, <2>12 DEF Step
    <2> QED BY <2>5, <2>13 DEF JudgedInv
  <1>7. CASE Tick \/ UNCHANGED vars
    <2>1. /\ pc' = pc /\ cmd' = cmd /\ read' = read /\ began' = began
          /\ generations' = generations
      BY <1>7 DEF Tick, vars, procVars, historyVars
    <2>2. \A p \in Process : VerifyPlace(p)' /\ Judged(p)'
      BY <1>2, <2>1
    <2> QED BY <2>2 DEF JudgedInv
  <1> QED BY <1>5, <1>6, <1>7 DEF Next

\* VerdictByGeneration for every number of processes, every set of command
\* lines and files, and every life of the certificates.
THEOREM VerdictByGenerationAlways == Spec => []VerdictByGeneration
  <1>1. Spec => []MadeInv
    BY TypeAlways, MadeInit, MadeStep, PTL DEF Spec
  <1>2. Spec => []JudgedInv
    BY <1>1, TypeAlways, JudgedInit, JudgedStep, PTL DEF Spec
  <1> QED BY <1>2, JudgedIsVerdict, PTL
=============================================================================
