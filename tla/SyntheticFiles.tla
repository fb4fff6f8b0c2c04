--------------------------- MODULE SyntheticFiles ---------------------------
(***************************************************************************)
(* The commands of internal/tdxattest/synthetic_cli.go that make test      *)
(* roots and test quotes, and the verification that reads them back        *)
(* (verify -check quote-crypto, RunVerifySynthetic).  Several processes    *)
(* run commands on one file system.  A command reads its inputs one by     *)
(* one, generates, and writes its outputs one by one with os.WriteFile,    *)
(* which truncates a file before it fills it.  Nothing is locked and       *)
(* nothing is rolled back: a write may fail, and a process may die between *)
(* any two steps.                                                          *)
(*                                                                         *)
(* A command line c has an op and a path for each file it names: key,      *)
(* root, quote and chain (NoPath if there is no -pck-chain-out); verify    *)
(* also has a sampleTime (ZeroTime if there is no -sample-time).           *)
(***************************************************************************)
EXTENDS Checks

CONSTANTS
    Process,            \* what may run at the same time
    Nobody,             \* no process
    Path,               \* the names of files
    NoPath,             \* an option that is not given
    Command,            \* the command lines
    InitialFiles,       \* what the files may hold at first
    InitialGenerations, \* and the generations they are from
    RootLife, IntermediateLife, LeafLife,   \* how long certificates are valid
    Skew,               \* how long before their making they become valid
    FirstTime, LastTime,    \* bound: the clock
    MaxCommands             \* bound: how many commands are run

\* Keys are named by the generation that made them; those of other roots
\* have a number no generation has.
Key == [made : Nat, role : {"root", "intermediate", "pck"}]

Cert == [key : Key, signer : Key, ca : BOOLEAN, serial : Nat, notBefore : Nat, notAfter : Nat]

SyntheticQuote ==
    [parses : {TRUE}, certType : {5}, certs : Cert \X Cert, qeSigner : Key,
     akBound : {TRUE}, signedByAK : {TRUE}]

Missing == [kind |-> "missing"]

\* A file between its truncation and its write: no parser accepts it.
Torn == [kind |-> "torn"]

Content ==
    {Missing, Torn}
        \cup [kind : {"key"}, key : Key] \cup [kind : {"cert"}, cert : Cert]
        \cup [kind : {"quote"}, quote : SyntheticQuote]
        \cup [kind : {"chain"}, certs : Cert \X Cert]

Generation == [time : Nat, root : Key]

\* A quote was signed under the root certificate of its generation.
UnderRootGiven(content, made) ==
    content.kind = "quote" =>
        LET certs == content.quote.certs IN
        /\ certs[1].key.made \in DOMAIN made
        /\ certs[2].signer = made[certs[1].key.made].root

ASSUME CommandAssumption ==
    /\ Nobody \notin Process /\ NoPath \notin Path
    /\ \A c \in Command :
          /\ c.op \in {"synthesize", "synthetic-root", "synthetic-quote", "verify"}
          /\ c.root \in Path
          /\ c.op \in {"synthetic-root", "synthetic-quote"} => c.key \in Path
          /\ c.op \in {"synthesize", "synthetic-quote"} => c.chain \in Path \cup {NoPath}
          /\ c.op # "synthetic-root" => c.quote \in Path
          /\ c.op = "verify" => c.sampleTime \in Nat

ASSUME FilesAssumption ==
    /\ InitialFiles \subseteq [Path -> Content]
    /\ InitialGenerations \in Seq(Generation)
    /\ \A initial \in InitialFiles : \A path \in Path :
          UnderRootGiven(initial[path], InitialGenerations)

ASSUME LifeAssumption ==
    /\ RootLife \in Nat /\ IntermediateLife \in Nat /\ LeafLife \in Nat /\ Skew \in Nat
    /\ LeafLife <= IntermediateLife /\ IntermediateLife <= RootLife
    /\ FirstTime \in Nat /\ LastTime \in Nat /\ Skew < FirstTime /\ FirstTime <= LastTime
    /\ MaxCommands \in Nat

VARIABLES
    files,       \* what each file holds
    now,         \* the time of day
    pc,          \* where the command of each process is, or how it ended
    cmd,         \* its command line
    read,        \* the key, root certificate and quote it has read
    began,       \* the time it verifies at
    outputs,     \* what it writes, in order
    done,        \* how many of them it has written
    begun,       \* how many commands were run
    generations, \* history: when each was made, and the key of its root certificate
    sole,        \* history: the process that ran alone since it started
    before       \* history: the files when the last command started

procVars == <<pc, cmd, read, began, outputs, done>>
historyVars == <<generations, sole, before>>
vars == <<files, now, begun, procVars, historyVars>>

\* A command succeeds, refuses (what it reads, or to generate or accept), or
\* is stopped: a write fails or the process dies.
Ended == {"ok", "refused", "stopped"}

Unread == [kind |-> "unread"]

NothingRead == [key |-> Unread, root |-> Unread, quote |-> Unread]

NoCommand == [op |-> "none"]
----------------------------------------------------------------------------
(* Generation number n, made at time t.  All keys are fresh. *)

KeyOf(n, role) == [made |-> n, role |-> role]

SyntheticCert(key, signer, ca, serial, t, life) ==
    [key |-> key, signer |-> signer, ca |-> ca, serial |-> serial,
     notBefore |-> t - Skew, notAfter |-> t + life]

RootCert(n, t) ==
    SyntheticCert(KeyOf(n, "root"), KeyOf(n, "root"), TRUE, 1, t, RootLife)

IntermediateCert(n, t, rootKey) ==
    SyntheticCert(KeyOf(n, "intermediate"), rootKey, TRUE, 2, t, IntermediateLife)

PCKCert(n, t) ==
    SyntheticCert(KeyOf(n, "pck"), KeyOf(n, "intermediate"), FALSE, 3, t, LeafLife)

\* The PCK key signs the QE report, which binds the attestation key, which
\* signs the quote.
Quote(n, t, rootKey) ==
    [parses |-> TRUE, certType |-> 5,
     certs |-> <<PCKCert(n, t), IntermediateCert(n, t, rootKey)>>,
     qeSigner |-> KeyOf(n, "pck"), akBound |-> TRUE, signedByAK |-> TRUE]

\* A bug that does not compare the key with the root certificate.
KeyMatchesAnyRoot(key, root) == root.ca

\* generateSyntheticQuoteWithRoot refuses a root that is not a CA and a key
\* that is not the root's.
KeyMatchesRoot(key, root) == root.ca /\ key = root.key
----------------------------------------------------------------------------
(* Contents of files and what the parsers make of them *)

KeyFile(key) == [kind |-> "key", key |-> key]
RootFile(cert) == [kind |-> "cert", cert |-> cert]
QuoteFile(quote) == [kind |-> "quote", quote |-> quote]
ChainFile(certs) == [kind |-> "chain", certs |-> certs]

ParsesAsKey(content) == content.kind = "key"

ParsesAsQuote(content) == content.kind = "quote"

\* parseOneCert takes the first PEM block that starts a line, whatever
\* surrounds it: the leaf of a chain file, the intermediate inside a quote.
ParsesAsCert(content) == content.kind \in {"cert", "chain", "quote"}

ParseOneCert(content) ==
    CASE content.kind = "cert"  -> content.cert
      [] content.kind = "chain" -> content.certs[1]
      [] content.kind = "quote" -> content.quote.certs[2]

Output(path, content) == [path |-> path, content |-> content]

\* The PCK chain is written last, if it is asked for.
ChainOutput(c, quote) ==
    IF c.chain = NoPath THEN <<>> ELSE <<Output(c.chain, ChainFile(quote.certs))>>

SynthesizeOutputs(c, n, t) ==
    LET quote == Quote(n, t, KeyOf(n, "root"))
    IN  <<Output(c.quote, QuoteFile(quote)), Output(c.root, RootFile(RootCert(n, t)))>>
            \o ChainOutput(c, quote)

RootOutputs(c, n, t) ==
    <<Output(c.key, KeyFile(KeyOf(n, "root"))), Output(c.root, RootFile(RootCert(n, t)))>>

QuoteOutputs(c, n, t, rootKey) ==
    LET quote == Quote(n, t, rootKey)
    IN  <<Output(c.quote, QuoteFile(quote))>> \o ChainOutput(c, quote)
----------------------------------------------------------------------------
(* What was made by a generation; everything else is somebody else's *)

QuoteMade(n, made) == Quote(n, made[n].time, made[n].root)

MadeKey(key, made) == \E n \in DOMAIN made : key = KeyOf(n, "root")

MadeCert(cert, made) ==
    \/ cert.key.made = 0
    \/ \E n \in DOMAIN made :
          \/ cert = RootCert(n, made[n].time)
          \/ cert \in {QuoteMade(n, made).certs[1], QuoteMade(n, made).certs[2]}

MadeContent(content, made) ==
    /\ content.kind = "key" => MadeKey(content.key, made)
    /\ content.kind = "cert" => MadeCert(content.cert, made)
    /\ content.kind = "quote" =>
          \E n \in DOMAIN made : content.quote = QuoteMade(n, made)
    /\ content.kind = "chain" =>
          \E n \in DOMAIN made : content.certs = QuoteMade(n, made).certs

\* At first, the files hold what these commands have made, or certificates of
\* somebody else, whose keys are not at hand.
ASSUME HistoryAssumption ==
    /\ \A n \in DOMAIN InitialGenerations :
          MadeKey(InitialGenerations[n].root, InitialGenerations)
    /\ \A initial \in InitialFiles : \A path \in Path :
          MadeContent(initial[path], InitialGenerations)
----------------------------------------------------------------------------
Init ==
    /\ files \in InitialFiles /\ generations = InitialGenerations
    /\ now = FirstTime /\ begun = 0
    /\ pc = [p \in Process |-> "ready"]
    /\ cmd = [p \in Process |-> NoCommand]
    /\ read = [p \in Process |-> NothingRead]
    /\ began = [p \in Process |-> ZeroTime]
    /\ outputs = [p \in Process |-> <<>>]
    /\ done = [p \in Process |-> 0]
    /\ sole = Nobody /\ before = files

\* The time to verify at is fixed before anything is read.
VerifyTime(c) ==
    IF c.op # "verify" THEN ZeroTime
    ELSE IF c.sampleTime = ZeroTime THEN now ELSE c.sampleTime

Active(p) == pc[p] \notin Ended \cup {"ready"}

\* A process starts a command.  What earlier commands read and wrote is
\* forgotten, but for the files.
Start(p, c, place, what) ==
    LET Now(f, mine, blank) ==
            [q \in Process |-> IF q = p THEN mine ELSE IF Active(q) THEN f[q] ELSE blank] IN
    /\ ~Active(p) /\ begun < MaxCommands /\ begun' = begun + 1
    /\ pc' = Now(pc, place, "ready")
    /\ cmd' = Now(cmd, c, NoCommand)
    /\ read' = Now(read, NothingRead, NothingRead)
    /\ began' = Now(began, VerifyTime(c), ZeroTime)
    /\ outputs' = Now(outputs, what, <<>>)
    /\ done' = Now(done, 0, 0)
    /\ sole' = IF \E q \in Process \ {p} : Active(q) THEN Nobody ELSE p
    /\ before' = files
    /\ UNCHANGED <<files, now>>

NextGeneration == Len(generations) + 1

Generate(rootKey) == generations' = Append(generations, [time |-> now, root |-> rootKey])

\* RunSynthesize up to its first write.
Synthesize(p, c) ==
    /\ c.op = "synthesize"
    /\ Start(p, c, "open", SynthesizeOutputs(c, NextGeneration, now))
    /\ Generate(KeyOf(NextGeneration, "root"))

\* RunGenerateSyntheticRoot up to its first write.
GenerateRoot(p, c) ==
    /\ c.op = "synthetic-root"
    /\ Start(p, c, "open", RootOutputs(c, NextGeneration, now))
    /\ Generate(KeyOf(NextGeneration, "root"))

\* RunGenerateSyntheticQuote reads the key, then the root certificate.
BeginQuote(p, c) ==
    /\ c.op = "synthetic-quote" /\ Start(p, c, "readKey", <<>>)
    /\ UNCHANGED generations

\* verify reads the quote, then the root certificate.
BeginVerify(p, c) ==
    /\ c.op = "verify" /\ Start(p, c, "readQuote", <<>>)
    /\ UNCHANGED generations
----------------------------------------------------------------------------
(* Steps of a running command *)

To(p, place) == pc' = [pc EXCEPT ![p] = place]

Elsewhere == UNCHANGED <<now, begun, cmd, began, sole, before>>

ReadKey(p) ==
    /\ pc[p] = "readKey"
    /\ LET content == files[cmd[p].key] IN
       IF ParsesAsKey(content)
       THEN read' = [read EXCEPT ![p].key = content.key] /\ To(p, "readRoot")
       ELSE To(p, "refused") /\ UNCHANGED read
    /\ UNCHANGED <<files, outputs, done, generations>> /\ Elsewhere

ReadQuote(p) ==
    /\ pc[p] = "readQuote"
    /\ LET content == files[cmd[p].quote] IN
       IF content # Missing
       THEN read' = [read EXCEPT ![p].quote = content] /\ To(p, "readRoot")
       ELSE To(p, "refused") /\ UNCHANGED read
    /\ UNCHANGED <<files, outputs, done, generations>> /\ Elsewhere

ReadRoot(p) ==
    /\ pc[p] = "readRoot"
    /\ LET content == files[cmd[p].root] IN
       IF ParsesAsCert(content)
       THEN /\ read' = [read EXCEPT ![p].root = ParseOneCert(content)]
            /\ To(p, IF cmd[p].op = "verify" THEN "verify" ELSE "generate")
       ELSE To(p, "refused") /\ UNCHANGED read
    /\ UNCHANGED <<files, outputs, done, generations>> /\ Elsewhere

GenerateQuote(p) ==
    /\ pc[p] = "generate"
    /\ IF KeyMatchesRoot(read[p].key, read[p].root)
       THEN /\ To(p, "open") /\ Generate(read[p].root.key)
            /\ outputs' = [outputs EXCEPT ![p] =
                             QuoteOutputs(cmd[p], NextGeneration, now, read[p].key)]
       ELSE To(p, "refused") /\ UNCHANGED <<outputs, generations>>
    /\ UNCHANGED <<files, read, done>> /\ Elsewhere

\* A bug that checks the signatures but not where the chain ends.
SignaturesOK(content, root, time) ==
    /\ ParsesAsQuote(content)
    /\ VerifyQuoteLocalSignatures(content.quote, content.quote.certs[1])

\* VerifySyntheticQuoteCrypto: the evidence and the three signatures.
QuoteCryptoOK(content, root, time) ==
    /\ ParsesAsQuote(content)
    /\ LET r == [quote |-> content.quote, root |-> root, time |-> time]
       IN  EvidenceOK(r) /\ VerifyQuoteLocalSignatures(r.quote, PCKLeaf(r))

Verify(p) ==
    /\ pc[p] = "verify"
    /\ To(p, IF QuoteCryptoOK(read[p].quote, read[p].root, began[p]) THEN "ok" ELSE "refused")
    /\ UNCHANGED <<files, read, outputs, done, generations>> /\ Elsewhere

NextOutput(p) == outputs[p][done[p] + 1]

\* os.WriteFile creates or truncates the file ...
Open(p) ==
    /\ pc[p] = "open"
    /\ files' = [files EXCEPT ![NextOutput(p).path] = Torn] /\ To(p, "fill")
    /\ UNCHANGED <<read, outputs, done, generations>> /\ Elsewhere

\* A bug that reports success after the first output.
FillFirst(p) ==
    /\ pc[p] = "fill"
    /\ files' = [files EXCEPT ![NextOutput(p).path] = NextOutput(p).content]
    /\ done' = [done EXCEPT ![p] = @ + 1] /\ To(p, "ok")
    /\ UNCHANGED <<read, outputs, generations>> /\ Elsewhere

\* A bug that looks for an output after the last.
FillOneMore(p) ==
    /\ pc[p] = "fill"
    /\ files' = [files EXCEPT ![NextOutput(p).path] = NextOutput(p).content]
    /\ done' = [done EXCEPT ![p] = @ + 1]
    /\ To(p, IF done[p] + 1 > Len(outputs[p]) THEN "ok" ELSE "open")
    /\ UNCHANGED <<read, outputs, generations>> /\ Elsewhere

\* ... and fills it.
Fill(p) ==
    /\ pc[p] = "fill"
    /\ files' = [files EXCEPT ![NextOutput(p).path] = NextOutput(p).content]
    /\ done' = [done EXCEPT ![p] = @ + 1]
    /\ To(p, IF done[p] + 1 = Len(outputs[p]) THEN "ok" ELSE "open")
    /\ UNCHANGED <<read, outputs, generations>> /\ Elsewhere

\* A bug that deletes the first output when a later one fails.
StopDeletes(p) ==
    /\ Active(p) /\ To(p, "stopped")
    /\ files' = IF done[p] = 1 THEN [files EXCEPT ![outputs[p][1].path] = Missing] ELSE files
    /\ UNCHANGED <<read, outputs, done, generations>> /\ Elsewhere

\* A write fails and the command gives up, or the process dies between two
\* steps: everything stays as it is.
Stop(p) ==
    /\ Active(p) /\ To(p, "stopped")
    /\ UNCHANGED <<files, read, outputs, done, generations>> /\ Elsewhere

Step(p) ==
    \/ ReadKey(p) \/ ReadQuote(p) \/ ReadRoot(p) \/ GenerateQuote(p) \/ Verify(p)
    \/ Open(p) \/ Fill(p) \/ Stop(p)

\* Time passes between commands: they take seconds, certificates live for
\* months.
Tick ==
    /\ \A p \in Process : ~Active(p)
    /\ now < LastTime /\ now' = now + 1
    /\ UNCHANGED <<files, begun, procVars, historyVars>>

Next ==
    \/ \E p \in Process, c \in Command :
          Synthesize(p, c) \/ GenerateRoot(p, c) \/ BeginQuote(p, c) \/ BeginVerify(p, c)
    \/ \E p \in Process : Step(p)
    \/ Tick

Spec == Init /\ [][Next]_vars
----------------------------------------------------------------------------
(* Properties *)

SyntheticTypeOK ==
    /\ files \in [Path -> Content] /\ before \in [Path -> Content]
    /\ now \in FirstTime..LastTime /\ begun \in 0..MaxCommands
    /\ pc \in [Process -> {"ready", "readKey", "readQuote", "readRoot", "generate", "verify",
                           "open", "fill"} \cup Ended]
    /\ cmd \in [Process -> Command \cup {NoCommand}]
    /\ read \in [Process -> [key : Key \cup {Unread}, root : Cert \cup {Unread},
                             quote : Content \cup {Unread}]]
    /\ began \in [Process -> Nat]
    /\ outputs \in [Process -> Seq([path : Path, content : Content])]
    /\ done \in [Process -> Nat]
    /\ generations \in Seq(Generation)
    /\ sole \in Process \cup {Nobody}
    /\ \A p \in Process : pc[p] \in {"open", "fill"} => done[p] < Len(outputs[p])

WithinLife(n, life, t, made) == made[n].time - Skew <= t /\ t <= made[n].time + life

\* Of the certificates of one generation, and at what times, a quote may be
\* verified: its own two, and the root it was made under.
Vouches(key, n, t, made) ==
    /\ WithinLife(n, LeafLife, t, made)
    /\ \/ key \in {KeyOf(n, "pck"), KeyOf(n, "intermediate")}
       \/ key = made[n].root /\ WithinLife(key.made, RootLife, t, made)

\* Whatever was torn, mixed up or interleaved before: a verification that has
\* read a quote and a certificate accepts exactly if they are of one
\* generation and both are alive; in particular a quote under an expired
\* root never verifies, and none verifies under a root made elsewhere
\* (README.md:61, synthetic_cli.go:121-142).
VerdictByGeneration ==
    \A p \in Process :
        LET content == read[p].quote
            quote == content.quote IN
        pc[p] \in {"ok", "refused"} /\ cmd[p].op = "verify" /\ read[p].root # Unread =>
            (pc[p] = "ok" <=>
                ParsesAsQuote(content)
                    /\ Vouches(read[p].root.key, quote.certs[1].key.made, began[p], generations))

\* However the two input files are replaced between their reads, a quote is
\* on disk only if its issuer was signed by the key of the root certificate
\* the command had read (synthetic_cli.go:80-102, synthetic_quote.go:92).
QuotesUnderTheRootGiven ==
    \A path \in Path : UnderRootGiven(files[path], generations)

OutputPaths(p) == {outputs[p][i].path : i \in DOMAIN outputs[p]}

Distinct(p) ==
    \A i, j \in DOMAIN outputs[p] : outputs[p][i].path = outputs[p][j].path => i = j

\* What a command that ran alone leaves when it fails or is killed at any
\* point: the outputs before that point are new, the one at that point is
\* old or torn, all others and all other files are as they were
\* (synthetic_cli.go:41-52, 67-72, 106-113).
CrashLeavesPrefix ==
    \A p \in Process : sole = p /\ Distinct(p) =>
        LET n == done[p] IN
        /\ pc[p] = "ok" => n = Len(outputs[p])
        /\ \A i \in 1..n : files[outputs[p][i].path] = outputs[p][i].content
        /\ n < Len(outputs[p]) =>
              files[outputs[p][n + 1].path] \in {before[outputs[p][n + 1].path], Torn}
        /\ \A path \in Path : files[path] # before[path] =>
              \E i \in 1..(n + 1) : i <= Len(outputs[p]) /\ outputs[p][i].path = path

\* A command that reports success and ran alone leaves files that belong
\* together, whatever an earlier failure or crash had left there: key and
\* root certificate, or quote, root certificate and chain.
SuccessLeavesMatchingFiles ==
    \A p \in Process :
        LET c == cmd[p] IN
        sole = p /\ pc[p] = "ok" /\ outputs[p] # <<>> /\ Distinct(p) =>
            /\ c.op = "synthetic-root" =>
                  /\ ParsesAsKey(files[c.key]) /\ ParsesAsCert(files[c.root])
                  /\ KeyMatchesRoot(files[c.key].key, ParseOneCert(files[c.root]))
            /\ c.op # "synthetic-root" /\ (c.op = "synthesize" \/ c.root \notin OutputPaths(p)) =>
                  /\ ParsesAsQuote(files[c.quote]) /\ ParsesAsCert(files[c.root])
                  /\ files[c.quote].quote.certs[2].signer = ParseOneCert(files[c.root]).key
                  /\ c.chain # NoPath => files[c.chain] = ChainFile(files[c.quote].quote.certs)
=============================================================================
