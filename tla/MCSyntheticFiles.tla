-------------------------- MODULE MCSyntheticFiles --------------------------
(***************************************************************************)
(* Two processes, four files.  The README's three commands share their     *)
(* paths; two more name one file twice.                                    *)
(***************************************************************************)
EXTENDS SyntheticFiles

CONSTANTS p1, p2

MCProcess == {p1, p2}
MCPath == {"key", "root", "quote", "chain"}

MCForeignRoot ==
    [key |-> KeyOf(0, "root"), signer |-> KeyOf(0, "root"), ca |-> TRUE, serial |-> 1,
     notBefore |-> 1, notAfter |-> 9]

VerifyAt(quote, root, time) ==
    [op |-> "verify", quote |-> quote, root |-> root, sampleTime |-> time]

MakeRoot == [op |-> "synthetic-root", key |-> "key", root |-> "root"]

MakeQuote(quote) ==
    [op |-> "synthetic-quote", key |-> "key", root |-> "root", quote |-> quote, chain |-> "chain"]

MCCommand ==
    {MakeRoot, MakeQuote("quote"), MakeQuote("root"),
     [op |-> "synthesize", quote |-> "quote", root |-> "root", chain |-> NoPath],
     VerifyAt("quote", "root", ZeroTime), VerifyAt("quote", "root", 2),
     VerifyAt("quote", "chain", ZeroTime), VerifyAt("root", "root", ZeroTime)}

\* Two pairs were made at time 2, and at time 3 a quote under the first.
MCInitialGenerations ==
    <<[time |-> 2, root |-> KeyOf(1, "root")], [time |-> 2, root |-> KeyOf(2, "root")],
      [time |-> 3, root |-> KeyOf(1, "root")]>>

Stored(pair, root) ==
    LET quote == Quote(3, 3, KeyOf(1, "root")) IN
    [key |-> KeyFile(KeyOf(pair, "root")), root |-> root,
     quote |-> QuoteFile(quote), chain |-> ChainFile(quote.certs)]

\* Nothing; files that belong together; the key of a second pair whose
\* certificate was not written, or only begun; somebody else's root.
MCInitialFiles ==
    {[path \in MCPath |-> Missing], Stored(1, RootFile(RootCert(1, 2))),
     Stored(2, RootFile(RootCert(1, 2))), Stored(2, Torn), Stored(1, RootFile(MCForeignRoot))}

MCSymmetry == Permutations(MCProcess)
=============================================================================
