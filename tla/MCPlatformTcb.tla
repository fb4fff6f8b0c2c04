--------------------------- MODULE MCPlatformTcb ---------------------------
(***************************************************************************)
(* PlatformTcb on certificates with two components, written in several     *)
(* orders and with entries the program does not ask for.                   *)
(***************************************************************************)
EXTENDS PlatformTcb

Element(d, t, v, n) == <<[depth |-> d, tag |-> t, value |-> v, size |-> n]>>
Octets(d, v, n) == Element(d, "octets", v, n)

\* SEQUENCE { OID, value }, the way every Intel entry is written.
Entry(d, oid, value) == Element(d, "seq", Blank, 0) \o Element(d + 1, "oid", oid, 10) \o value

\* What a certificate is built from: a blank value leaves the entry out.
Platforms ==
    [fmspc : {"F1", Blank}, pceid : {"P1", Blank},
     tcb : {Blank} \cup [sgx : {<<1, 1>>, <<2, 0>>}, pcesvn : {0, 2}]]

Numbers(t) == <<t.sgx[1], t.sgx[2], t.pcesvn>>

\* Without its tcb a certificate lacks its last component.
TcbEntry(p) ==
    Entry(1, <<2>>,
        Element(2, "seq", Blank, 0)
        \o IF p.tcb = Blank THEN Entry(3, ComponentOID(1), Element(4, "int", 1, 1))
           ELSE FlattenSeq([i \in 1..3 |->
                    Entry(3, ComponentOID(i), Element(4, "int", Numbers(p.tcb)[i], 1))]))

PceidEntry(p) == IF p.pceid = Blank THEN <<>> ELSE Entry(1, PCEIDOID, Octets(2, p.pceid, 2))
FmspcEntry(p) == IF p.fmspc = Blank THEN <<>> ELSE Entry(1, FMSPCOID, Octets(2, p.fmspc, 6))

\* An entry whose value is an OID, the one of another entry.
Decoy(oid) == Entry(1, <<9>>, Element(2, "oid", oid, 10))

Layouts(p) ==
    {TcbEntry(p) \o PceidEntry(p) \o FmspcEntry(p),
     Decoy(FMSPCOID) \o FmspcEntry(p) \o PceidEntry(p) \o TcbEntry(p),
     Decoy(ComponentOID(2)) \o PceidEntry(p) \o TcbEntry(p) \o FmspcEntry(p)}

Root(entries) == [id |-> RootOID, tree |-> Element(0, "seq", Blank, 0) \o entries]
Other == [id |-> <<15>>, tree |-> Octets(0, "other", 6)]

InLayout ==
    UNION {{[extensions |-> <<Other, Root(entries)>>, holds |-> p] : entries \in Layouts(p)} : p \in Platforms}

\* Out of Intel's layout: the FMSPC as an extension of its own, before or after
\* the root and in or out of its size, an FMSPC of the wrong size in the root, a
\* component that is no integer, and no root at all.  The first FMSPC of its
\* size counts, and one of another size hides what comes after it in the root.
\* What a certificate holds is left open when a PCEID is empty, the two bytes of
\* its encoding being as long as a PCEID, or when an FMSPC or PCEID is no octet
\* string, as long as one with its header or without it.
Full == [fmspc |-> "F2", pceid |-> "P1", tcb |-> [sgx |-> <<1, 1>>, pcesvn |-> 2]]
Alone(n) == [id |-> FMSPCOID, tree |-> Octets(0, "F1", n)]
Normal == Root(TcbEntry(Full) \o PceidEntry(Full) \o FmspcEntry(Full))
Odd(extensions, p) == [extensions |-> extensions, holds |-> p]
OutOfLayout ==
    {Odd(<<Alone(6), Normal>>, [Full EXCEPT !.fmspc = "F1"]),
     Odd(<<Alone(5), Normal>>, Full), Odd(<<Normal, Alone(6)>>, Full),
     Odd(<<Alone(6)>>, [fmspc |-> "F1", pceid |-> Blank, tcb |-> Blank]),
     Odd(<<>>, [fmspc |-> Blank, pceid |-> Blank, tcb |-> Blank]),
     Odd(<<Root(TcbEntry(Full) \o PceidEntry(Full) \o Entry(1, FMSPCOID, Octets(2, "F1", 7)))>>,
         [Full EXCEPT !.fmspc = Blank]),
     Odd(<<Root(TcbEntry(Full) \o PceidEntry(Full) \o Entry(1, FMSPCOID, Octets(2, "F1", 7))),
           Alone(6)>>, [Full EXCEPT !.fmspc = Blank]),
     Odd(<<Root(TcbEntry(Full) \o Entry(1, PCEIDOID, Octets(2, "P1", 0)) \o FmspcEntry(Full))>>,
         Blank),
     Odd(<<Root(Entry(1, ComponentOID(1), Octets(2, "one", 1)) \o PceidEntry(Full)
                \o FmspcEntry(Full))>>, [Full EXCEPT !.tcb = Blank])}
    \cup {Odd(<<Root(TcbEntry(Full) \o PceidEntry(Full)
                     \o Entry(1, FMSPCOID, Element(2, "other", "F2", n)))>>, Blank) : n \in {4, 6}}
    \cup {Odd(<<Root(TcbEntry(Full) \o FmspcEntry(Full)
                     \o Entry(1, PCEIDOID, Element(2, "other", "P1", n)))>>, Blank) : n \in {0, 2}}
    \cup {Odd(<<[id |-> FMSPCOID, tree |-> Element(0, "other", "F1", n)], Normal>>, Blank) : n \in {4, 6}}

MCCertificate == InLayout \cup OutOfLayout

MCQuote ==
    [tdx : {TRUE}, tdxSVNs : {<<0>>, <<2>>}, mrsignerSeam : {"seam"}, seamAttributes : {Blank}]
    \cup [tdx : {FALSE}, tdxSVNs : {Blank}, mrsignerSeam : {Blank}, seamAttributes : {Blank}]

L(s, t, p, st) == [sgx |-> s, tdx |-> t, pcesvn |-> p, status |-> st]
Newest == L(<<2, 0>>, <<2>>, 2, "UpToDate")
Hardened == L(<<1>>, <<2>>, 0, "SWHardeningNeeded")
Early == L(<<1, 1>>, <<>>, 2, "UpToDate")
Old == L(<<1>>, <<>>, 0, "OutOfDate")
Dead == L(<<>>, <<>>, 0, "Revoked")
TooMany == L(<<0, 0, 0>>, <<>>, 0, "UpToDate")

MCBody ==
    [fmspc : {"F1", "F2"}, pceid : {"P1", "P2", Blank}, mrsigner : {"seam", "other", Blank},
     attributes : {Blank}, attributesMask : {Blank},
     levels : {<<>>, <<Newest, Hardened, Old, Dead>>, <<Newest, Early, Dead>>,
               <<TooMany, Newest>>, <<Old, Hardened>>}]
=============================================================================
