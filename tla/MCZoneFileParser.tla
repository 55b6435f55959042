-------------------------- MODULE MCZoneFileParser --------------------------
(***************************************************************************)
(* Zones for checking ZoneFileParser: an assertion with each object type   *)
(* parseAssertion handles, with none and with two objects, alone, in a     *)
(* shard, and beside a shard.  Each zone's file is parsed with a buffer    *)
(* larger than the file (a zone file under bufio's 4096 bytes) or with a   *)
(* buffer of a few words, so that the scanner compacts and refills it      *)
(* while parsing (a larger zone file).                                     *)
(***************************************************************************)
EXTENDS ZoneFileParser

MCNumbers == {0, 1, 2, 3, 80}

Val(t) == [type |-> t, value |-> "v"]
Cert == [type |-> OTCertInfo,
         value |-> [ptype |-> 1, usage |-> 3, hashAlgo |-> 2, data |-> "d"]]
Srv == [type |-> OTServiceInfo, value |-> [name |-> "ns", port |-> 80, priority |-> 0]]

Assertion(objs) == [name |-> "www", objs |-> objs]

Zones(O) ==
    LET as == {Assertion(<<>>)} \cup {Assertion(<<o>>) : o \in O}
              \cup {Assertion(<<o, Val(OTIP4Addr)>>) : o \in O}
        zn(c) == [context |-> ".", zone |-> "ch", content |-> c]
    IN  {zn(<<a>>) : a \in as}
        \cup {zn(<<[shard |-> <<a>>]>>) : a \in as}
        \cup {zn(<<a, [shard |-> <<Assertion(<<>>)>>]>>) : a \in as}

Big == 64
Small == 6

\* every object type with a buffer larger than the file, and the objects
\* parsed with Text with a buffer of a few words
MCInputsHandled ==
    {[zone |-> z, bufSize |-> Big] : z \in Zones({Val(t) : t \in Range(ValueTags)} \cup {Cert, Srv})}
    \cup {[zone |-> z, bufSize |-> Small] : z \in Zones({Val(t) : t \in Range(ValueTags)} \cup {Srv})}

\* a certificate followed by more of the file, with a small buffer
MCInputsLarge ==
    {[zone |-> z, bufSize |-> Small] : z \in Zones({Cert})}

\* a service whose port does not fit a uint16 (65616 = 2^16 + 80)
MCNumbersWide == MCNumbers \cup {65616}
MCInputsPortWrap ==
    {[zone |-> z, bufSize |-> Big] :
        z \in Zones({[type |-> OTServiceInfo,
                      value |-> [name |-> "ns", port |-> 65616, priority |-> 0]]})}
=============================================================================
