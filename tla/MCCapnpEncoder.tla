--------------------------- MODULE MCCapnpEncoder ---------------------------
(***************************************************************************)
(* Messages for checking CapnpEncoder: one or two sections of each kind,  *)
(* the address sections included,                                         *)
(* with and without signatures, built over a chosen set of objects.       *)
(***************************************************************************)
EXTENDS CapnpEncoder

str(t, s) == [type |-> t, val |-> [kind |-> "string", s |-> s]]
\* a key as the repository builds it: Key holds the ed25519.PublicKey of
\* ed25519.GenerateKey
pkey(t, algo) == [type |-> t, val |-> [kind |-> "pkey", algo |-> algo,
                   keySpace |-> 0, validSince |-> 1, validUntil |-> 2, key |-> 7,
                   keyType |-> "ed25519.PublicKey"]]

\* the objects that the cases of encodeObjects reaching list.Set store
\* without a panic (a key object panics in encodePublicKey)
MCHandledObjects ==
    {str(OTIP4Addr, 1), str(OTIP6Addr, 2), str(OTRedirection, 3),
     str(OTRegistrar, 4), str(OTRegistrant, 5),
     [type |-> OTNameset, val |-> [kind |-> "nameset", s |-> 6]]}

\* delegation, infrastructure and extra keys as the repository builds them
MCKeyObjects ==
    {pkey(OTDelegation, Ed25519), pkey(OTInfraKey, Ed25519), pkey(OTExtraKey, Ed25519)}

\* a name object whose type list has a two-digit type, a certificate and a
\* service, beside an address
MCContinueObjects ==
    {str(OTIP4Addr, 1),
     [type |-> OTName, val |-> [kind |-> "name", name |-> 5,
                                types |-> <<OTIP4Addr, OTRegistrant>>]],
     [type |-> OTCertInfo, val |-> [kind |-> "cert", ptype |-> 1, usage |-> 2,
                                    hashAlgo |-> 1, data |-> 9]],
     [type |-> OTServiceInfo, val |-> [kind |-> "service", name |-> 5,
                                       port |-> 80, priority |-> 1]]}

\* an object of the unsupported type OTNextKey beside an address
MCUnsupportedObjects ==
    {str(OTIP4Addr, 1), pkey(OTNextKey, Ed25519)}

goodSig == [keySpace |-> 0, algorithm |-> Ed25519, validSince |-> 1,
            validUntil |-> 3, data |-> [kind |-> "bytes", b |-> 4]]
badSig == [keySpace |-> 0, algorithm |-> Ed25519, validSince |-> 1,
           validUntil |-> 3, data |-> [kind |-> "other"]]

Assertion(c, s) == [kind |-> "assertion", context |-> 0, zone |-> 1, name |-> 2,
                    sigs |-> s, content |-> c]
Shard(c) == [kind |-> "shard", context |-> 0, zone |-> 1, rangeFrom |-> 1,
             rangeTo |-> 3, sigs |-> <<goodSig>>, content |-> c]
Zone(c) == [kind |-> "zone", context |-> 0, zone |-> 1, sigs |-> <<>>, content |-> c]

SubjectAddr == [address |-> 4, family |-> 1, prefixLength |-> 24]
AddrAssertion(c, s) == [kind |-> "addrAssertion", context |-> 0,
                        subjectAddr |-> SubjectAddr, sigs |-> s, content |-> c]

Sections(O, sigs) ==
    LET single == {Assertion(<<o>>, <<>>) : o \in O}
        pair == {Assertion(<<o, p>>, <<s>>) : o, p \in O, s \in sigs}
    IN  single \cup pair
        \cup {Shard(<<a>>) : a \in single}
        \cup {Zone(<<a>>) : a \in single}
        \cup {Zone(<<Shard(<<a>>)>>) : a \in single}
        \cup {[kind |-> "query", token |-> 1, name |-> 2, context |-> 0,
               expires |-> 5, type |-> OTIP4Addr, options |-> <<3, 5>>],
              [kind |-> "notification", token |-> 1, type |-> 1, data |-> 0],
              [kind |-> "addrQuery", token |-> 1, context |-> 0, expires |-> 5,
               types |-> OTName, options |-> <<3>>, subjectAddr |-> SubjectAddr]}
        \cup {AddrAssertion(<<o>>, <<s>>) : o \in O, s \in sigs}
        \cup {[kind |-> "addrZone", context |-> 0, subjectAddr |-> SubjectAddr,
               sigs |-> <<>>, content |-> <<AddrAssertion(<<o>>, <<s>>)>>] :
                  o \in O, s \in sigs}

Messages(O, sigs) ==
    {[token |-> 1, caps |-> <<"Test">>, sigs |-> ms, content |-> <<s>>] :
        s \in Sections(O, sigs), ms \in {<<>>, <<goodSig>>, <<badSig>>}}

MCMsgsHandled == Messages(MCHandledObjects, {goodSig})
MCMsgsContinue == Messages(MCContinueObjects, {goodSig})
MCMsgsUnsupported == Messages(MCUnsupportedObjects, {goodSig, badSig})
MCMsgsKeys == Messages(MCKeyObjects, {goodSig})
=============================================================================
