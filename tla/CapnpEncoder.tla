---------------------------- MODULE CapnpEncoder ----------------------------
(***************************************************************************)
(* The Cap'n Proto encoder of RAINS messages (EncodeMessage and the        *)
(* encode* functions of the encoder package, src/unnamed/part_000).       *)
(*                                                                         *)
(* A Cap'n Proto list is allocated with its length and starts as that many *)
(* zero elements; the encoder then Sets each slot.  Encoded structs are    *)
(* records; a zero slot is a record whose "which" is "none".  A function  *)
(* result is [status, ...] with status "nil" (no error), "err" (an error   *)
(* returned) or "panic" (a failed type assertion without ok, which         *)
(* unwinds every caller).  Strings and byte slices are naturals; the       *)
(* name object's type list is encoded with strconv.Itoa, modelled as the   *)
(* sequence of decimal digits.                                             *)
(***************************************************************************)
EXTENDS Naturals, Sequences

CONSTANTS
    Msgs          \* the rainslib.RainsMessage values encoded

VARIABLES msg, result

vars == <<msg, result>>

\* ObjectType values (rainslib objects.go)
OTName == 1
OTIP6Addr == 2
OTIP4Addr == 3
OTRedirection == 4
OTDelegation == 5
OTNameset == 6
OTCertInfo == 7
OTServiceInfo == 8
OTRegistrar == 9
OTRegistrant == 10
OTInfraKey == 11
OTExtraKey == 12
OTNextKey == 13

\* SignatureAlgorithmType values
Ed25519 == 1
Ed448 == 2
Ecdsa256 == 3
Ecdsa384 == 4

\* a zero element of a freshly allocated list, and the empty byte slice
Zero == [which |-> "none"]
NoBytes == 0

Fail == [status |-> "err"]
Panic == [status |-> "panic"]

\* a list of n zero elements (NewObj_List, NewSignatures, NewContent, ...)
NewList(n) == [i \in 1..n |-> Zero]

\* strconv.Itoa: the decimal digits of n, most significant first
RECURSIVE Itoa(_)
Itoa(n) == IF n < 10 THEN <<n>> ELSE Itoa(n \div 10) \o <<n % 10>>

-----------------------------------------------------------------------------
(* encodePublicKey, encodeSignatures, encodeObjects *)

\* encodePublicKey: the key bytes are set for Ed25519 only, through the plain
\* assertion publicKey.Key.([]byte), which panics on any other Go type of
\* Key (such as the ed25519.PublicKey that ed25519.GenerateKey returns); the
\* other known algorithms log "Not yet supported" and leave the bytes empty
EncodePublicKey(k) ==
    LET pk(key) == [status |-> "nil", validSince |-> k.validSince,
                    validUntil |-> k.validUntil, keySpace |-> k.keySpace,
                    type |-> k.algo, key |-> key]
    IN  CASE k.algo = Ed25519 -> IF k.keyType = "[]byte" THEN pk(k.key) ELSE Panic
          [] k.algo \in {Ed448, Ecdsa256, Ecdsa384} -> pk(NoBytes)
          [] OTHER                                  -> Fail

\* mutant: validSince and validUntil set from each other's field
EncodeSignatureSwapped(s) ==
    IF s.data.kind = "bytes"
    THEN [status |-> "nil",
          sig |-> [which |-> "sig", keySpace |-> s.keySpace,
                   algorithm |-> s.algorithm, validSince |-> s.validUntil,
                   validUntil |-> s.validSince, data |-> s.data.b]]
    ELSE Fail

\* one iteration of encodeSignatures: data other than []byte is an error
EncodeSignature(s) ==
    IF s.data.kind = "bytes"
    THEN [status |-> "nil",
          sig |-> [which |-> "sig", keySpace |-> s.keySpace,
                   algorithm |-> s.algorithm, validSince |-> s.validSince,
                   validUntil |-> s.validUntil, data |-> s.data.b]]
    ELSE Fail

\* encodeSignatures: Sets slot i after encoding signature i; the first error
\* returns, leaving that slot and the later ones zero
RECURSIVE EncodeSignatures(_, _, _), SignaturesStep(_, _, _, _)
SignaturesStep(r, sigs, i, list) ==
    IF r.status # "nil" THEN [status |-> r.status, list |-> list]
    ELSE EncodeSignatures(sigs, i + 1, [list EXCEPT ![i] = r.sig])
EncodeSignatures(sigs, i, list) ==
    IF i > Len(sigs) THEN [status |-> "nil", list |-> list]
    ELSE SignaturesStep(EncodeSignature(sigs[i]), sigs, i, list)

\* the Obj built for object o with union member w holding d
Obj(o, w, d) == [which |-> w, type |-> o.type, data |-> d]

\* the result of a case that reaches list.Set(i, obj), and of one that
\* builds obj and then "continue"s past it
SetObj(o, w, d) == [status |-> "nil", set |-> TRUE, obj |-> Obj(o, w, d)]
SkipObj(o, w, d) == [status |-> "nil", set |-> FALSE, obj |-> Obj(o, w, d)]

\* the OTNameset case: string(object.Value.(rainslib.NamesetExpression))
EncodeNameset(o) ==
    IF o.val.kind = "nameset" THEN SetObj(o, "nameset", o.val.s) ELSE Panic

\* one iteration of encodeObjects: "set" tells whether list.Set(i, obj) is
\* reached.  The name, certificate and service cases build their value and
\* then "continue", which skips list.Set; a failed "ok" assertion returns an
\* error, a failed plain assertion panics; OTNextKey is unsupported.
EncodeObject(o) ==
    LET str(w) == IF o.val.kind = "string" THEN SetObj(o, w, o.val.s) ELSE Panic
        key(w) == IF o.val.kind # "pkey" THEN Panic
                  ELSE LET k == EncodePublicKey(o.val)
                       IN  IF k.status # "nil" THEN [status |-> k.status]
                           ELSE SetObj(o, w, k)
        v == o.val
    IN  CASE o.type = OTName ->
                IF v.kind # "name" THEN Fail
                ELSE SkipObj(o, "name", <<v.name>> \o
                                 [j \in DOMAIN v.types |-> Itoa(v.types[j])])
          [] o.type = OTIP6Addr     -> str("ip6")
          [] o.type = OTIP4Addr     -> str("ip4")
          [] o.type = OTRedirection -> str("redir")
          [] o.type = OTDelegation  -> key("deleg")
          [] o.type = OTNameset     -> EncodeNameset(o)
          [] o.type = OTCertInfo ->
                IF v.kind # "cert" THEN Fail
                ELSE SkipObj(o, "cert", [data |-> v.data, type |-> v.ptype,
                                         hashAlgo |-> v.hashAlgo, usage |-> v.usage])
          [] o.type = OTServiceInfo ->
                IF v.kind # "service" THEN Fail
                ELSE SkipObj(o, "service", [name |-> v.name, port |-> v.port,
                                            priority |-> v.priority])
          [] o.type = OTRegistrar   -> str("regr")
          [] o.type = OTRegistrant  -> str("regt")
          [] o.type = OTInfraKey    -> key("infra")
          [] o.type = OTExtraKey    -> key("extra")
          [] OTHER                  -> Fail

\* encodeObjects: the loop over the objects, returning at the first error
RECURSIVE EncodeObjects(_, _, _), ObjectsStep(_, _, _, _)
ObjectsStep(r, objs, i, list) ==
    CASE r.status # "nil" -> [status |-> r.status, list |-> list]
      [] r.set            -> EncodeObjects(objs, i + 1, [list EXCEPT ![i] = r.obj])
      [] OTHER            -> EncodeObjects(objs, i + 1, list)
EncodeObjects(objs, i, list) ==
    IF i > Len(objs) THEN [status |-> "nil", list |-> list]
    ELSE ObjectsStep(EncodeObject(objs[i]), objs, i, list)

-----------------------------------------------------------------------------
(* encodeAssertion, encodeShard, encodeZone, encodeQuery,                  *)
(* encodeNotification, EncodeMessage                                       *)

\* encodeAssertion: the results of encodeSignatures and encodeObjects are
\* ignored, so their errors leave zero slots in a section that is returned
\* without error; only a panic gets through
EncodeAssertion(a) ==
    LET sg == EncodeSignatures(a.sigs, 1, NewList(Len(a.sigs)))
        ct == EncodeObjects(a.content, 1, NewList(Len(a.content)))
    IN  IF ct.status = "panic" THEN Panic
        ELSE [status |-> "nil",
              sec |-> [which |-> "assertion", context |-> a.context,
                       zone |-> a.zone, name |-> a.name,
                       sigs |-> sg.list, content |-> ct.list]]

\* the content loop of encodeShard
RECURSIVE EncodeShardContent(_, _, _), ShardStep(_, _, _, _)
ShardStep(r, as, i, list) ==
    IF r.status # "nil" THEN [status |-> r.status, list |-> list]
    ELSE EncodeShardContent(as, i + 1, [list EXCEPT ![i] = r.sec])
EncodeShardContent(as, i, list) ==
    IF i > Len(as) THEN [status |-> "nil", list |-> list]
    ELSE ShardStep(EncodeAssertion(as[i]), as, i, list)

\* encodeShard: a signature error is returned
EncodeShard(s) ==
    LET sg == EncodeSignatures(s.sigs, 1, NewList(Len(s.sigs)))
        ct == EncodeShardContent(s.content, 1, NewList(Len(s.content)))
    IN  CASE sg.status # "nil" -> [status |-> sg.status]
          [] ct.status # "nil" -> [status |-> ct.status]
          [] OTHER ->
               [status |-> "nil",
                sec |-> [which |-> "shard", context |-> s.context,
                         zone |-> s.zone, rangeFrom |-> s.rangeFrom,
                         rangeTo |-> s.rangeTo, sigs |-> sg.list,
                         content |-> ct.list]]

\* the content loop of encodeZone: assertions and shards, any other section
\* is an error
RECURSIVE EncodeZoneContent(_, _, _), ZoneStep(_, _, _, _)
ZoneStep(r, cs, i, list) ==
    IF r.status # "nil" THEN [status |-> r.status, list |-> list]
    ELSE EncodeZoneContent(cs, i + 1, [list EXCEPT ![i] = r.sec])
EncodeZoneContent(cs, i, list) ==
    IF i > Len(cs) THEN [status |-> "nil", list |-> list]
    ELSE ZoneStep(CASE cs[i].kind = "assertion" -> EncodeAssertion(cs[i])
                    [] cs[i].kind = "shard"     -> EncodeShard(cs[i])
                    [] OTHER                    -> Fail,
                  cs, i, list)

\* encodeZone
EncodeZone(z) ==
    LET sg == EncodeSignatures(z.sigs, 1, NewList(Len(z.sigs)))
        ct == EncodeZoneContent(z.content, 1, NewList(Len(z.content)))
    IN  CASE sg.status # "nil" -> [status |-> sg.status]
          [] ct.status # "nil" -> [status |-> ct.status]
          [] OTHER ->
               [status |-> "nil",
                sec |-> [which |-> "zone", context |-> z.context,
                         zone |-> z.zone, sigs |-> sg.list,
                         content |-> ct.list]]

\* encodeQuery: the options become an Int32List
EncodeQuery(q) ==
    [status |-> "nil",
     sec |-> [which |-> "query", token |-> q.token, name |-> q.name,
              context |-> q.context, expires |-> q.expires, type |-> q.type,
              options |-> q.options]]

\* encodeNotification
EncodeNotification(n) ==
    [status |-> "nil",
     sec |-> [which |-> "notification", token |-> n.token, type |-> n.type,
              data |-> n.data]]

(* encodeSubjectAddress, encodeAddressAssertion, encodeAddressZone,      *)
(* encodeAddressQuery                                                      *)

\* encodeSubjectAddress: PrefixLength, a Go uint, is stored as uint32; the
\* prefix lengths modelled (at most 128) are below 2^32, where it is exact
EncodeSubjectAddress(sa) ==
    [address |-> sa.address, family |-> sa.family,
     prefixLength |-> sa.prefixLength]

\* encodeAddressAssertion: unlike encodeAssertion it returns the error of
\* encodeSignatures; the result of encodeObjects is still ignored
EncodeAddressAssertion(a) ==
    LET sg == EncodeSignatures(a.sigs, 1, NewList(Len(a.sigs)))
        ct == EncodeObjects(a.content, 1, NewList(Len(a.content)))
    IN  CASE sg.status # "nil"     -> [status |-> sg.status]
          [] ct.status = "panic"   -> Panic
          [] OTHER ->
               [status |-> "nil",
                sec |-> [which |-> "addrAssertion", context |-> a.context,
                         sigs |-> sg.list, content |-> ct.list,
                         subjectAddr |-> EncodeSubjectAddress(a.subjectAddr)]]

\* the content loop of encodeAddressZone
RECURSIVE EncodeAddressZoneContent(_, _, _), AddressZoneStep(_, _, _, _)
AddressZoneStep(r, as, i, list) ==
    IF r.status # "nil" THEN [status |-> r.status, list |-> list]
    ELSE EncodeAddressZoneContent(as, i + 1, [list EXCEPT ![i] = r.sec])
EncodeAddressZoneContent(as, i, list) ==
    IF i > Len(as) THEN [status |-> "nil", list |-> list]
    ELSE AddressZoneStep(EncodeAddressAssertion(as[i]), as, i, list)

\* encodeAddressZone: signatures, subject address, then the assertions
EncodeAddressZone(z) ==
    LET sg == EncodeSignatures(z.sigs, 1, NewList(Len(z.sigs)))
        ct == EncodeAddressZoneContent(z.content, 1, NewList(Len(z.content)))
    IN  CASE sg.status # "nil" -> [status |-> sg.status]
          [] ct.status # "nil" -> [status |-> ct.status]
          [] OTHER ->
               [status |-> "nil",
                sec |-> [which |-> "addrZone", context |-> z.context,
                         sigs |-> sg.list, content |-> ct.list,
                         subjectAddr |-> EncodeSubjectAddress(z.subjectAddr)]]

\* encodeAddressQuery
EncodeAddressQuery(q) ==
    [status |-> "nil",
     sec |-> [which |-> "addrQuery", token |-> q.token, context |-> q.context,
              expires |-> q.expires, types |-> q.types, options |-> q.options,
              subjectAddr |-> EncodeSubjectAddress(q.subjectAddr)]]

\* the content loop of EncodeMessage: the type switch over the sections
RECURSIVE EncodeContent(_, _, _), ContentStep(_, _, _, _)
ContentStep(r, cs, i, list) ==
    IF r.status # "nil" THEN [status |-> r.status, list |-> list]
    ELSE EncodeContent(cs, i + 1, [list EXCEPT ![i] = r.sec])
EncodeContent(cs, i, list) ==
    IF i > Len(cs) THEN [status |-> "nil", list |-> list]
    ELSE ContentStep(CASE cs[i].kind = "assertion"    -> EncodeAssertion(cs[i])
                       [] cs[i].kind = "shard"        -> EncodeShard(cs[i])
                       [] cs[i].kind = "zone"         -> EncodeZone(cs[i])
                       [] cs[i].kind = "query"        -> EncodeQuery(cs[i])
                       [] cs[i].kind = "notification" -> EncodeNotification(cs[i])
                       [] cs[i].kind = "addrAssertion" -> EncodeAddressAssertion(cs[i])
                       [] cs[i].kind = "addrZone"      -> EncodeAddressZone(cs[i])
                       [] cs[i].kind = "addrQuery"     -> EncodeAddressQuery(cs[i])
                       [] OTHER                       -> Fail,
                     cs, i, list)

\* EncodeMessage: token and capabilities, then the signatures (an error is
\* returned), then the content
EncodeMessage(m) ==
    LET sg == EncodeSignatures(m.sigs, 1, NewList(Len(m.sigs)))
        ct == EncodeContent(m.content, 1, NewList(Len(m.content)))
    IN  CASE sg.status # "nil" -> [status |-> sg.status]
          [] ct.status # "nil" -> [status |-> ct.status]
          [] OTHER ->
               [status |-> "nil",
                enc |-> [token |-> m.token, caps |-> m.caps,
                         sigs |-> sg.list, content |-> ct.list]]

-----------------------------------------------------------------------------
(* Reference: reading the encoded message back per the Cap'n Proto schema *)

\* a zero list slot read back as an object, a signature or a section
NoObject == [type |-> 0, val |-> [kind |-> "none"]]
NoSig == [data |-> [kind |-> "none"]]
NoSection == [kind |-> "none"]

\* strconv.Atoi of a digit sequence
RECURSIVE Atoi(_)
Atoi(ds) == IF ds = <<>> THEN 0
            ELSE 10 * Atoi(SubSeq(ds, 1, Len(ds) - 1)) + ds[Len(ds)]

DecodeValue(e) ==
    LET d == e.data
    IN  CASE e.which \in {"ip6", "ip4", "redir", "regr", "regt"} ->
                [kind |-> "string", s |-> d]
          [] e.which = "nameset" -> [kind |-> "nameset", s |-> d]
          [] e.which \in {"deleg", "infra", "extra"} ->
                [kind |-> "pkey", algo |-> d.type, keySpace |-> d.keySpace,
                 validSince |-> d.validSince, validUntil |-> d.validUntil,
                 key |-> d.key, keyType |-> "[]byte"]
          [] e.which = "name" ->
                [kind |-> "name", name |-> d[1],
                 types |-> [j \in 1..(Len(d) - 1) |-> Atoi(d[j + 1])]]
          [] e.which = "cert" ->
                [kind |-> "cert", ptype |-> d.type, usage |-> d.usage,
                 hashAlgo |-> d.hashAlgo, data |-> d.data]
          [] e.which = "service" ->
                [kind |-> "service", name |-> d.name, port |-> d.port,
                 priority |-> d.priority]

DecodeObj(e) ==
    IF e.which = "none" THEN NoObject ELSE [type |-> e.type, val |-> DecodeValue(e)]

DecodeSig(e) ==
    IF e.which = "none" THEN NoSig
    ELSE [keySpace |-> e.keySpace, algorithm |-> e.algorithm,
          validSince |-> e.validSince, validUntil |-> e.validUntil,
          data |-> [kind |-> "bytes", b |-> e.data]]

DecodeSigs(l) == [i \in DOMAIN l |-> DecodeSig(l[i])]

RECURSIVE DecodeSection(_)
DecodeSection(e) ==
    CASE e.which = "none" -> NoSection
      [] e.which = "assertion" ->
            [kind |-> "assertion", context |-> e.context, zone |-> e.zone,
             name |-> e.name, sigs |-> DecodeSigs(e.sigs),
             content |-> [i \in DOMAIN e.content |-> DecodeObj(e.content[i])]]
      [] e.which = "shard" ->
            [kind |-> "shard", context |-> e.context, zone |-> e.zone,
             rangeFrom |-> e.rangeFrom, rangeTo |-> e.rangeTo,
             sigs |-> DecodeSigs(e.sigs),
             content |-> [i \in DOMAIN e.content |-> DecodeSection(e.content[i])]]
      [] e.which = "zone" ->
            [kind |-> "zone", context |-> e.context, zone |-> e.zone,
             sigs |-> DecodeSigs(e.sigs),
             content |-> [i \in DOMAIN e.content |-> DecodeSection(e.content[i])]]
      [] e.which = "query" ->
            [kind |-> "query", token |-> e.token, name |-> e.name,
             context |-> e.context, expires |-> e.expires, type |-> e.type,
             options |-> e.options]
      [] e.which = "notification" ->
            [kind |-> "notification", token |-> e.token, type |-> e.type,
             data |-> e.data]
      [] e.which = "addrAssertion" ->
            [kind |-> "addrAssertion", context |-> e.context,
             subjectAddr |-> e.subjectAddr, sigs |-> DecodeSigs(e.sigs),
             content |-> [i \in DOMAIN e.content |-> DecodeObj(e.content[i])]]
      [] e.which = "addrZone" ->
            [kind |-> "addrZone", context |-> e.context,
             subjectAddr |-> e.subjectAddr, sigs |-> DecodeSigs(e.sigs),
             content |-> [i \in DOMAIN e.content |-> DecodeSection(e.content[i])]]
      [] e.which = "addrQuery" ->
            [kind |-> "addrQuery", token |-> e.token, context |-> e.context,
             expires |-> e.expires, types |-> e.types, options |-> e.options,
             subjectAddr |-> e.subjectAddr]

DecodeMessage(e) ==
    [token |-> e.token, caps |-> e.caps, sigs |-> DecodeSigs(e.sigs),
     content |-> [i \in DOMAIN e.content |-> DecodeSection(e.content[i])]]

\* what the wire format can carry: every object of a supported type with a
\* value of its Go type, every key of an algorithm whose bytes are
\* encoded, every signature's data a byte slice
ObjectsOf(m) ==
    LET secs == {m.content[i] : i \in DOMAIN m.content}
        inner == UNION {{c.content[i] : i \in DOMAIN c.content} :
                          c \in {x \in secs : x.kind \in {"shard", "zone", "addrZone"}}}
        inner2 == UNION {{c.content[i] : i \in DOMAIN c.content} :
                          c \in {x \in inner : x.kind = "shard"}}
        all == secs \cup inner \cup inner2
    IN  [objs |-> UNION {{a.content[i] : i \in DOMAIN a.content} :
                           a \in {x \in all : x.kind \in {"assertion", "addrAssertion"}}},
         sigs |-> {m.sigs[i] : i \in DOMAIN m.sigs}
                  \cup UNION {{x.sigs[i] : i \in DOMAIN x.sigs} :
                               x \in {y \in all : "sigs" \in DOMAIN y}}]

Encodable(m) ==
    /\ \A o \in ObjectsOf(m).objs :
          /\ o.type \in OTName..OTExtraKey
          /\ o.val.kind = "pkey" => o.val.algo = Ed25519
    /\ \A s \in ObjectsOf(m).sigs : s.data.kind = "bytes"

-----------------------------------------------------------------------------

Init ==
    /\ msg \in Msgs
    /\ result = EncodeMessage(msg)

\* a caller (a server or client about to send) encodes a message
Encode ==
    \E m \in Msgs :
        /\ msg' = m
        /\ result' = EncodeMessage(m)

Next == Encode

Spec == Init /\ [][Next]_vars

-----------------------------------------------------------------------------
(* Properties *)

\* Encoding a message whose objects carry values of their Go types never
\* panics (the plain type assertions of encodeObjects and encodePublicKey).
NoPanic == result.status # "panic"

\* Whenever EncodeMessage returns without error, reading the encoded message
\* back gives the message that was encoded: every signature, section and
\* object is in its slot (encodeObjects, encodeSignatures, the content
\* loops).
RoundTrip ==
    result.status = "nil" => DecodeMessage(result.enc) = msg

\* EncodeMessage reports an error for a message that the wire format cannot
\* carry (an unsupported object type or key algorithm, signature data that
\* is not a byte slice) rather than returning it encoded in part.
EncodeReportsFailure ==
    ~Encodable(msg) => result.status # "nil"

=============================================================================
