---------------------------- MODULE MCObjectOrder ----------------------------
(***************************************************************************)
(* Object sets for ObjectOrder.  Every payload kind the code compares,     *)
(* each with two values per field where the field decides the order.     *)
(***************************************************************************)
EXTENDS ObjectOrder

Str(t, s) == [type |-> t, val |-> [kind |-> "string", s |-> s]]
NameObj(n, ts) == [type |-> OTName, val |-> [kind |-> "name", name |-> n, types |-> ts]]
PKey(t, algo, since, key) ==
    [type |-> t, val |-> [kind |-> "pkey", algo |-> algo, keySpace |-> 0,
                          validSince |-> since, validUntil |-> 5, key |-> key]]

\* objects whose comparison the code gets right: name objects whose type
\* lists have one length per name (one type each, or two types in either
\* order), Ed25519 keys
HandledObjs ==
    {Str(OTIP4Addr, s) : s \in {0, 1}} \cup {Str(OTIP6Addr, 0)}
    \cup {[type |-> OTNameset, val |-> [kind |-> "nameset", s |-> s]] : s \in {0, 1}}
    \cup {NameObj(n, <<t>>) : n \in {0, 1}, t \in {OTIP6Addr, OTIP4Addr}}
    \cup {NameObj(2, <<OTIP4Addr, OTIP6Addr>>), NameObj(2, <<OTIP6Addr, OTIP4Addr>>)}
    \cup {PKey(OTDelegation, Ed25519, since, key) : since \in {0, 1}, key \in {0, 1}}
    \cup {[type |-> OTCertInfo,
           val |-> [kind |-> "cert", ptype |-> pt, usage |-> 3, hashAlgo |-> 1,
                    data |-> d]] : pt \in {0, 1}, d \in {0, 1}}
    \cup {[type |-> OTServiceInfo,
           val |-> [kind |-> "service", name |-> 0, port |-> pt,
                    priority |-> pr]] : pt \in {0, 1}, pr \in {0, 1}}

\* name objects whose type lists have different lengths
NamePrefixObjs ==
    {NameObj(n, ts) : n \in {0, 1},
                      ts \in {<<>>, <<OTIP4Addr>>, <<OTIP4Addr, OTIP6Addr>>}}
    \cup {Str(OTIP4Addr, s) : s \in {0, 1, 2}}
=============================================================================
