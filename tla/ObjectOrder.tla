----------------------------- MODULE ObjectOrder -----------------------------
(***************************************************************************)
(* The order on objects of rainslib/objects.go: Object.CompareTo and the   *)
(* CompareTo methods of the payload types it dispatches to.  The engine    *)
(* relies on it to sort and deduplicate assertion content and to decide    *)
(* whether two objects are equal.                                          *)
(*                                                                         *)
(* Strings and byte slices are abstracted to small naturals, whose order   *)
(* stands for the lexicographic order of Go's < on strings and of          *)
(* bytes.Compare.  The state machine draws a pair of objects and records   *)
(* what CompareTo returns on it: [panic |-> TRUE] for a runtime panic.     *)
(* The reference order is the one the specification states (section 3):   *)
(* first by tag, then lexicographically on the payload.                    *)
(***************************************************************************)
EXTENDS Integers, Sequences, TLC, Functions

CONSTANTS
    Objs       \* the objects compared (a set of Object records)

\* ObjectType values (objects.go 99-113)
OTName == 1
OTIP6Addr == 2
OTIP4Addr == 3
OTRedirection == 4
OTDelegation == 5
OTNameset == 6
OTCertInfo == 7
OTServiceInfo == 8
OTRegistrar == 9
OTRegistrant == 10
OTInfraKey == 11
OTExtraKey == 12
OTNextKey == 13

ObjectTypes == OTName .. OTNextKey

\* SignatureAlgorithmType values
Ed25519 == 1
Ed448 == 2
Ecdsa256 == 3
Ecdsa384 == 4

\* KeySpaceID, HashAlgorithmType, ProtocolType, CertificateUsage values
RainsKeySpace == 0
HashAlgorithmTypes == 0 .. 3       \* NoHashAlgo, Sha256, Sha384, Sha512
ProtocolTypes == 0 .. 1            \* PTUnspecified, PTTLS
CertificateUsages == 2 .. 3        \* CUTrustAnchor, CUEndEntity

\* the Go types an Object's Value may hold; strings, byte slices and keys
\* are naturals standing for their order
NameObjectT == [kind : {"name"}, name : Nat, types : Seq(ObjectTypes)]
PublicKeyT ==
    [kind : {"pkey"}, algo : {Ed25519, Ed448, Ecdsa256, Ecdsa384},
     keySpace : {RainsKeySpace}, validSince : Int, validUntil : Int, key : Nat]
CertificateObjectT ==
    [kind : {"cert"}, ptype : ProtocolTypes, usage : CertificateUsages,
     hashAlgo : HashAlgorithmTypes, data : Nat]
ServiceInfoT == [kind : {"service"}, name : Nat, port : 0 .. 65535, priority : Nat]
ObjectT ==
    [type : ObjectTypes,
     val : NameObjectT \cup PublicKeyT \cup CertificateObjectT \cup ServiceInfoT
           \cup [kind : {"string", "nameset"}, s : Nat]]

VARIABLES
    a, b,      \* the two objects last compared
    result     \* what CompareTo returned

vars == <<a, b, result>>

Ret(c) == [panic |-> FALSE, cmp |-> c]
Panic == [panic |-> TRUE, cmp |-> 0]

\* Go's three-way comparison of two ordered scalars
Cmp3(x, y) == IF x < y THEN -1 ELSE IF x > y THEN 1 ELSE 0

\* the first non-zero of a list of comparisons, in order
RECURSIVE FirstNonZero(_)
FirstNonZero(s) ==
    IF s = <<>> THEN 0
    ELSE IF Head(s) # 0 THEN Head(s) ELSE FirstNonZero(Tail(s))

-----------------------------------------------------------------------------
(* objects.go *)

\* NameObject.CompareTo: the loop over n.Types indexes nameObj.Types[i]
\* without a length check
RECURSIVE CompareNameTypes(_, _, _)
CompareNameTypes(ts1, ts2, i) ==
    IF i > Len(ts1) THEN Ret(0)
    ELSE IF i > Len(ts2) THEN Panic
    ELSE IF ts1[i] # ts2[i] THEN Ret(Cmp3(ts1[i], ts2[i]))
    ELSE CompareNameTypes(ts1, ts2, i + 1)

NameObjectCompareTo(n, m) ==
    IF n.name # m.name THEN Ret(Cmp3(n.name, m.name))
    ELSE CompareNameTypes(n.types, m.types, 1)

\* PublicKey.CompareTo: only Ed25519 keys compare their key bytes
PublicKeyCompareTo(p, k) ==
    LET c == FirstNonZero(<<Cmp3(p.algo, k.algo), Cmp3(p.keySpace, k.keySpace),
                            Cmp3(p.validSince, k.validSince),
                            Cmp3(p.validUntil, k.validUntil)>>)
    IN  IF c # 0 THEN c
        ELSE IF p.algo = Ed25519 /\ k.algo = Ed25519 THEN Cmp3(p.key, k.key)
        ELSE 0

\* CertificateObject.CompareTo
CertificateCompareTo(c, d) ==
    FirstNonZero(<<Cmp3(c.ptype, d.ptype), Cmp3(c.usage, d.usage),
                   Cmp3(c.hashAlgo, d.hashAlgo), Cmp3(c.data, d.data)>>)

ServiceInfoCompareTo(s, t) ==
    FirstNonZero(<<Cmp3(s.name, t.name), Cmp3(s.port, t.port),
                   Cmp3(s.priority, t.priority)>>)

\* mutant: objects of different types return the difference of the types
ObjectCompareToTypeDifference(o, p) ==
    IF o.type # p.type THEN Ret(o.type - p.type)
    ELSE IF o.val.kind # p.val.kind THEN Ret(0)
    ELSE CASE o.val.kind = "name"    -> NameObjectCompareTo(o.val, p.val)
           [] o.val.kind = "string"  -> Ret(Cmp3(o.val.s, p.val.s))
           [] o.val.kind = "pkey"    -> Ret(PublicKeyCompareTo(o.val, p.val))
           [] o.val.kind = "nameset" -> Ret(Cmp3(o.val.s, p.val.s))
           [] o.val.kind = "cert"    -> Ret(CertificateCompareTo(o.val, p.val))
           [] o.val.kind = "service" -> Ret(ServiceInfoCompareTo(o.val, p.val))

\* Object.CompareTo: by type, then by the payload's own CompareTo; a payload
\* of two different Go types compares as 0
ObjectCompareTo(o, p) ==
    IF o.type # p.type THEN Ret(Cmp3(o.type, p.type))
    ELSE IF o.val.kind # p.val.kind THEN Ret(0)
    ELSE CASE o.val.kind = "name"    -> NameObjectCompareTo(o.val, p.val)
           [] o.val.kind = "string"  -> Ret(Cmp3(o.val.s, p.val.s))
           [] o.val.kind = "pkey"    -> Ret(PublicKeyCompareTo(o.val, p.val))
           [] o.val.kind = "nameset" -> Ret(Cmp3(o.val.s, p.val.s))
           [] o.val.kind = "cert"    -> Ret(CertificateCompareTo(o.val, p.val))
           [] o.val.kind = "service" -> Ret(ServiceInfoCompareTo(o.val, p.val))

\* Object.Sort: a name object's Types sorted ascending; sort.Slice works on
\* the slice header copied out of the interface, whose backing array is the
\* object's own, so the object itself is sorted; other values are left as
\* they are (OTExtraKey only logs)
ObjectSort(o) ==
    IF o.val.kind = "name"
    THEN [o EXCEPT !.val.types = SortSeq(@, LAMBDA x, y : x < y)]
    ELSE o

-----------------------------------------------------------------------------
(* Reference order of the specification *)

\* lexicographic order on sequences of naturals, a proper prefix first
RECURSIVE LexCompare(_, _)
LexCompare(s, t) ==
    CASE s = <<>> /\ t = <<>> -> 0
      [] s = <<>>             -> -1
      [] t = <<>>             -> 1
      [] Head(s) # Head(t)    -> Cmp3(Head(s), Head(t))
      [] OTHER                -> LexCompare(Tail(s), Tail(t))

\* the payload as the sequence of its fields in declaration order
Fields(v) ==
    CASE v.kind = "name"    -> <<v.name>> \o v.types
      [] v.kind = "string"  -> <<v.s>>
      [] v.kind = "nameset" -> <<v.s>>
      [] v.kind = "pkey"    -> <<v.algo, v.keySpace, v.validSince, v.validUntil, v.key>>
      [] v.kind = "cert"    -> <<v.ptype, v.usage, v.hashAlgo, v.data>>
      [] v.kind = "service" -> <<v.name, v.port, v.priority>>

RefCompare(o, p) == LexCompare(<<o.type>> \o Fields(o.val), <<p.type>> \o Fields(p.val))

-----------------------------------------------------------------------------

Init ==
    /\ a \in Objs /\ b \in Objs
    /\ result = ObjectCompareTo(a, b)

\* a caller (sorting content, checking consistency) compares two objects
Compare ==
    \E x, y \in Objs :
        /\ a' = x /\ b' = y
        /\ result' = ObjectCompareTo(x, y)

\* a caller sorts both objects with Object.Sort, then compares them
SortThenCompare ==
    \E x, y \in Objs :
        /\ a' = ObjectSort(x) /\ b' = ObjectSort(y)
        /\ result' = ObjectCompareTo(ObjectSort(x), ObjectSort(y))

Next == Compare \/ SortThenCompare

Spec == Init /\ [][Next]_vars

-----------------------------------------------------------------------------
(* Properties *)

TypeOK ==
    /\ a \in ObjectT /\ b \in ObjectT
    /\ result \in [panic : BOOLEAN, cmp : {-1, 0, 1}]

=============================================================================
