--------------------------- MODULE ZoneFileParser ---------------------------
(***************************************************************************)
(* The rainspub zone-file parser (zoneFileParserImpl.parseZoneFile,        *)
(* parseShard, parseAssertion, getCertObject and getCert*, in              *)
(* src/rainspub/rainspubUtil_test.go) together with the bufio.Scanner it  *)
(* reads words from.                                                       *)
(*                                                                         *)
(* A file is a sequence of bytes.  Every word of the file is abstracted to *)
(* one byte (a string such as ":A:" or "80"), and words are separated by   *)
(* Space.  The scanner is modelled at the level of its buffer, because     *)
(* Scanner.Bytes returns a slice of that buffer, not a copy: a certificate *)
(* object's Data is a reference into the buffer, and what the caller finds *)
(* there is what the buffer holds when parseZoneFile returns.  The buffer  *)
(* has BufSize bytes (bufio's startBufSize, 4096); words are shorter than  *)
(* it, so it never grows.                                                  *)
(***************************************************************************)
EXTENDS Integers, SequencesExt

CONSTANTS
    Inputs,     \* the zones whose files are parsed, each with a buffer size
    Numbers     \* the naturals written in the files (ports, priorities, codes)

VARIABLES
    zone,       \* the zone the file was written from
    file,       \* [bytes, bufSize]: the bytes parseZoneFile is given (the
                \* file or a prefix of it), and its scanner's buffer size
    result      \* what parseZoneFile returns, cert data read after it returned

vars == <<zone, file, result>>

OTName == 1  OTIP6Addr == 2  OTIP4Addr == 3  OTRedirection == 4
OTNameset == 6  OTCertInfo == 7  OTServiceInfo == 8  OTRegistrar == 9
OTRegistrant == 10

Space == " "
Nul == "nul"       \* a zero byte of a freshly allocated buffer
NoTok == -1        \* the scanner's token is nil

\* strconv.Atoi, over the decimal numbers the files contain
IsDecimal(w) == \E n \in Numbers : ToString(n) = w
Atoi(w) == CHOOSE n \in Numbers : ToString(n) = w

-----------------------------------------------------------------------------
(* bufio.Scanner with the ScanWords split function, reading a bytes.Reader *)

NewScanner(f, size) ==
    [src |-> f, size |-> size, buf |-> [i \in 0..size-1 |-> Nul],
     start |-> 0, end |-> 0, rd |-> 0, eof |-> FALSE, tok |-> NoTok]

\* ScanWords on buf[start:end]: skip spaces, return the word up to the next
\* space, or the last word at EOF, or ask for more data
ScanWords(s) ==
    LET words == {i \in s.start..s.end-1 : s.buf[i] # Space}
        first == IF words = {} THEN s.end ELSE Min(words)
        ends  == {i \in first+1..s.end-1 : s.buf[i] = Space}
    IN  CASE words # {} /\ ends # {} -> [adv |-> Min(ends) + 1 - s.start, tok |-> first]
          [] words # {} /\ s.eof     -> [adv |-> s.end - s.start, tok |-> first]
          [] OTHER                   -> [adv |-> first - s.start, tok |-> NoTok]

Advance(s, w) == [s EXCEPT !.start = @ + w.adv, !.tok = w.tok]

\* shift the unread bytes to the front when the buffer is full or more than
\* half consumed (overwriting what earlier tokens pointed to)
Compact(s) ==
    IF s.start > 0 /\ (s.end = s.size \/ s.start > s.size \div 2)
    THEN [s EXCEPT !.buf = [i \in 0..s.size-1 |->
                              IF i < s.end - s.start THEN s.buf[i + s.start]
                              ELSE s.buf[i]],
                   !.end = s.end - s.start, !.start = 0]
    ELSE s

\* one Read into buf[end:]; bytes.Reader reports EOF once nothing is left
Fill(s) ==
    IF s.rd = Len(s.src) THEN [s EXCEPT !.eof = TRUE]
    ELSE LET n == Min({s.size - s.end, Len(s.src) - s.rd})
         IN  [s EXCEPT !.buf = [i \in 0..s.size-1 |->
                                  IF s.end <= i /\ i < s.end + n
                                  THEN s.src[s.rd + i - s.end + 1] ELSE s.buf[i]],
                       !.end = s.end + n, !.rd = s.rd + n]

RECURSIVE Scan(_), ScanStep(_, _)
\* Scanner.Scan: split what is buffered, else compact and read, until a
\* token is found or EOF (then start = end = 0 and the token is nil)
Scan(s) ==
    IF s.end > s.start \/ s.eof THEN ScanStep(s, ScanWords(s))
    ELSE Scan(Fill(Compact(s)))
ScanStep(s, w) ==
    CASE w.tok # NoTok -> Advance(s, w)
      [] s.eof         -> [Advance(s, w) EXCEPT !.start = 0, !.end = 0]
      [] OTHER         -> Scan(Fill(Compact(Advance(s, w))))

\* Scanner.Text copies the token; Scanner.Bytes returns the slice itself
Text(s) == IF s.tok = NoTok THEN "" ELSE s.buf[s.tok]
Bytes(s) == [at |-> s.tok]

-----------------------------------------------------------------------------
(* The parser.  A result is [ok, sc, val]: the scanner after the call and  *)
(* the value returned, or ok = FALSE for a returned error.                 *)

Err == [ok |-> FALSE]
Ok(s, v) == [ok |-> TRUE, sc |-> s, val |-> v]

CertPT == ("0" :> 0) @@ ("1" :> 1)                       \* getCertPT
CertUsage == ("2" :> 2) @@ ("3" :> 3)                    \* getCertUsage
CertHashType == ("0" :> 0) @@ ("1" :> 1) @@ ("2" :> 2) @@ ("3" :> 3)

\* getCertObject: three codes, then the data word taken with Bytes
GetCertObject(s0) ==
    LET s1 == Scan(s0)  s2 == Scan(s1)  s3 == Scan(s2)  s4 == Scan(s3)
    IN  IF /\ Text(s1) \in DOMAIN CertPT
           /\ Text(s2) \in DOMAIN CertUsage
           /\ Text(s3) \in DOMAIN CertHashType
        THEN Ok(s4, [type |-> OTCertInfo,
                     value |-> [ptype |-> CertPT[Text(s1)], usage |-> CertUsage[Text(s2)],
                                hashAlgo |-> CertHashType[Text(s3)], data |-> Bytes(s4)]])
        ELSE Err

\* the :srv: case: name, port and priority; the port is converted to uint16
ParseSrv(s0) ==
    LET s1 == Scan(s0)  s2 == Scan(s1)  s3 == Scan(s2)
    IN  IF IsDecimal(Text(s2)) /\ IsDecimal(Text(s3))
        THEN Ok(s3, [type |-> OTServiceInfo,
                     value |-> [name |-> Text(s1), port |-> Atoi(Text(s2)) % 2^16,
                                priority |-> Atoi(Text(s3))]])
        ELSE Err

\* the object tags whose data is the next word, taken with Text
ValueTags == (":name:" :> OTName) @@ (":ip6:" :> OTIP6Addr) @@ (":ip4:" :> OTIP4Addr)
             @@ (":redir:" :> OTRedirection) @@ (":nameset:" :> OTNameset)
             @@ (":regr:" :> OTRegistrar) @@ (":regt:" :> OTRegistrant)

NoObject == [type |-> 0]

\* one case of parseAssertion's switch, the scanner at the object's tag
ParseObject(s) ==
    CASE Text(s) \in DOMAIN ValueTags ->
            Ok(Scan(s), [type |-> ValueTags[Text(s)], value |-> Text(Scan(s))])
      [] Text(s) \in {":deleg:", ":infra:", ":extra:"} -> Ok(s, NoObject)
      [] Text(s) = ":cert:" -> GetCertObject(s)
      [] Text(s) = ":srv:" -> ParseSrv(s)
      [] OTHER -> Err

RECURSIVE ObjectLoop(_, _), ObjectStep(_, _)
ObjectLoop(s, a) ==
    IF Text(s) = "]" THEN Ok(s, a) ELSE ObjectStep(ParseObject(s), a)
ObjectStep(r, a) ==
    IF ~r.ok THEN Err
    ELSE ObjectLoop(Scan(r.sc), IF r.val = NoObject THEN a
                                ELSE [a EXCEPT !.content = Append(@, r.val)])

\* parseAssertion: subject name, "[" (not checked), objects up to "]"
ParseAssertion(context, zn, s) ==
    ObjectLoop(Scan(Scan(Scan(s))),
               [context |-> context, zone |-> zn, name |-> Text(Scan(s)), content |-> <<>>])

RECURSIVE ShardLoop(_, _, _, _), ShardStep(_, _, _, _)
ShardLoop(context, zn, s, as) ==
    CASE Text(s) = "]"   -> Ok(s, as)
      [] Text(s) # ":A:" -> Err
      [] OTHER           -> ShardStep(context, zn, ParseAssertion(context, zn, s), as)
ShardStep(context, zn, r, as) ==
    IF ~r.ok THEN Err ELSE ShardLoop(context, zn, Scan(r.sc), Append(as, r.val))

\* (mutant) the "[" of a shard not skipped
ParseShardNoBracket(context, zn, s) == ShardLoop(context, zn, Scan(s), <<>>)

\* parseShard: "[" (not checked), then assertions up to "]"
ParseShard(context, zn, s) == ShardLoop(context, zn, Scan(Scan(s)), <<>>)

\* an assertion as the list of one
AsList(r) == IF r.ok THEN [r EXCEPT !.val = <<@>>] ELSE r

RECURSIVE ZoneLoop(_, _, _, _), ZoneStep(_, _, _, _)
\* (mutant) the end of the file taken as the end of the zone
ZoneLoopEofEnds(context, zn, s, as) ==
    CASE Text(s) \in {"]", ""} -> Ok(s, as)
      [] Text(s) = ":A:" -> ZoneStep(context, zn, AsList(ParseAssertion(context, zn, s)), as)
      [] Text(s) = ":S:" -> ZoneStep(context, zn, ParseShard(context, zn, s), as)
      [] OTHER           -> Err
ZoneLoop(context, zn, s, as) ==
    CASE Text(s) = "]"   -> Ok(s, as)
      [] Text(s) = ":A:" -> ZoneStep(context, zn, AsList(ParseAssertion(context, zn, s)), as)
      [] Text(s) = ":S:" -> ZoneStep(context, zn, ParseShard(context, zn, s), as)
      [] OTHER           -> Err
ZoneStep(context, zn, r, as) ==
    IF ~r.ok THEN Err ELSE ZoneLoop(context, zn, Scan(r.sc), as \o r.val)

\* parseZoneFile: ":Z:" (only logged if missing), context, zone, "[" (not
\* checked), then assertions and shards up to "]"
ParseZoneFile(f, size) ==
    LET s1 == Scan(NewScanner(f, size))  s2 == Scan(s1)  s3 == Scan(s2)
    IN  ZoneLoop(Text(s2), Text(s3), Scan(Scan(s3)), <<>>)

\* the certificate data as the caller reads it once parseZoneFile returned:
\* the bytes its slice points to in the scanner's final buffer
ReadData(buf, o) ==
    IF o.type = OTCertInfo
    THEN [o EXCEPT !.value.data = IF @.at = NoTok THEN "" ELSE buf[@.at]]
    ELSE o

Returned(r) ==
    IF ~r.ok THEN [ok |-> FALSE, done |-> TRUE]
    ELSE [ok |-> TRUE, done |-> TRUE,
          assertions |-> [i \in DOMAIN r.val |->
              [r.val[i] EXCEPT !.content = [j \in DOMAIN @ |-> ReadData(r.sc.buf, @[j])]]]]

-----------------------------------------------------------------------------
(* The zone-file format of the zoneFileParser interface comment:           *)
(*   :Z: <context> <zone> [(:S:<Shard Content>|:A:<Assertion Content>)*]    *)
(*   Shard Content: [(:A:<Assertion Content>)*]                            *)
(*   Assertion Content: <subject-name>[(:objectType:<object data>)*]        *)
(* A zone is [context, zone, content], each item of content an assertion   *)
(* [name, objs] or a shard [shard: sequence of assertions]; an object is   *)
(* [type, value] as parseAssertion builds it.                              *)

Tag == [t \in {OTCertInfo, OTServiceInfo} \cup Range(ValueTags) |->
          CASE t = OTCertInfo -> ":cert:" [] t = OTServiceInfo -> ":srv:"
            [] OTHER -> CHOOSE w \in DOMAIN ValueTags : ValueTags[w] = t]

ObjectWords(o) ==
    CASE o.type = OTCertInfo ->
            <<":cert:", ToString(o.value.ptype), ToString(o.value.usage),
              ToString(o.value.hashAlgo), o.value.data>>
      [] o.type = OTServiceInfo ->
            <<":srv:", o.value.name, ToString(o.value.port), ToString(o.value.priority)>>
      [] OTHER -> <<Tag[o.type], o.value>>

AssertionWords(a) ==
    <<a.name, "[">> \o FlattenSeq([i \in DOMAIN a.objs |-> ObjectWords(a.objs[i])]) \o <<"]">>

ItemWords(x) ==
    IF "shard" \in DOMAIN x
    THEN <<":S:", "[">>
         \o FlattenSeq([i \in DOMAIN x.shard |-> <<":A:">> \o AssertionWords(x.shard[i])])
         \o <<"]">>
    ELSE <<":A:">> \o AssertionWords(x)

\* the words of the zone's file, each followed by a space
FileOf(z) ==
    LET ws == <<":Z:", z.context, z.zone, "[">>
              \o FlattenSeq([i \in DOMAIN z.content |-> ItemWords(z.content[i])]) \o <<"]">>
    IN  [i \in 1..2*Len(ws) |-> IF i % 2 = 1 THEN ws[(i+1) \div 2] ELSE Space]

\* the assertions the file holds, in file order, shards flattened
Expected(z) ==
    LET asOf(x) == IF "shard" \in DOMAIN x THEN x.shard ELSE <<x>>
        items == FlattenSeq([i \in DOMAIN z.content |-> asOf(z.content[i])])
    IN  [i \in DOMAIN items |-> [context |-> z.context, zone |-> z.zone,
                                 name |-> items[i].name, content |-> items[i].objs]]

-----------------------------------------------------------------------------

NotParsed == [ok |-> FALSE, done |-> FALSE]

\* rainspub has read a zone file, whole or cut short, and not yet parsed it
Init ==
    \E inp \in Inputs : \E n \in 0..Len(FileOf(inp.zone)) :
        /\ zone = inp.zone
        /\ file = [bytes |-> SubSeq(FileOf(inp.zone), 1, n), bufSize |-> inp.bufSize]
        /\ result = NotParsed

\* it parses the file, once
Parse ==
    /\ result = NotParsed
    /\ result' = Returned(ParseZoneFile(file.bytes, file.bufSize))
    /\ UNCHANGED <<zone, file>>

Next == Parse

Spec == Init /\ [][Next]_vars

-----------------------------------------------------------------------------
(* Properties *)

\* parseZoneFile returns, for a whole file written in the documented format,
\* exactly the assertions it holds, in order, every object with its data
\* (the word loops of parseZoneFile, parseShard and parseAssertion, and the
\* certificate data taken with scanner.Bytes).
ParseRoundTrip ==
    result.done /\ file.bytes = FileOf(zone) =>
        result = [ok |-> TRUE, done |-> TRUE, assertions |-> Expected(zone)]

\* A file cut short so that it lacks at least one of its words is rejected
\* with an error, rather than returned as a smaller zone: every loop ends
\* only on its "]" and reads the empty text of EOF as an error.
TruncatedRejected ==
    Len(file.bytes) < Len(FileOf(zone)) - 1 => ~result.ok

=============================================================================
