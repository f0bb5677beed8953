----------------------------- MODULE GlazeCodec -----------------------------
(***************************************************************************)
(* The payload of a port message: glaze_meta.h writes the fields of a      *)
(* struct of pk_types.h one after the other, and GlazeCodec (codec.dart)   *)
(* reads them back with a _Reader that checks each read against the length *)
(* of its Uint8List, which may be a view into a larger buffer.             *)
(*                                                                         *)
(* A byte has Base values, so that a small Base keeps four-byte lengths    *)
(* and eight-byte sizes within reach of the checker; no definition depends *)
(* on Base being 256.  The text of a string is a sequence of bytes.        *)
(***************************************************************************)
EXTENDS Integers, Sequences, FiniteSets, SequencesExt

CONSTANTS
  Base,          \* values of a byte (256 in the code)
  Semicolon,     \* the byte that separates the parts of a package id
  Inputs,        \* the structs to send: [kind, sent] with a value per field
  Starts         \* where in its buffer the Uint8List may start

ASSUME CodecAssumption ==
  Base \in Nat /\ Base >= 2 /\ Semicolon \in 0..(Base - 1) /\ Starts \subseteq Nat

Byte == 0..(Base - 1)

(* How many values four bytes have, and eight.                             *)
Word == Base * (Base * (Base * Base))
DoubleWord == Base * (Base * (Base * (Base * Word)))

(* A field is its name and its type.                                       *)
U32(name)  == <<name, "u32">>
U64(name)  == <<name, "u64">>
Bool(name) == <<name, "bool">>
Str(name)  == <<name, "str">>
List(name) == <<name, "list">>

(* glz::meta<T>::fields of each struct, and what postFinished writes.      *)
ContentFields == [
  Package |-> <<U32("info"), Str("packageId"), Str("summary")>>,
  Progress |-> <<Str("packageId"), U32("status"), U32("percentage"), Bool("isItem")>>,
  Details |-> <<Str("packageId"), Str("summary"), Str("description"), Str("url"),
                Str("license"), Str("group"), U64("size")>>,
  UpdateDetail |-> <<Str("packageId"), List("updates"), List("obsoletes"),
                     List("vendorUrls"), List("bugzillaUrls"), List("cveUrls"),
                     U32("restart"), Str("updateText"), Str("changelog"), U32("state"),
                     Str("issued"), Str("updated")>>,
  RepoDetail |-> <<Str("repoId"), Str("description"), Bool("enabled")>>,
  Files |-> <<Str("packageId"), List("files")>>]

NoticeFields == [
  ErrorCode |-> <<U32("code"), Str("details")>>,
  Message |-> <<U32("type"), Str("details")>>,
  EulaRequired |-> <<Str("eulaId"), Str("packageId"), Str("vendorName"),
                     Str("licenseAgreement")>>,
  RepoSigRequired |-> <<Str("packageId"), Str("repositoryName"), Str("keyUrl"),
                        Str("keyUserId"), Str("keyId"), Str("keyFingerprint"),
                        Str("keyTimestamp"), U32("type")>>,
  RequireRestart |-> <<U32("type"), Str("packageId")>>]

PropertyFields == [
  ManagerProps |-> <<Str("backendName"), Str("backendDescription"), Str("backendAuthor"),
                     U64("roles"), U64("filters"), U64("groups"), List("mimeTypes"),
                     Str("distroId"), U32("networkState"), Bool("locked"),
                     U32("versionMajor"), U32("versionMinor"), U32("versionMicro")>>]

RuntimeFirst == [Finished |-> <<U32("runtimeMs"), U32("exitCode")>>]

FinishedFields == [Finished |-> <<U32("exitCode"), U32("runtimeMs")>>]

Kinds == DOMAIN ContentFields \cup DOMAIN NoticeFields \cup {"ManagerProps", "Finished"}

NativeFields ==
  [kind \in Kinds |->
     IF kind \in DOMAIN ContentFields THEN ContentFields[kind]
     ELSE IF kind \in DOMAIN NoticeFields THEN NoticeFields[kind]
     ELSE IF kind = "ManagerProps" THEN PropertyFields[kind]
     ELSE FinishedFields[kind]]

Names(kind) == {NativeFields[kind][i][1] : i \in DOMAIN NativeFields[kind]}

(* What a member of each type holds: no string and no list is too long for *)
(* the four bytes of its length.                                           *)
IsString(v) == v \in Seq(Byte) /\ Len(v) < Word

HasType(type, v) ==
  /\ type = "u32" => v \in 0..(Word - 1)
  /\ type = "u64" => v \in 0..(DoubleWord - 1)
  /\ type = "bool" => v \in BOOLEAN
  /\ type = "str" => IsString(v)
  /\ type = "list" => v \in Seq(Seq(Byte)) /\ Len(v) < Word /\ \A i \in DOMAIN v : IsString(v[i])

ASSUME InputsAssumption ==
  \A in \in Inputs :
    /\ in.kind \in Kinds
    /\ in.sent = [name \in Names(in.kind) |-> in.sent[name]]
    /\ \A i \in DOMAIN NativeFields[in.kind] :
         HasType(NativeFields[in.kind][i][2], in.sent[NativeFields[in.kind][i][1]])

(* The reads of each _decode function, in their order.                     *)
DartFields == [
  Package |-> <<U32("info"), Str("packageId"), Str("summary")>>,
  Progress |-> <<Str("packageId"), U32("status"), U32("percentage"), Bool("isItem")>>,
  Details |-> <<Str("packageId"), Str("summary"), Str("description"), Str("url"),
                Str("license"), Str("group"), U64("size")>>,
  UpdateDetail |-> <<Str("packageId"), List("updates"), List("obsoletes"),
                     List("vendorUrls"), List("bugzillaUrls"), List("cveUrls"),
                     U32("restart"), Str("updateText"), Str("changelog"), U32("state"),
                     Str("issued"), Str("updated")>>,
  RepoDetail |-> <<Str("repoId"), Str("description"), Bool("enabled")>>,
  Files |-> <<Str("packageId"), List("files")>>,
  ErrorCode |-> <<U32("code"), Str("details")>>,
  Message |-> <<U32("type"), Str("details")>>,
  EulaRequired |-> <<Str("eulaId"), Str("packageId"), Str("vendorName"),
                     Str("licenseAgreement")>>,
  RepoSigRequired |-> <<Str("packageId"), Str("repositoryName"), Str("keyUrl"),
                        Str("keyUserId"), Str("keyId"), Str("keyFingerprint"),
                        Str("keyTimestamp"), U32("type")>>,
  RequireRestart |-> <<U32("type"), Str("packageId")>>,
  ManagerProps |-> <<Str("backendName"), Str("backendDescription"), Str("backendAuthor"),
                     U64("roles"), U64("filters"), U64("groups"), List("mimeTypes"),
                     Str("distroId"), U32("networkState"), Bool("locked"),
                     U32("versionMajor"), U32("versionMinor"), U32("versionMicro")>>,
  Finished |-> <<U32("exitCode"), U32("runtimeMs")>>]

-----------------------------------------------------------------------------
(* The native side: glz::encode.                                           *)

LittleEndian(v, width) ==
  LET rest[k \in 0..width] == IF k = 0 THEN v ELSE rest[k - 1] \div Base
  IN  [k \in 1..width |-> rest[k - 1] % Base]

EncodeString(s) == LittleEndian(Len(s), 4) \o s

EncodeField(type, v) ==
  CASE type = "u32"  -> LittleEndian(v, 4)
    [] type = "u64"  -> LittleEndian(v, 8)
    [] type = "bool" -> <<IF v THEN 1 ELSE 0>>
    [] type = "str"  -> EncodeString(v)
    [] type = "list" -> LittleEndian(Len(v), 4) \o
                          FlattenSeq([i \in DOMAIN v |-> EncodeString(v[i])])

EncodedFields(in) ==
  LET fields == NativeFields[in.kind] IN
  [i \in DOMAIN fields |-> EncodeField(fields[i][2], in.sent[fields[i][1]])]

(* A message: the discriminator, then the struct.                          *)
Encode(in) == <<0>> \o FlattenSeq(EncodedFields(in))

(* The number whose bytes start at an offset, the lowest first.            *)
NumberIn(bytes, at, width) ==
  LET from[k \in 0..width] ==
        IF k = width THEN 0 ELSE bytes[at + k + 1] + Base * from[k + 1]
  IN  from[0]

(* A record with one more field.                                           *)
With(record, name, value) ==
  [n \in DOMAIN record \cup {name} |-> IF n = name THEN value ELSE record[n]]

(* glz::decode, which trusts its bytes: <<value, offset behind it>>.       *)
StringUncounted(bytes, at) ==
  LET n == NumberIn(bytes, at, 4) IN <<SubSeq(bytes, at + 5, at + 4 + n), at + n>>

StringIn(bytes, at) ==
  LET end == at + 4 + NumberIn(bytes, at, 4) IN <<SubSeq(bytes, at + 5, end), end>>

ListIn(bytes, at) ==
  LET upTo[i \in 0..NumberIn(bytes, at, 4)] ==
        IF i = 0 THEN <<<<>>, at + 4>>
        ELSE LET next == StringIn(bytes, upTo[i - 1][2])
             IN  <<Append(upTo[i - 1][1], next[1]), next[2]>>
  IN  upTo[NumberIn(bytes, at, 4)]

DecodeField(type, bytes, at) ==
  CASE type = "u32"  -> <<NumberIn(bytes, at, 4), at + 4>>
    [] type = "u64"  -> <<NumberIn(bytes, at, 8), at + 8>>
    [] type = "bool" -> <<bytes[at + 1] # 0, at + 1>>
    [] type = "str"  -> StringIn(bytes, at)
    [] type = "list" -> ListIn(bytes, at)

Decode(kind, bytes) ==
  LET fields == NativeFields[kind]
      upTo[i \in 0..Len(fields)] ==
        IF i = 0 THEN <<<<>>, 1>>
        ELSE LET next == DecodeField(fields[i][2], bytes, upTo[i - 1][2])
             IN  <<With(upTo[i - 1][1], fields[i][1], next[1]), next[2]>>
  IN  upTo[Len(fields)]

-----------------------------------------------------------------------------
(* What the constructors of package.dart and enums.dart make of a field.   *)

(* Where the separators are, with one before the id and one behind it.     *)
Cuts(id) ==
  LET upTo[i \in 0..Len(id)] ==
        IF i = 0 THEN <<0>>
        ELSE IF id[i] = Semicolon THEN Append(upTo[i - 1], i) ELSE upTo[i - 1]
  IN  Append(upTo[Len(id)], Len(id) + 1)

(* id.split(';')                                                           *)
Split(id) ==
  [k \in 1..(Len(Cuts(id)) - 1) |-> SubSeq(id, Cuts(id)[k] + 1, Cuts(id)[k + 1] - 1)]

HasFourParts(id) == Len(Split(id)) >= 4

IsPackageId(id) == Len(Split(id)) = 4

PackageId(id) ==
  LET parts == Split(id)
  IN  [name |-> parts[1], version |-> parts[2], arch |-> parts[3], data |-> parts[4]]

Raw(id) == id.name \o <<Semicolon>> \o id.version \o <<Semicolon>>
             \o id.arch \o <<Semicolon>> \o id.data

(* The values of PkInfo and PkStatus.                                      *)
Known == [info |-> 0..25, status |-> 0..36]

FromInt(name, v) == IF v \in Known[name] THEN v ELSE 0

-----------------------------------------------------------------------------
(* The Dart side: one _Reader at work.                                     *)

VARIABLES
  input,         \* what was sent
  buffer,        \* the ByteBuffer behind the Uint8List
  start,         \* offsetInBytes: where the Uint8List starts in it
  length,        \* _length: less than the message if the view is truncated
  offset,        \* _offset
  field,         \* the read that comes next
  left,          \* strings left of the list that is being read
  items,         \* the strings of that list so far
  out,           \* the values of the fields read
  status         \* "reading", "decoded", "RangeError" or "FormatException"

messageVars == <<input, buffer, start, length>>
vars == <<messageVars, offset, field, left, items, out, status>>

Init ==
  /\ input \in Inputs
  /\ start \in Starts
  /\ buffer = [i \in 1..start |-> 1] \o Encode(input)
  /\ length \in 1..(Len(buffer) - start)
  /\ offset = 1
  /\ field = 1
  /\ left = -1
  /\ items = <<>>
  /\ out = <<>>
  /\ status = "reading"

(* _checkBounds.  The view's own length counts, not the buffer's.          *)
FitsBuffer(at, n) == at + n <= Len(buffer) - start
FitsShort(at, n)  == at + n < length

Fits(at, n) == at + n <= length

ByteAt(at) == buffer[start + at + 1]

IntAt(at, width) ==
  LET v == NumberIn(buffer, start + at, width)
  IN  IF 2 * v >= Base^width THEN v - Base^width ELSE v

UintAt(at, width) == NumberIn(buffer, start + at, width)

(* A Dart int has 64 bits and a sign.                                      *)
Signed(v) == IF 2 * v >= DoubleWord THEN v - DoubleWord ELSE v

StringFits(at) == Fits(at, 4) /\ Fits(at + 4, UintAt(at, 4))

StringAt(at) == SubSeq(buffer, start + at + 5, start + at + 4 + UintAt(at, 4))

Reading(type) ==
  /\ status = "reading"
  /\ field \in DOMAIN DartFields[input.kind]
  /\ DartFields[input.kind][field][2] = type

Store(value, end) ==
  /\ out' = With(out, DartFields[input.kind][field][1], value)
  /\ offset' = end
  /\ field' = field + 1
  /\ UNCHANGED <<messageVars, status>>

readUint32 ==
  /\ Reading("u32")
  /\ Fits(offset, 4)
  /\ Store(UintAt(offset, 4), offset + 4)
  /\ UNCHANGED <<left, items>>

readUint64 ==
  /\ Reading("u64")
  /\ Fits(offset, 8)
  /\ Store(Signed(UintAt(offset, 8)), offset + 8)
  /\ UNCHANGED <<left, items>>

readBool ==
  /\ Reading("bool")
  /\ Fits(offset, 1)
  /\ Store(ByteAt(offset) # 0, offset + 1)
  /\ UNCHANGED <<left, items>>

readString ==
  /\ Reading("str")
  /\ StringFits(offset)
  /\ Store(StringAt(offset), offset + 4 + UintAt(offset, 4))
  /\ UNCHANGED <<left, items>>

(* readStringList: the count, the strings, and the list.                   *)
readCount ==
  /\ Reading("list")
  /\ left = -1
  /\ Fits(offset, 4)
  /\ left' = UintAt(offset, 4)
  /\ items' = <<>>
  /\ offset' = offset + 4
  /\ UNCHANGED <<messageVars, field, out, status>>

readItem ==
  /\ Reading("list")
  /\ left > 0
  /\ StringFits(offset)
  /\ left' = left - 1
  /\ items' = Append(items, StringAt(offset))
  /\ offset' = offset + 4 + UintAt(offset, 4)
  /\ UNCHANGED <<messageVars, field, out, status>>

ListRead ==
  /\ Reading("list")
  /\ left = 0
  /\ Store(items, offset)
  /\ left' = -1
  /\ UNCHANGED items

(* _checkBounds throws and the decode function with it.                    *)
Overrun ==
  /\ \/ Reading("u32") /\ ~Fits(offset, 4)
     \/ Reading("u64") /\ ~Fits(offset, 8)
     \/ Reading("bool") /\ ~Fits(offset, 1)
     \/ Reading("str") /\ ~StringFits(offset)
     \/ Reading("list") /\ left = -1 /\ ~Fits(offset, 4)
     \/ Reading("list") /\ left > 0 /\ ~StringFits(offset)
  /\ status' = "RangeError"
  /\ UNCHANGED <<messageVars, offset, field, left, items, out>>

AllRead ==
  /\ status = "reading"
  /\ field > Len(DartFields[input.kind])

ParsesId == input.kind \in {"Package", "Details"}

Constructed(name) ==
  IF name = "packageId" /\ ParsesId THEN PackageId(out[name])
  ELSE IF name \in DOMAIN Known THEN FromInt(name, out[name])
  ELSE out[name]

(* The end of a decode function, or a package id that does not parse.      *)
Return ==
  /\ AllRead
  /\ ParsesId => IsPackageId(out.packageId)
  /\ out' = [name \in DOMAIN out |-> Constructed(name)]
  /\ status' = "decoded"
  /\ UNCHANGED <<messageVars, offset, field, left, items>>

Malformed ==
  /\ AllRead
  /\ ParsesId /\ ~IsPackageId(out.packageId)
  /\ status' = "FormatException"
  /\ UNCHANGED <<messageVars, offset, field, left, items, out>>

Next ==
  \/ readUint32 \/ readUint64 \/ readBool \/ readString
  \/ readCount \/ readItem \/ ListRead
  \/ Overrun \/ Return \/ Malformed

Spec == Init /\ [][Next]_vars

-----------------------------------------------------------------------------
(* The reader's own state has its type.                                    *)
TypeOK ==
  /\ offset \in Nat
  /\ field \in 1..(Len(DartFields[input.kind]) + 1)
  /\ left \in Nat \cup {-1}
  /\ items \in Seq(Seq(Byte))
  /\ status \in {"reading", "decoded", "RangeError", "FormatException"}

(* No read leaves the view, whatever length the bytes claim.               *)
NoOverread == offset <= length

(* The two tables of fields, written twice by hand, agree: each value that *)
(* was sent comes out under its name, a size beyond 63 bits as a negative, *)
(* a value newer than its enum as unknown.                                 *)
Received(name, type) ==
  LET v == input.sent[name]
  IN  IF type = "u64" THEN Signed(v)
      ELSE IF name \in DOMAIN Known /\ v \notin Known[name] THEN 0
      ELSE v

DecodesWhatWasSent ==
  status = "decoded" =>
    \A i \in DOMAIN NativeFields[input.kind] :
      LET name == NativeFields[input.kind][i][1]
          type == NativeFields[input.kind][i][2]
      IN  (name = "packageId" /\ ParsesId) \/ out[name] = Received(name, type)

(* A package id survives its parsing: its four parts are those of the id   *)
(* that was sent, in which the caller will send it back, and no id is       *)
(* refused that has three separators.                                      *)
IdsAreWhole ==
  ParsesId =>
    LET id == input.sent.packageId IN
    /\ status = "decoded" => Raw(out.packageId) = id
    /\ status = "FormatException" =>
         Cardinality({i \in DOMAIN id : id[i] = Semicolon}) # 3

(* The native decoder, against which the native tests check the encoder,   *)
(* reads the same values from a message and ends where the Dart one does.  *)
DecodersAgree ==
  status = "decoded" =>
    LET native == Decode(input.kind, SubSeq(buffer, start + 1, start + length))
    IN  native = <<input.sent, offset>>

(* A whole message decodes to its last byte and a truncated one never      *)
(* does: it throws, even where the bytes behind the view are readable.     *)
ThrowsOnTruncation ==
  /\ status = "decoded" => offset = Len(buffer) - start
  /\ status = "RangeError" => length < Len(buffer) - start
=============================================================================
