---------------------------- MODULE KeyEncoding ----------------------------
(***************************************************************************)
(* encode_composite_key and decode_composite_key: a row's address, in      *)
(* three fields, as one string of bytes that the storage engine compares   *)
(* bytewise.  The machine encodes a key, lets the bytes be damaged and     *)
(* decodes them.                                                           *)
(***************************************************************************)
EXTENDS Integers, Sequences, SequencesExt

CONSTANTS
    Byte,        \* the bytes of a field
    MaxField,    \* bound: bytes of the first field
    MaxOther,    \* bound: bytes of the other two
    malformed,   \* decode_composite_key's error
    none         \* decode_composite_key was not called

ASSUME ByteAssumption == {0, 1, 255} \subseteq Byte /\ Byte \subseteq 0..255

Field(n) == UNION {[1..m -> Byte] : m \in 0..n}

CompositeKey ==
    [partition_key : Field(MaxField), clustering_key : Field(MaxOther),
     column_name : Field(MaxOther)]

VARIABLES
    key,     \* the key that is encoded
    bytes,   \* its encoding, as it is found later
    result   \* what decode_composite_key returned

keyvars == <<key, bytes, result>>

-----------------------------------------------------------------------------
\* Mutant of Terminator: a zero alone ends a field.
BareTerminator == <<0>>

Terminator == <<0, 1>>

Escaped(b) == IF b = 0 THEN <<0, 255>> ELSE <<b>>

EncodeField(f) == FlattenSeq([i \in DOMAIN f |-> Escaped(f[i])]) \o Terminator

EncodeCompositeKey(k) ==
    EncodeField(k.partition_key) \o EncodeField(k.clustering_key)
        \o EncodeField(k.column_name)

-----------------------------------------------------------------------------
(***************************************************************************)
(* decode_field reads the field that starts after place i of b, given the  *)
(* bytes read so far; it returns the field and the place where it ends.    *)
(***************************************************************************)
RECURSIVE DecodeFrom(_, _, _)

\* Mutant of DecodeFrom: any byte but 1 after a zero is an escape.
DecodeAnyEscape(b, i, field) ==
    IF i >= Len(b) THEN malformed
    ELSE IF b[i + 1] # 0 THEN DecodeFrom(b, i + 1, Append(field, b[i + 1]))
    ELSE IF i + 1 >= Len(b) THEN malformed
    ELSE IF b[i + 2] = 1 THEN [field |-> field, end |-> i + 2]
    ELSE DecodeFrom(b, i + 2, Append(field, 0))

DecodeFrom(b, i, field) ==
    IF i >= Len(b) THEN malformed
    ELSE IF b[i + 1] # 0 THEN DecodeFrom(b, i + 1, Append(field, b[i + 1]))
    ELSE IF i + 1 >= Len(b) THEN malformed
    ELSE IF b[i + 2] = 255 THEN DecodeFrom(b, i + 2, Append(field, 0))
    ELSE IF b[i + 2] = 1 THEN [field |-> field, end |-> i + 2]
    ELSE malformed

\* Mutant of DecodeField: an empty field is an error.
DecodeNonEmpty(b, i) ==
    LET d == DecodeFrom(b, i, <<>>)
    IN  IF d = malformed \/ d.field = <<>> THEN malformed ELSE d

DecodeField(b, i) == DecodeFrom(b, i, <<>>)

\* Mutant of DecodeCompositeKey: the last field may go without its end.
DecodeLastLoosely(b) ==
    LET partition == DecodeField(b, 0)
        clustering == DecodeField(b, partition.end)
        column == DecodeField(b \o Terminator, clustering.end)
    IN  IF \/ partition = malformed
           \/ clustering = malformed
           \/ column = malformed
        THEN malformed
        ELSE [partition_key |-> partition.field,
              clustering_key |-> clustering.field,
              column_name |-> column.field]

\* What follows the third field is not looked at.
DecodeCompositeKey(b) ==
    LET partition == DecodeField(b, 0)
        clustering == DecodeField(b, partition.end)
        column == DecodeField(b, clustering.end)
    IN  IF \/ partition = malformed
           \/ clustering = malformed
           \/ column = malformed
        THEN malformed
        ELSE [partition_key |-> partition.field,
              clustering_key |-> clustering.field,
              column_name |-> column.field]

-----------------------------------------------------------------------------
KeyInit == key \in CompositeKey /\ bytes = <<>> /\ result = none

Encode ==
    /\ bytes = <<>>
    /\ bytes' = EncodeCompositeKey(key)
    /\ UNCHANGED <<key, result>>

\* The bytes are read back cut short, with one byte changed, or with more
\* bytes behind them.
Damage ==
    /\ bytes = EncodeCompositeKey(key) /\ result = none
    /\ \/ \E n \in 1..(Len(bytes) - 1) : bytes' = SubSeq(bytes, 1, n)
       \/ \E n \in DOMAIN bytes, b \in Byte : bytes' = [bytes EXCEPT ![n] = b]
       \/ \E b \in Byte : bytes' = Append(bytes, b)
    /\ UNCHANGED <<key, result>>

Decode ==
    /\ bytes # <<>>
    /\ result' = DecodeCompositeKey(bytes)
    /\ UNCHANGED <<key, bytes>>

KeyNext == Encode \/ Damage \/ Decode

KeySpec == KeyInit /\ [][KeyNext]_keyvars

-----------------------------------------------------------------------------
(***************************************************************************)
(* Properties.                                                             *)
(***************************************************************************)
\* Key::operator<=>: bytewise, a prefix first.
Below(s, t) ==
    \/ IsStrictPrefix(s, t)
    \/ \E i \in DOMAIN s \cap DOMAIN t :
          s[i] < t[i] /\ SubSeq(s, 1, i - 1) = SubSeq(t, 1, i - 1)

\* Rows are ordered by partition, then clustering key, then column.
Precedes(j, k) ==
    \/ Below(j.partition_key, k.partition_key)
    \/ /\ j.partition_key = k.partition_key
       /\ \/ Below(j.clustering_key, k.clustering_key)
          \/ /\ j.clustering_key = k.clustering_key
             /\ Below(j.column_name, k.column_name)

\* The engine's bytewise order of encoded keys is the order of the rows, also
\* when a field contains the bytes of an escape or of a terminator.
OrderPreserved ==
    bytes = EncodeCompositeKey(key) =>
        \A k \in CompositeKey :
            Below(bytes, EncodeCompositeKey(k)) <=> Precedes(key, k)

\* Decoding an encoding gives the key back.
RoundTrip ==
    bytes = EncodeCompositeKey(key) /\ result # none => result = key

\* An encoding that was cut short is an error, never a shorter key.
TruncationDetected ==
    IsStrictPrefix(bytes, EncodeCompositeKey(key))
        => result \in {none, malformed}

\* Whatever the bytes are, what decodes is exactly what they begin with.
DecodesWhatIsThere ==
    result \notin {none, malformed}
        => IsPrefix(EncodeCompositeKey(result), bytes)
=============================================================================
