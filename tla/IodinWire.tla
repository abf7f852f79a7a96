------------------------------ MODULE IodinWire ------------------------------
(***************************************************************************)
(* The messages of iodin.proto as proto/iodin.rs writes and reads them:    *)
(* bytes, one sequence per message, behind a length of four bytes.         *)
(*                                                                         *)
(* A message is the sequence of its fields' values, a schema the sequence  *)
(* of their kinds; the place of a field is its number.  What the protobuf  *)
(* runtime does for the generated code is external.  Not followed: groups, *)
(* varints of more than 28 bits, text that is not UTF-8.                   *)
(***************************************************************************)
EXTENDS Naturals, Sequences, SequencesExt

Byte == 0..255

RequestFields  == <<"uint32", "enum", "uint32", "uint32", "bytes">>
ResponseFields == <<"uint32", "enum", "string", "bytes">>

Commands == [INVALID |-> 0, MDB_OPEN |-> 1, MDB_RESET |-> 2, MDB_TX |-> 3, STOP |-> 100]
Statuses == [INVALID |-> 0, OK |-> 1, ERR_INPUT |-> 2, ERR_INTERNAL |-> 3,
             ERR_CHECKSUM |-> 4, ERR_TIMEOUT |-> 5, ERR_HARDWARE |-> 6]

\* A value the enum does not know counts as its default, INVALID.
EnumValueOrDefault(enum, v) == IF \E n \in DOMAIN enum : enum[n] = v THEN v ELSE 0

Delimited(kind) == kind \in {"bytes", "string"}
DefaultOf(kind) == IF Delimited(kind) THEN <<>> ELSE 0
New(schema) == [i \in DOMAIN schema |-> DefaultOf(schema[i])]
Tag(schema, i) == 8 * i + IF Delimited(schema[i]) THEN 2 ELSE 0

IsMessage(schema, m) ==
  /\ DOMAIN m = DOMAIN schema /\ m = [i \in DOMAIN schema |-> m[i]]
  /\ \A i \in DOMAIN schema : IF Delimited(schema[i]) THEN m[i] \in Seq(Byte) ELSE m[i] \in Nat

\* A message within what is followed here.
Huge == 2^28
IsWritable(schema, m) ==
  /\ IsMessage(schema, m)
  /\ \A i \in DOMAIN schema : IF Delimited(schema[i]) THEN Len(m[i]) < 2^24 ELSE m[i] < Huge

-----------------------------------------------------------------------------
(* Writing.                                                                *)

VarintSize(v) == CHOOSE n \in 1..4 : v < 128^n /\ (n > 1 => v >= 128^(n - 1))

\* The four lowest digits of v, the lowest first.
Digits(base, v) ==
  LET a == v \div base
      b == a \div base
      c == b \div base
  IN <<v % base, a % base, b % base, c % base>>

\* Seven bits to a byte; all but the last one have the eighth set.
Varint(v) ==
  LET n == VarintSize(v)
  IN [i \in 1..n |-> Digits(128, v)[i] + IF i < n THEN 128 ELSE 0]

Fixed32(v) == Digits(256, v)

IsDefault(schema, m, i) == m[i] = DefaultOf(schema[i])

\* Mutant: a length takes one byte.
FieldSizeShort(schema, m, i) ==
  IF IsDefault(schema, m, i) THEN 0
  ELSE 1 + IF Delimited(schema[i]) THEN 1 + Len(m[i]) ELSE 1

FieldSize(schema, m, i) ==
  IF IsDefault(schema, m, i) THEN 0
  ELSE 1 + IF Delimited(schema[i]) THEN VarintSize(Len(m[i])) + Len(m[i]) ELSE VarintSize(m[i])

ComputeSize(schema, m) ==
  LET upTo[i \in 0..Len(schema)] == IF i = 0 THEN 0 ELSE upTo[i - 1] + FieldSize(schema, m, i)
  IN upTo[Len(schema)]

\* A field with its default value is not written.
WriteField(schema, m, i) ==
  IF IsDefault(schema, m, i) THEN <<>>
  ELSE Varint(Tag(schema, i)) \o IF Delimited(schema[i]) THEN Varint(Len(m[i])) \o m[i]
                                 ELSE Varint(m[i])

WriteTo(schema, m) == FlattenSeq([i \in DOMAIN schema |-> WriteField(schema, m, i)])

\* Mutant: the length is a varint, as delimited messages have it elsewhere.
FramedByVarint(schema, m) == Varint(ComputeSize(schema, m)) \o WriteTo(schema, m)

\* A message behind its length, as both sides send it.
Framed(schema, m) == Fixed32(ComputeSize(schema, m)) \o WriteTo(schema, m)

-----------------------------------------------------------------------------
(* Reading.                                                                *)

\* The number that has the digits s modulo base, the lowest first: exact below
\* Huge, from there on only past every limit, with its three lowest digits.
Number(base, s) ==
  LET d(i) == IF i <= Len(s) THEN s[i] % base ELSE 0
      low == d(1) + base * (d(2) + base * d(3))
      rest == base * base * base
  IN IF d(4) < Huge \div rest /\ \A i \in 5..Len(s) : d(i) = 0
     THEN low + rest * d(4) ELSE Huge + low

\* The bytes of s under a limit that are there; where a varint that starts at q
\* may end in the first n bytes, and what it is.
Available(s, limit) == IF limit < Len(s) THEN limit ELSE Len(s)
Ends(s, n, q) == {e \in q..n : s[e] < 128}
End(s, n, q) == Min(Ends(s, n, q))
VarintAt(s, n, q) == Number(128, SubSeq(s, q, End(s, n, q)))

Stop(how, used) == [how |-> how, used |-> used, field |-> <<>>]
Field(used, tag, value) == [how |-> "field", used |-> used, field |-> <<tag, value>>]

\* A field number of zero is as wrong as a wire type that does not exist.
Kind(tag) == IF tag < 8 THEN 7 ELSE tag % 8
Missing(s, limit) == IF Available(s, limit) < limit THEN "wait" ELSE "error"

\* n bytes behind q as the value of a field.
Raw(s, limit, tag, q, n) ==
  IF n > limit - q THEN Stop("error", q)
  ELSE IF q + n > Available(s, limit) THEN Stop("wait", 0)
  ELSE Field(q + n, tag, SubSeq(s, q + 1, q + n))

\* What merge_from meets at p in the bytes s under a limit: a field, the end, an
\* error, or it waits for bytes that are not there yet; and how far it has read.
Meets(s, limit, p) ==
  LET here == Available(s, limit)
      tag == VarintAt(s, here, p)
      q == End(s, here, p)
      ends == Ends(s, here, q + 1)
  IN CASE p > limit -> Stop("done", limit)
       [] p <= limit /\ Ends(s, here, p) = {} -> Stop(Missing(s, limit), here)
       [] OTHER ->
            CASE Kind(tag) \in {3, 4, 6, 7} -> Stop("error", q)
              [] Kind(tag) = 1 -> Raw(s, limit, tag, q, 8)
              [] Kind(tag) = 5 -> Raw(s, limit, tag, q, 4)
              [] Kind(tag) \in {0, 2} /\ ends = {} -> Stop(Missing(s, limit), here)
              [] Kind(tag) = 0 /\ ends # {} ->
                   Field(End(s, here, q + 1), tag, VarintAt(s, here, q + 1))
              [] Kind(tag) = 2 /\ ends # {} ->
                   Raw(s, limit, tag, End(s, here, q + 1), VarintAt(s, here, q + 1))

\* What is read where next is met, when from says it of all places behind.
Onward(next, from) ==
  IF next.how # "field" THEN [how |-> next.how, used |-> next.used, fields |-> <<>>]
  ELSE LET rest == from[next.used + 1]
       IN [how |-> rest.how, used |-> rest.used, fields |-> <<next.field>> \o rest.fields]

\* merge_from: the fields read before it stopped, how many bytes that took, and
\* why it stopped.
Scan(s, limit) ==
  LET from[p \in 1..(Len(s) + 1)] == Onward(Meets(s, limit, p), from)
  IN from[1]

Occurrences(schema, fields, i) == {k \in DOMAIN fields : fields[k][1] = Tag(schema, i)}

\* The last value of a field counts, a field the schema does not know is
\* skipped, and one that is not there leaves m as it was.
Merge(schema, m, fields) ==
  [i \in DOMAIN schema |->
     LET occurrences == Occurrences(schema, fields, i)
     IN IF occurrences = {} THEN m[i] ELSE fields[Max(occurrences)][2]]
=============================================================================
