------------------------------- MODULE Types -------------------------------
(***************************************************************************)
(* The conversions between Swift values and what a server sends or is sent *)
(* (Sources/PG/Types, OID.swift, TypeParser), in text and in binary form.  *)
(*                                                                         *)
(* A binary value is a sequence of bytes.  A byte has Radix values (256 in *)
(* the program): the widths of the integers are the program's, and with a  *)
(* small Radix every integer of every width can be tried.  The text of an  *)
(* integer, its decimal numeral, is represented by the integer; what       *)
(* matters is which numerals an initialiser accepts.  Strings and UUIDs,   *)
(* which are passed on unchanged, are opaque.  Of dates and floats, which  *)
(* Foundation and the server convert and round, only whether there is a    *)
(* value is modelled: it is Rounded.                                       *)
(***************************************************************************)
EXTENDS Integers, Sequences, FiniteSets, SequencesExt

CONSTANTS
  Radix,          \* how many values a byte has
  Opaque,         \* strings and UUIDs
  Rounded         \* the value of every date and float

ASSUME TypesAssumption == Radix \in Nat /\ Radix > 1 /\ Radix % 2 = 0

Modes == {"text", "binary"}

\* What a loop of n turns leaves of `first'.
Repeat(Turn(_, _), n, first) ==
  LET after[i \in 0 .. n] == IF i = 0 THEN first ELSE Turn(i, after[i - 1])
  IN  after[n]

-----------------------------------------------------------------------------
(* The server: its types, the integers of a type, and the forms it sends.  *)

OIDs == {"int2", "int4", "int8", "oid", "bool", "text", "varchar", "bpchar",
         "timestamp", "timestamptz", "date", "uuid", "float4", "float8", "json"}

Integral == {"int2", "int4", "int8", "oid"}

Length(oid) ==
  CASE oid \in {"int2"} -> 2
    [] oid \in {"int4", "oid", "date", "float4"} -> 4
    [] oid \in {"int8", "timestamp", "timestamptz", "float8"} -> 8
    [] oid = "uuid" -> 16
    [] OTHER -> 1        \* bool; texts, of any length

\* How many values that many bytes have.
Values(width) == Repeat(LAMBDA i, n : n * Radix, width, 1)

InRange(width, signed) ==
  IF signed THEN -(Values(width) \div 2) .. Values(width) \div 2 - 1
            ELSE 0 .. Values(width) - 1

Column(oid) ==
  CASE oid \in Integral -> InRange(Length(oid), oid # "oid")
    [] oid = "bool"     -> BOOLEAN
    [] oid \in {"timestamp", "timestamptz", "date", "float4", "float8"} -> {Rounded}
    [] OTHER            -> Opaque

-----------------------------------------------------------------------------
(* Swift's integers as bytes of a number of values.                        *)

\* Two's complement, the highest byte first: `bigEndian' and the memory of it.
BigEndian(n, width, values) ==
  [i \in 1 .. width |-> Repeat(LAMBDA j, high : high \div values, width - i, n) % values]

Decoded(bytes, signed, values) ==
  LET sign == IF signed /\ bytes[1] >= values \div 2 THEN -1 ELSE 0
  IN Repeat(LAMBDA i, high : high * values + bytes[i], Len(bytes), sign)

Width ==
  [Int16 |-> 2, UInt16 |-> 2, Int32 |-> 4, UInt32 |-> 4, Int64 |-> 8, UInt64 |-> 8,
   Int |-> 8, UInt |-> 8, OID |-> 4]

Integer  == DOMAIN Width
Unsigned == {"UInt16", "UInt32", "UInt64", "UInt", "OID"}

-----------------------------------------------------------------------------
(* The codable types: the server's types each is converted from, of which  *)
(* the first is the one parameters are declared with; and its values.      *)

pgTypes ==
  [Int16 |-> <<"int2">>, UInt16 |-> <<"int2">>, Int32 |-> <<"int4">>,
   UInt32 |-> <<"int4">>, Int64 |-> <<"int8">>, UInt64 |-> <<"int8">>,
   Int |-> <<"int8", "int4", "int2">>, UInt |-> <<"int8", "int4", "int2">>,
   OID |-> <<"oid">>, Bool |-> <<"bool">>,
   Date |-> <<"timestamp", "timestamptz", "date">>, UUID |-> <<"uuid">>,
   String |-> <<"text", "varchar", "bpchar">>,
   Float |-> <<"float4">>, Double |-> <<"float8", "float4">>]

Codable == DOMAIN pgTypes

Swift(T) ==
  CASE T \in Integer -> InRange(Width[T], T \notin Unsigned)
    [] T = "Bool"    -> BOOLEAN
    [] T \in {"Date", "Float", "Double"} -> {Rounded}
    [] OTHER         -> Opaque

Converts(T, oid) == \E i \in DOMAIN pgTypes[T] : pgTypes[T][i] = oid

\* The others are PostgresTextCodable only.
BinaryCodable == Codable \ {"Float", "Double"}

-----------------------------------------------------------------------------
(* Encoding: the form that either side sends a value in.                   *)

\* An opaque value fills its bytes.
Filled(value, length) == [i \in 1 .. length |-> value]

\* A mutant: the integers are not brought into network order.
pgBinaryNative(T, value) ==
  CASE T \in Integer -> Reverse(BigEndian(value, Width[T], Radix))
    [] T = "Bool"    -> <<IF value THEN 1 ELSE 0>>
    [] OTHER         -> Filled(value, Length(pgTypes[T][1]))

pgBinary(T, value) ==
  CASE T \in Integer -> BigEndian(value, Width[T], Radix)
    [] T = "Bool"    -> <<IF value THEN 1 ELSE 0>>
    [] OTHER         -> Filled(value, Length(pgTypes[T][1]))

pgText(T, value) == IF T = "Bool" THEN (IF value THEN "t" ELSE "f") ELSE value

ServerBinary(oid, value) ==
  CASE oid \in Integral -> BigEndian(value, Length(oid), Radix)
    [] oid = "bool"     -> <<IF value THEN 1 ELSE 0>>
    [] OTHER            -> Filled(value, Length(oid))

ServerText(oid, value) == IF oid = "bool" THEN (IF value THEN "t" ELSE "f") ELSE value

ServerSends(oid, value, mode) ==
  IF mode = "text" THEN ServerText(oid, value) ELSE ServerBinary(oid, value)

-----------------------------------------------------------------------------
(* Decoding: nil, or a value of a Swift type.                              *)

Nil         == [type |-> "nil"]
Some(T, v)  == [type |-> T, value |-> v]

\* init?(pgText:type:).  Bool declares init(pgText:) instead, which no
\* protocol asks for: it gets the one of LosslessStringConvertible.
FromText(T, text) ==
  CASE T \in Integer -> IF text \in Swift(T) THEN Some(T, text) ELSE Nil
    [] T = "Bool"    -> IF text \in {"true", "false"} THEN Some(T, text = "true") ELSE Nil
    [] OTHER         -> Some(T, text)

\* init?(pgBinary:type:) of the integers but Int and UInt
FixedWidth(T, data) ==
  IF Len(data) = Width[T] THEN Some(T, Decoded(data, T \notin Unsigned, Radix)) ELSE Nil

\* Int asks Int64, and UInt asks UInt64, which refuse the shorter ones.
AnyWidth(T, data) ==
  LET long == FixedWidth(IF T = "Int" THEN "Int64" ELSE "UInt64", data)
  IN IF Len(data) \notin {8, 4, 2} THEN Nil
     ELSE Some(T, IF long = Nil THEN 0 ELSE long.value)

FromBinary(T, data) ==
  CASE T \in {"Int", "UInt"}           -> AnyWidth(T, data)
    [] T \in Integer \ {"Int", "UInt"} -> FixedWidth(T, data)
    [] T = "Bool"   -> Some(T, \E i \in DOMAIN data : data[i] # 0)
    [] T = "Date"   -> IF Len(data) = 8 THEN Some(T, data[1]) ELSE Nil
    [] T = "UUID"   -> IF Len(data) = 16 THEN Some(T, data[1]) ELSE Nil
    [] T = "String" -> Some(T, data[1])

-----------------------------------------------------------------------------
(* TypeParser: as a given type, or as the first that converts the column.  *)

ParseAs(T, data, oid, mode) ==
  IF ~Converts(T, oid) \/ (mode = "binary" /\ T \notin BinaryCodable) THEN Nil
  ELSE IF mode = "text" THEN FromText(T, data) ELSE FromBinary(T, data)

\* A mutant: the unsigned types come first.
typesUnsigned ==
  <<"UInt16", "Int16", "UInt32", "Int32", "UInt64", "Int64", "Int", "UInt", "Bool",
    "OID", "Date", "UUID", "String">>

types ==
  <<"Int16", "UInt16", "Int32", "UInt32", "Int64", "UInt64", "Int", "UInt", "Bool",
    "OID", "Date", "UUID", "String">>

\* The type that TypeParser chooses for a column.
Chosen(oid) ==
  LET first == SelectInSeq(types, LAMBDA T : Converts(T, oid))
  IN IF first = 0 THEN "none" ELSE types[first]

ParseColumn(data, oid, mode) ==
  IF Chosen(oid) # "none" THEN ParseAs(Chosen(oid), data, oid, mode)
  ELSE IF mode = "text" THEN Some("String", data) ELSE Some("Data", data[1])

-----------------------------------------------------------------------------
(* Parameters.  A parameter is declared with the first type of its Swift   *)
(* type, and sent in binary if it can be; nil has neither.                 *)

Declared(T) == IF T = "nil" THEN "unspecified" ELSE pgTypes[T][1]

\* The server: a binary value must have the length of the declared type; a
\* type that was not specified is the one the query asks for.
ServerReads(declared, T, value) ==
  LET data == pgBinary(T, value)
  IN IF T \notin BinaryCodable THEN Some(declared, pgText(T, value))
     ELSE IF Len(data) # Length(declared) THEN Nil
     ELSE Some(declared,
            CASE declared \in Integral -> Decoded(data, declared # "oid", Radix)
              [] declared = "bool"     -> data[1] # 0
              [] OTHER                 -> data[1])

\* Query.update(bindings:) of a query with a statement; `given' are the types
\* the statement was created with.  A mutant, which compares no types, first.
UpdateCounted(given, bindings) == Len(bindings) = Len(given)

Update(given, bindings) ==
  /\ Len(bindings) = Len(given)                       \* wrongNumberOfBindings
  /\ \A i \in DOMAIN bindings :                       \* mismatchedBindingType
       bindings[i].type # "nil" => bindings[i].type = given[i]
=============================================================================
