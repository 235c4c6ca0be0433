------------------------------ MODULE Protocol ------------------------------
(***************************************************************************)
(* The messages as bytes: what Connection.process reads from a message of  *)
(* the server (BackendMessage, process, ServerError, QueryResult.init),    *)
(* and what the client writes (FrontendMessage and the calls that use it). *)
(* The server's side, which writes the first and reads the second, is the  *)
(* reference the code is compared with.                                    *)
(*                                                                         *)
(* A step is one message, or one burst of messages, of bounded contents.   *)
(* Bytes are numbers, strings are sequences of bytes other than 0.  The    *)
(* values in columns and parameters are steps of their own (see Types).    *)
(***************************************************************************)
EXTENDS Types

CONSTANTS
  Letters,        \* the bytes strings are made of
  Sent,           \* the types of the fields of errors
  Shorts, Longs,  \* numbers of two and of four bytes
  MaxLetters,     \* bound: the length of a string
  MaxColumns,     \* bound: the columns of a description
  MaxItems        \* bound: fields of an error, values, messages in a burst

\* What the widths of the numbers in a message allow.
MaxUInt8  == 255
MaxInt16  == 32767
MaxUInt16 == 65535
MaxInt32  == 2147483647

ASSUME ProtocolAssumption ==
  /\ Letters \subseteq 1 .. MaxUInt8 /\ Sent \subseteq 1 .. MaxUInt8
  /\ Shorts \subseteq 0 .. MaxInt16 /\ Longs \subseteq 0 .. MaxInt32
  /\ MaxLetters \in 0 .. MaxInt32 - 4
  /\ MaxColumns \in 0 .. MaxUInt16 /\ MaxItems \in 0 .. MaxUInt16

VARIABLES
  kind,           \* what the step was about
  given,          \* what the sender meant
  wire,           \* the bytes it sent
  got             \* what the receiver makes of them

vars == <<kind, given, wire, got>>

Strings  == BoundedSeq(Letters, MaxLetters)
Lists(S) == BoundedSeq(S, MaxItems)

Init == kind = "none" /\ given = <<>> /\ wire = <<>> /\ got = <<>>

-----------------------------------------------------------------------------
(* Writing: FrontendMessage.write, and the server's encoders.              *)

Bytes(n, width) == BigEndian(n, width, 256)

Terminated(string) == string \o <<0>>

-----------------------------------------------------------------------------
(* Reading: BackendMessage.read removes what it returns from the data.     *)

Done(value, rest) == [ok |-> TRUE, value |-> value, rest |-> rest]
Thrown            == [ok |-> FALSE, value |-> <<>>, rest |-> <<>>]

ReadUnguarded(length, data) ==     \* a mutant: reads zeros behind the end
  Done([i \in 1 .. length |-> IF i <= Len(data) THEN data[i] ELSE 0],
       SubSeq(data, length + 1, Len(data)))

Read(length, data) ==
  IF Len(data) < length THEN Thrown       \* notEnoughData
  ELSE Done(SubSeq(data, 1, length), SubSeq(data, length + 1, Len(data)))

ReadNumber(width, signed, data) ==
  LET r == Read(width, data)
  IN IF r.ok THEN Done(Decoded(r.value, signed, 256), r.rest) ELSE Thrown

ReadString(data) ==
  LET ends == {i \in DOMAIN data : data[i] = 0}
      end  == CHOOSE i \in ends : \A j \in ends : i <= j
  IN IF ends = {} THEN Thrown             \* missingStringNullTerminator
     ELSE Done(SubSeq(data, 1, end - 1), SubSeq(data, end + 1, Len(data)))

Added(s, item) ==
  IF s.ok /\ item.ok THEN Done(Append(s.value, item.value), item.rest) ELSE Thrown

\* n items, each of which Reader reads from what the ones before have left.
ReadList(Reader(_), n, data) ==
  Repeat(LAMBDA i, s : Added(s, Reader(s.rest)), n, Done(<<>>, data))

-----------------------------------------------------------------------------
(* ErrorResponse.  ServerError.Field does not have every type a server may *)
(* send: 113, the text of an internal query, is one that is missing.       *)

Fields == {67, 68, 70, 72, 76, 77, 80, 82, 83, 86, 87, 99, 100, 110, 112, 115, 116}

\* A mutant: an empty value ends the message.
ReadFieldUnfinished(s) ==
  LET type  == Head(s.rest)
      value == ReadString(Tail(s.rest))
  IN IF ~s.ok \/ s.rest = <<>> \/ type = 0 THEN s
     ELSE IF type \notin Fields THEN Done(s.value, Tail(s.rest))
     ELSE IF ~value.ok \/ value.value = <<>> THEN s
     ELSE Done(Append(s.value, <<type, value.value>>), value.rest)

\* A turn of process's loop, of the fields so far and the rest of the data; the
\* end changes nothing.  `continue' leaves the value of an unknown field unread.
ReadField(s) ==
  LET type  == Head(s.rest)
      value == ReadString(Tail(s.rest))
  IN IF ~s.ok \/ s.rest = <<>> \/ type = 0 THEN s
     ELSE IF type \notin Fields THEN Done(s.value, Tail(s.rest))
     ELSE IF ~value.ok THEN Thrown
     ELSE Done(Append(s.value, <<type, value.value>>), value.rest)

\* Every turn reads a byte.
ReadFields(data) == Repeat(LAMBDA i, s : ReadField(s), Len(data), Done(<<>>, data))

WriteError(fields) ==
  FlattenSeq([i \in DOMAIN fields |-> <<fields[i][1]>> \o Terminated(fields[i][2])]) \o <<0>>

ErrorResponse ==
  /\ kind' = "error"
  /\ given' \in Lists(Sent \X Strings)
  /\ wire' = WriteError(given')
  /\ got' = ReadFields(wire')

-----------------------------------------------------------------------------
(* DataRow: a length before each value, -1 for NULL.                       *)

Null == <<-1>>

ReadColumn(data) ==
  LET length == ReadNumber(4, TRUE, data)
  IN IF ~length.ok THEN Thrown
     ELSE IF length.value < 0 THEN Done(Null, length.rest)
     ELSE Read(length.value, length.rest)

ReadRow(data) ==
  LET count == ReadNumber(2, FALSE, data)
  IN IF count.ok THEN ReadList(ReadColumn, count.value, count.rest) ELSE Thrown

WriteColumn(value) ==
  IF value = Null THEN Bytes(-1, 4) ELSE Bytes(Len(value), 4) \o value

WriteRow(row) ==
  Bytes(Len(row), 2) \o FlattenSeq([i \in DOMAIN row |-> WriteColumn(row[i])])

DataRow ==
  /\ kind' = "row"
  /\ given' \in Lists(Strings \cup {Null})
  /\ wire' = WriteRow(given')
  /\ got' = ReadRow(wire')

\* The columns of a result.  UInt32 reads an unspecified modifier, -1, as
\* 2^32 - 1, which is represented by -1.
Descriptions ==
  [name : Strings, tableID : Longs, columnID : Shorts, dataTypeID : Longs,
   dataTypeSize : Shorts \cup {-1}, dataTypeModifier : {-1}, mode : Shorts]

WriteDescription(c) ==
  Terminated(c.name) \o Bytes(c.tableID, 4) \o Bytes(c.columnID, 2) \o Bytes(c.dataTypeID, 4)
    \o Bytes(c.dataTypeSize, 2) \o Bytes(c.dataTypeModifier, 4) \o Bytes(c.mode, 2)

ReadDescription(data) ==
  LET name     == ReadString(data)
      table    == ReadNumber(4, FALSE, name.rest)
      column   == ReadNumber(2, FALSE, table.rest)
      oid      == ReadNumber(4, FALSE, column.rest)
      size     == ReadNumber(2, TRUE, oid.rest)
      modifier == ReadNumber(4, TRUE, size.rest)
      mode     == ReadNumber(2, FALSE, modifier.rest)
  IN IF ~name.ok \/ Len(name.rest) < 18 THEN Thrown
     ELSE Done([name |-> name.value, tableID |-> table.value, columnID |-> column.value,
                dataTypeID |-> oid.value, dataTypeSize |-> size.value,
                dataTypeModifier |-> modifier.value,
                mode |-> IF mode.value \in {0, 1} THEN mode.value ELSE 0], mode.rest)

RowDescription ==
  /\ kind' = "description"
  /\ given' \in BoundedSeq(Descriptions, MaxColumns)
  /\ wire' = Bytes(Len(given'), 2)
               \o FlattenSeq([i \in DOMAIN given' |-> WriteDescription(given'[i])])
  /\ got' = LET count == ReadNumber(2, FALSE, wire')
            IN ReadList(ReadDescription, count.value, count.rest)

\* A row of which the end is missing, as if the length had been wrong.
ShortRow ==
  /\ kind' = "shortRow"
  /\ given' \in Lists(Strings \cup {Null})
  /\ \E n \in 0 .. Len(WriteRow(given')) - 1 : wire' = SubSeq(WriteRow(given'), 1, n)
  /\ got' = ReadRow(wire')

-----------------------------------------------------------------------------
(* CommandComplete and QueryResult.init.  The tag is a sequence of words,  *)
(* numbers among them; the words are told apart from numbers by a tuple.   *)

Word(w)   == <<"word", w>>
Count(n)  == <<"number", n>>

IsCount(c) == c[1] = "number"

WholeTags == {<<"CREATE", "DATABASE">>, <<"DROP", "DATABASE">>,
              <<"CREATE", "TABLE">>, <<"DROP", "TABLE">>}
Kinds     == {"INSERT", "DELETE", "UPDATE", "SELECT", "MOVE", "FETCH", "COPY"}

IsWhole(tag) == \E t \in WholeTags : tag = <<Word(t[1]), Word(t[2])>>

ResultUnchecked(tag, rows) ==      \* a mutant: the rows are not counted
  IF IsWhole(tag) THEN Done(1, <<>>)
  ELSE IF Len(tag) < 2 \/ tag[1][2] \notin Kinds \/ ~IsCount(tag[2]) THEN Thrown
  ELSE Done(tag[2][2], <<>>)

\* QueryResult.init: the row count of the result
QueryResult(tag, rows) ==
  IF IsWhole(tag) THEN Done(1, <<>>)
  ELSE IF Len(tag) < 2 \/ tag[1][2] \notin Kinds \/ ~IsCount(tag[2])
       THEN Thrown                                      \* invalidCommandResponse
  ELSE IF tag[1] = Word("SELECT") /\ tag[2][2] # rows THEN Thrown   \* mismatchedRowCount
  ELSE Done(tag[2][2], <<>>)

\* The server's tag of a command that affected n rows.
Tag(command, n) ==
  IF command = "INSERT" THEN <<Word(command), Count(0), Count(n)>>
                        ELSE <<Word(command), Count(n)>>

OtherTags == {<<Word("BEGIN")>>, <<Word("SET")>>, <<Word("CREATE"), Word("INDEX")>>}

Affected == 0 .. MaxItems

CommandComplete ==
  /\ kind' = "command" /\ wire' = <<>>
  /\ given' \in [command : Kinds, affected : Affected, rows : Affected]
  /\ got' = QueryResult(Tag(given'.command, given'.affected), given'.rows)

WholeCommand ==
  /\ kind' = "wholeCommand" /\ wire' = <<>>
  /\ given' \in WholeTags
  /\ got' = QueryResult(<<Word(given'[1]), Word(given'[2])>>, 0)

OtherCommand ==
  /\ kind' = "otherCommand" /\ wire' = <<>>
  /\ given' \in OtherTags
  /\ got' = QueryResult(given', 0)

-----------------------------------------------------------------------------
(* FrontendMessage: every write puts the size of what follows the type     *)
(* into the four bytes that init reserved; startup has no type.            *)

Startup == 0

SizeOffset(type) == IF type = Startup THEN 0 ELSE 1

\* A mutant: the size counts the type as well.
MessageWithType(type, body) ==
  (IF type = Startup THEN <<>> ELSE <<type>>) \o Bytes(Len(body) + 4 + SizeOffset(type), 4) \o body

Message(type, body) ==
  LET reserved == (IF type = Startup THEN <<>> ELSE <<type>>) \o <<0, 0, 0, 0>> \o body
      size     == Bytes(Len(reserved) - SizeOffset(type), 4)
  IN [i \in DOMAIN reserved |->
        IF i - SizeOffset(type) \in 1 .. 4 THEN size[i - SizeOffset(type)] ELSE reserved[i]]

\* The server cuts the stream by the sizes; only the first message has no type.
CutMessage(s) ==
  LET type == IF s.value = <<>> THEN Done(Startup, s.rest) ELSE ReadNumber(1, FALSE, s.rest)
      size == ReadNumber(4, TRUE, type.rest)
      body == Read(size.value - 4, size.rest)
  IN IF ~s.ok \/ s.rest = <<>> THEN s
     ELSE IF ~type.ok \/ ~size.ok \/ ~body.ok THEN Thrown
     ELSE Done(Append(s.value, [type |-> type.value, body |-> body.value]), body.rest)

Cut(data) == Repeat(LAMBDA i, s : CutMessage(s), Len(data), Done(<<>>, data))

\* 81: simpleQuery, 83: sync, which is never written to after init.
Burst ==
  /\ kind' = "burst"
  /\ \E startup \in Strings, rest \in Lists([type : {81}, body : Strings]
                                              \cup [type : {83}, body : {<<>>}]) :
       given' = <<[type |-> Startup, body |-> startup]>> \o rest
  /\ wire' = FlattenSeq([i \in DOMAIN given' |-> Message(given'[i].type, given'[i].body)])
  /\ got' = Cut(wire')

\* Connection.sendStartup, with the database of Config.init: none if it is
\* empty.  Each of the known names is represented by a letter.
NameOfUser == <<117>>
NameOfDatabase == <<100>>
NameOfEncoding == <<99>>

StartupBody(user, database) ==
  Bytes(3, 2) \o Bytes(0, 2)
    \o Terminated(NameOfUser) \o Terminated(user)
    \o (IF database \in {Null, <<>>} THEN <<>>
        ELSE Terminated(NameOfDatabase) \o Terminated(database))
    \o Terminated(NameOfEncoding) \o Terminated(<<56>>) \o Terminated(<<>>)

\* The server: pairs of names and values, until a name is empty.
ReadPair(s) ==
  LET name  == ReadString(s.rest)
      value == ReadString(name.rest)
  IN IF ~s.ok \/ s.rest = <<0>> THEN s
     ELSE IF ~name.ok \/ name.value = <<>> \/ ~value.ok THEN Thrown
     ELSE Done(Append(s.value, <<name.value, value.value>>), value.rest)

ReadPairs(data) == Repeat(LAMBDA i, s : ReadPair(s), Len(data), Done(<<>>, data))

SendStartup ==
  /\ kind' = "startup"
  /\ given' \in [user : Strings, database : Strings \cup {Null}]
  /\ wire' = StartupBody(given'.user, given'.database)
  /\ got' = ReadPairs(SubSeq(wire', 5, Len(wire')))

\* Connection.describeStatement and describePortal, and execute
Describe ==
  /\ kind' = "describe"
  /\ given' \in [target : {80, 83}, name : Strings]
  /\ wire' = <<given'.target>> \o Terminated(given'.name)
  /\ got' = [target |-> Head(wire'), name |-> ReadString(Tail(wire')).value]

Execute ==
  /\ kind' = "execute"
  /\ given' \in [portal : Strings, rows : Shorts \cup Longs]
  /\ wire' = Terminated(given'.portal) \o Bytes(given'.rows, 4)
  /\ got' = LET portal == ReadString(wire')
            IN [portal |-> portal.value, rows |-> ReadNumber(4, TRUE, portal.rest).value]

ReadOID(data) == ReadNumber(4, FALSE, data)

\* Connection.parse: the types are OIDs, 0 for none.
Parse ==
  /\ kind' = "parse"
  /\ given' \in [name : Strings, query : Strings, types : Lists(Longs \cup {0})]
  /\ wire' = Terminated(given'.name) \o Terminated(given'.query)
               \o Bytes(Len(given'.types), 2)
               \o FlattenSeq([i \in DOMAIN given'.types |-> Bytes(given'.types[i], 4)])
  /\ got' = LET name  == ReadString(wire')
                query == ReadString(name.rest)
                count == ReadNumber(2, FALSE, query.rest)
                oids  == ReadList(ReadOID, count.value, count.rest)
            IN IF ~oids.ok THEN <<>>
               ELSE [name |-> name.value, query |-> query.value, types |-> oids.value]

-----------------------------------------------------------------------------
(* Connection.bind.  A parameter that has a binary form is sent in it, nil *)
(* has none and is announced as text.                                      *)

Parameters == [binary : BOOLEAN, value : Strings] \cup [binary : {FALSE}, value : {Null}]

Mode(binary) == IF binary THEN 1 ELSE 0

ReadMode(data) == ReadNumber(2, FALSE, data)

\* A mutant: nil is announced, and no value is sent for it.
WriteParametersGiven(parameters) ==
  LET sent == SelectSeq(parameters, LAMBDA p : p.value # Null)
  IN Bytes(Len(parameters), 2)
       \o FlattenSeq([i \in DOMAIN parameters |-> Bytes(Mode(parameters[i].binary), 2)])
       \o WriteRow([i \in DOMAIN sent |-> sent[i].value])

WriteParameters(parameters) ==
  Bytes(Len(parameters), 2)
    \o FlattenSeq([i \in DOMAIN parameters |-> Bytes(Mode(parameters[i].binary), 2)])
    \o WriteRow([i \in DOMAIN parameters |-> parameters[i].value])

\* The server: formats, values, and the format of all the results.
ReadParameters(data) ==
  LET count   == ReadNumber(2, FALSE, data)
      formats == ReadList(ReadMode, count.value, count.rest)
      values  == ReadRow(formats.rest)
  IN IF ~count.ok \/ ~formats.ok \/ ~values.ok \/ Len(values.value) # count.value THEN Thrown
     ELSE Done([i \in 1 .. count.value |->
                  [binary |-> formats.value[i] = 1, value |-> values.value[i]]], values.rest)

Bind ==
  /\ kind' = "bind"
  /\ given' \in [statement : Strings, parameters : Lists(Parameters), binaryResults : BOOLEAN]
  /\ wire' = Terminated(<<>>) \o Terminated(given'.statement)
               \o WriteParameters(given'.parameters)
               \o Bytes(1, 2) \o Bytes(Mode(given'.binaryResults), 2)
  /\ got' = LET portal     == ReadString(wire')
                statement  == ReadString(portal.rest)
                parameters == ReadParameters(statement.rest)
            IN IF ~parameters.ok THEN <<>>
               ELSE [statement |-> statement.value, parameters |-> parameters.value,
                     binaryResults |-> parameters.rest = <<0, 1, 0, 1>>]

-----------------------------------------------------------------------------
(* Values.  The text of dates is Foundation's and is left out.             *)

Readable(T, mode) == T = "Date" => mode = "binary"

\* A row's column, read as a T and as TypeParser chooses.
ReadValue ==
  /\ kind' = "column" /\ wire' = <<>>
  /\ \E oid \in OIDs, mode \in Modes, T \in Codable :
       /\ Readable(T, mode)
       /\ \E v \in Column(oid) : given' = [oid |-> oid, mode |-> mode, T |-> T, value |-> v]
  /\ got' = LET data == ServerSends(given'.oid, given'.value, given'.mode)
            IN [typed   |-> ParseAs(given'.T, data, given'.oid, given'.mode),
                untyped |-> IF Readable(Chosen(given'.oid), given'.mode)
                            THEN ParseColumn(data, given'.oid, given'.mode) ELSE Nil]

\* A parameter of type T that the query returns, read as a T again.
Echo ==
  /\ kind' = "echo" /\ wire' = <<>>
  /\ \E T \in Codable, mode \in Modes :
       /\ Readable(T, mode)
       /\ \E v \in Swift(T) : given' = [T |-> T, mode |-> mode, value |-> v]
  /\ got' = LET declared == Declared(given'.T)
                read     == ServerReads(declared, given'.T, given'.value)
            IN IF read = Nil THEN Nil
               ELSE ParseAs(given'.T, ServerSends(declared, read.value, given'.mode),
                            declared, given'.mode)

\* The query of a statement, created with bindings of the old types, is
\* updated, and the server reads the new ones as what it was told they are.
BindingTypes == {"Int16", "UInt16", "Int32", "Float"}

Bindings ==
  [type : {"nil"}, value : {Rounded}]
    \cup UNION {[type : {T}, value : Swift(T)] : T \in BindingTypes}

UpdateBindings ==
  /\ kind' = "update" /\ wire' = <<>>
  /\ given' \in [old : BoundedSeq(BindingTypes \cup {"nil"}, 2), new : BoundedSeq(Bindings, 2)]
  /\ got' = [accepted |-> Update(given'.old, given'.new),
             read |-> [i \in DOMAIN given'.new |->
               IF given'.new[i].type = "nil" \/ i \notin DOMAIN given'.old THEN Nil
               ELSE ServerReads(Declared(given'.old[i]), given'.new[i].type, given'.new[i].value)]]

Next ==
  /\ kind = "none"
  /\ \/ ErrorResponse \/ DataRow \/ RowDescription \/ ShortRow \/ CommandComplete
     \/ WholeCommand \/ OtherCommand \/ Burst \/ SendStartup \/ Describe \/ Execute
     \/ Parse \/ Bind \/ ReadValue \/ Echo \/ UpdateBindings

Spec == Init /\ [][Next]_vars
-----------------------------------------------------------------------------
(* Properties.                                                             *)

(* An error of known fields is read as it was sent.  Of an error with a    *)
(* field the client does not know, what precedes that field is: the value  *)
(* behind it is not skipped but read as if it were fields.                 *)
KnownPrefix(fields) ==
  SelectInSeq(fields, LAMBDA f : f[1] \notin Fields)

ErrorsAreRead ==
  kind = "error" =>
    IF KnownPrefix(given) = 0
    THEN got.ok /\ got.value = given /\ got.rest = <<0>>
    ELSE got.ok => SubSeq(got.value, 1, KnownPrefix(given) - 1)
                     = SubSeq(given, 1, KnownPrefix(given) - 1)

(* A row is read as it was sent, NULL apart from the empty string, and so  *)
(* is the description of its columns, of which an unknown mode counts as   *)
(* text; and a row that is cut short anywhere is an error, never a row.    *)
RowsAreRead ==
  /\ kind = "row" => got = Done(given, <<>>)
  /\ kind = "description" =>
       got = Done([i \in DOMAIN given |->
                     [given[i] EXCEPT !.mode = IF @ = 1 THEN 1 ELSE 0]], <<>>)
  /\ kind = "shortRow" => ~got.ok

(* The row count of a result is what the server says its command affected; *)
(* a SELECT whose rows did not all arrive is an error, and so is every     *)
(* command whose tag has no count, except the four that are known whole.   *)
(* Nothing is claimed of the count of an INSERT: the code reads the number *)
(* that precedes it in the tag, against the documentation of rowCount.     *)
ResultsCountRows ==
  /\ kind = "command" =>
       IF given.command = "SELECT" /\ given.affected # given.rows THEN ~got.ok
       ELSE got.ok /\ (given.command # "INSERT" => got.value = given.affected)
  /\ kind = "wholeCommand" => got.ok
  /\ kind = "otherCommand" => ~got.ok

(* The server cuts what the client writes into the messages it meant, also *)
(* behind the startup message, whose size has another place.               *)
MessagesAreFramed == kind = "burst" => got = Done(given, <<>>)

(* The server reads the statements, types and parameters that were bound:  *)
(* each with its own value and the format the value is in, nil as NULL;    *)
(* and of the startup message the user and the database, if there is one,  *)
(* never a pair made of the name of one and the value of another.          *)
RequestsAreUnderstood ==
  /\ kind \in {"parse", "bind", "describe", "execute"} => got = given
  /\ kind = "startup" =>
       got = Done(<<<<NameOfUser, given.user>>>>
                    \o (IF given.database \in {Null, <<>>} THEN <<>>
                        ELSE <<<<NameOfDatabase, given.database>>>>)
                    \o <<<<NameOfEncoding, <<56>>>>>>, <<0>>)

(* What the server reads of an unsigned value: its bits, as a signed one.  *)
Wrapped(T, value) ==
  IF T \in Unsigned \ {"OID"} /\ value >= Values(Width[T]) \div 2
  THEN value - Values(Width[T]) ELSE value

(* A value that is bound and returned by the query comes back as it was,   *)
(* or not at all: never as another one, whatever its type, width and sign, *)
(* although the server takes an unsigned one for negative.  It may be nil  *)
(* only if its text is one that Swift's initialiser does not know (a       *)
(* negative numeral for an unsigned type, the "t" or "f" of a Bool) and,   *)
(* in binary, for the types that have no binary form.                      *)
EchoesAreExact ==
  kind = "echo" =>
    \/ got = Some(given.T, given.value)
    \/ /\ got = Nil
       /\ \/ given.mode = "text" /\ given.T = "Bool"
          \/ given.mode = "text" /\ Wrapped(given.T, given.value) # given.value
          \/ given.mode = "binary" /\ given.T \in {"Float", "Double"}

(* A column is read as the server's value, or as nil, and a negative value *)
(* by an unsigned type as its bits.  The type that the parser chooses is   *)
(* always wide enough, and it is signed: read by it, no integer is lost or *)
(* changed.  Nothing is claimed of Int and UInt reading a narrower binary  *)
(* column: the code reads 0, against the documentation of the parsers.     *)
Narrow ==
  given.mode = "binary" /\ given.T \in {"Int", "UInt"} /\ given.oid \in {"int2", "int4"}

ColumnsAreRead ==
  kind = "column" =>
    /\ got.typed # Nil /\ ~Narrow =>
         got.typed.value = IF given.T \in Unsigned /\ given.value < 0
                           THEN given.value + Values(Width[given.T]) ELSE given.value
    /\ given.oid \in Integral =>
         /\ got.untyped # Nil /\ got.untyped.value = given.value
         /\ Converts(given.T, given.oid) /\ given.value \in Swift(given.T) =>
              got.typed # Nil

(* Bindings that update accepts are what the server reads of them, under   *)
(* the types that the statement was prepared with: none is read with the   *)
(* width of another type, and none has no type.                            *)
UpdatedBindingsFit ==
  kind = "update" /\ got.accepted =>
    /\ Len(given.old) = Len(given.new)
    /\ \A i \in DOMAIN given.new :
         LET T == given.new[i].type
         IN T # "nil" => got.read[i] = Some(Declared(T), Wrapped(T, given.new[i].value))
=============================================================================
