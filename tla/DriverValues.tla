---------------------------- MODULE DriverValues ----------------------------
(***************************************************************************)
(* What the drivers make of a QcVariant on its way into a column, and of   *)
(* the column's values on their way back: rows inserted into a table of    *)
(* one column by execute(), and read again by fetchRows(), which on MySQL  *)
(* and Oracle goes through one buffer for all rows.  A text is the         *)
(* sequence of its bytes in UTF-8; a floating-point number is counted in   *)
(* units of 1e-8; a decimal text of a number, a "numeral", is not spelled. *)
(***************************************************************************)
EXTENDS Integers, Sequences, SequencesExt

CONSTANTS
  Texts,              \* texts a caller binds, each as its code points
  Blobs,              \* bytes a caller binds
  Reals, Ints,        \* numbers a caller binds
  ChunkChars,         \* UTF-16 units fetchWideText() asks for, 16384
  ChunkBytes,         \* bytes fetchBinary() asks for, 65536
  kColumnBufferSize,  \* bytes of Oracle's buffer for a VARCHAR2, 4001
  MaxRows             \* bound: rows of the table

\* The code points, and those that stand for a character: not half a pair.
CodePoint == {c \in Nat : c <= 1114111}
Character == {c \in CodePoint : ~(c >= 55296 /\ c <= 57343)}
Byte == {b \in Nat : b <= 255}

ASSUME ChunksHoldSomething == ChunkChars \in Nat \ {0, 1} /\ ChunkBytes \in Nat \ {0}
ASSUME ValuesAssumption ==
  /\ Texts \subseteq Seq(Character)
  /\ Blobs \subseteq Seq(Byte)
  /\ Reals \subseteq Int
  /\ Ints \subseteq Int
  /\ kColumnBufferSize \in Nat
  /\ MaxRows \in Nat

VARIABLES
  driver,    \* QcConnectionParams::driver
  kind,      \* the kind of values the column is for
  given,     \* history: the values inserted, as the caller had them
  kept,      \* what the database keeps of them
  fetching,  \* is fetchRows() at work?
  buffer,    \* ColumnBuffer or ColumnDef: what the library fetches into
  fetched    \* the values of the rows fetched

vars == <<driver, kind, given, kept, fetching, buffer, fetched>>

Variant(k, data) == [kind |-> k, data |-> data]
Null == Variant("null", <<>>)
Text(bytes) == Variant("text", bytes)
Blob(bytes) == Variant("blob", bytes)

-----------------------------------------------------------------------------
(* UTF-8 and UTF-16 (MSSQL).                                               *)

\* The code point that starts at bytes[i], and how many bytes it takes.
Decoded(bytes, i) ==
  LET c0 == bytes[i]
      low(k) == bytes[i + k] % 64
      left == Len(bytes) - i
  IN  CASE c0 < 128 -> [codepoint |-> c0, len |-> 1]
        [] c0 \div 32 = 6 /\ left >= 1 ->
             [codepoint |-> ((c0 % 32) * 64) + low(1), len |-> 2]
        [] c0 \div 16 = 14 /\ left >= 2 ->
             [codepoint |-> (c0 % 16) * 4096 + low(1) * 64 + low(2), len |-> 3]
        [] c0 \div 8 = 30 /\ left >= 3 ->
             [codepoint |-> (c0 % 8) * 262144 + low(1) * 4096 + low(2) * 64 + low(3),
              len |-> 4]
        [] OTHER -> [codepoint |-> 65533, len |-> 1]

Units(codepoint) ==
  IF codepoint <= 65535 THEN <<codepoint>>
  ELSE <<55296 + (codepoint - 65536) \div 1024, 56320 + ((codepoint - 65536) % 1024)>>

Utf8ToUtf16(utf8) ==
  LET from[i \in 1..(Len(utf8) + 1)] ==
        IF i > Len(utf8) THEN <<>>
        ELSE LET d == Decoded(utf8, i)
             IN  Units(d.codepoint) \o from[i + d.len]
  IN  from[1]

Encoded(codepoint) ==
  LET low(shift) == 128 + ((codepoint \div shift) % 64)
  IN  CASE codepoint < 128 -> <<codepoint>>
        [] codepoint >= 128 /\ codepoint < 2048 ->
             <<192 + codepoint \div 64, low(1)>>
        [] codepoint >= 2048 /\ codepoint < 65536 ->
             <<224 + codepoint \div 4096, low(64), low(1)>>
        [] OTHER -> <<240 + codepoint \div 262144, low(4096), low(64), low(1)>>

Utf8(s) == FlattenSeq([i \in DOMAIN s |-> Encoded(s[i])])

\* Half a pair is encoded as it stands.
Utf16ToUtf8(data) ==
  LET paired(i) == /\ data[i] >= 55296 /\ data[i] <= 56319
                   /\ i < Len(data)
                   /\ data[i + 1] >= 56320 /\ data[i + 1] <= 57343
      from[i \in 1..(Len(data) + 1)] ==
        IF i > Len(data) THEN <<>>
        ELSE IF paired(i)
               THEN Encoded(65536 + (data[i] - 55296) * 1024 + (data[i + 1] - 56320))
                      \o from[i + 2]
               ELSE Encoded(data[i]) \o from[i + 1]
  IN  from[1]

-----------------------------------------------------------------------------
(* SQLGetData (MSSQL): what is left of the column goes into a buffer of    *)
(* size, where a text is followed by a terminator.                         *)

GetData(column, done, size, terminator) ==
  LET room == size - Len(terminator)
      all == SubSeq(column, done + 1, Len(column))
  IN  IF Len(all) > room
        THEN [buffer |-> SubSeq(all, 1, room) \o terminator, truncated |-> TRUE]
        ELSE [buffer |-> all \o terminator, truncated |-> FALSE]

FetchWideText(column) ==
  LET from[done \in 0..Len(column)] ==
        LET got == GetData(column, done, ChunkChars, <<0>>)
        IN  IF got.truncated
              THEN SubSeq(got.buffer, 1, ChunkChars - 1) \o from[done + ChunkChars - 1]
              ELSE SubSeq(got.buffer, 1, Len(column) - done)
  IN  from[0]

FetchBinary(column) ==
  LET from[done \in 0..Len(column)] ==
        LET got == GetData(column, done, ChunkBytes, <<>>)
        IN  IF got.truncated
              THEN SubSeq(got.buffer, 1, ChunkBytes) \o from[done + ChunkBytes]
              ELSE SubSeq(got.buffer, 1, Len(column) - done)
  IN  from[0]

-----------------------------------------------------------------------------
(* PostgreSQL and Oracle.                                                  *)

\* std::to_string() of a double: six decimals, rounded.
SixPlaces(number) == Variant("real", <<((number.data[1] + 50) \div 100) * 100>>)

\* What is read at the address of a text up to the first NUL.
CString(bytes) ==
  LET nuls == {i \in DOMAIN bytes : bytes[i] = 0}
  IN  IF nuls = {} THEN bytes
      ELSE SubSeq(bytes, 1, (CHOOSE i \in nuls : \A j \in nuls : i <= j) - 1)

HexDigit(n) == IF n < 10 THEN 48 + n ELSE 87 + n
Hex(bytes) ==
  <<92, 120>> \o FlattenSeq([i \in DOMAIN bytes |->
                               <<HexDigit(bytes[i] \div 16), HexDigit(bytes[i] % 16)>>])
\* How the database reads such a text, and a caller may.
HexValue(digit) == CHOOSE n \in 0..15 : HexDigit(n) = digit
Unhex(hex) ==
  [i \in 1..(Len(hex) \div 2 - 1) |->
     HexValue(hex[2 * i + 1]) * 16 + HexValue(hex[2 * i + 2])]

ToParamText(v) ==
  CASE v.kind = "text" -> v
    [] v.kind = "blob" -> Text(Hex(v.data))
    [] v.kind = "real" -> SixPlaces(v)
    [] OTHER -> v

-----------------------------------------------------------------------------
(* What a column keeps of a value that bindParam() binds.                  *)

\* paramValues are C strings; a bytea reads the hex.
PostgreSqlStored(v) ==
  CASE v.kind = "text" -> Text(CString(v.data))
    [] v.kind = "blob" -> Blob(Unhex(CString(ToParamText(v).data)))
    [] OTHER -> ToParamText(v)

\* An empty vector has no address, and no address binds NULL.
SqliteStored(v) == IF v = Blob(<<>>) THEN Null ELSE v

\* An NVARCHAR keeps UTF-16.
MssqlStored(v) == IF v.kind = "text" THEN Text(Utf8ToUtf16(v.data)) ELSE v

\* SQLT_STR ends at a NUL; no bytes at all are null.
OracleStored(v) ==
  LET bound == CASE v.kind = "text" -> Text(CString(v.data))
                 [] v.kind = "real" -> SixPlaces(v)
                 [] OTHER -> v
  IN  IF bound.data = <<>> THEN Null ELSE bound

Stored(v, d) ==
  CASE d = "PostgreSQL" -> PostgreSqlStored(v)
    [] d = "SQLite" -> SqliteStored(v)
    [] d = "MSSQL" -> MssqlStored(v)
    [] d = "MySQL" -> v
    [] d = "Oracle" -> OracleStored(v)

-----------------------------------------------------------------------------
(* What fetchRows() reads.                                                 *)

\* The type of a column of each kind; MySQL's is the same for texts and
\* bytes, which differ in charsetnr.
MssqlType(k) ==
  CASE k = "int" -> "SQL_BIGINT"
    [] k = "real" -> "SQL_DOUBLE"
    [] k = "blob" -> "SQL_VARBINARY"
    [] OTHER -> "SQL_WVARCHAR"
MySqlField(k) ==
  [type |-> CASE k = "int" -> "MYSQL_TYPE_LONGLONG"
              [] k = "real" -> "MYSQL_TYPE_DOUBLE"
              [] OTHER -> "MYSQL_TYPE_BLOB",
   charsetnr |-> IF k = "text" THEN 45 ELSE 63]

MssqlCategory(sqlType) ==
  CASE sqlType = "SQL_BIGINT" -> "int"
    [] sqlType = "SQL_DOUBLE" -> "real"
    [] sqlType = "SQL_VARBINARY" -> "blob"
    [] OTHER -> "text"
MySqlCategory(field) ==
  CASE field.type = "MYSQL_TYPE_LONGLONG" -> "int"
    [] field.type = "MYSQL_TYPE_DOUBLE" -> "real"
    [] OTHER -> IF field.charsetnr = 63 THEN "blob" ELSE "text"

\* PQgetvalue() is text whatever the column: a numeral, or hex.
PostgreSqlFetched(stored) ==
  CASE stored.kind \in {"int", "real"} -> Variant("numeral", stored.data)
    [] stored.kind = "blob" -> Text(Hex(stored.data))
    [] OTHER -> stored

\* Cell by cell with SQLGetData, in the category of the column.
MssqlFetched(stored, k) ==
  LET category == MssqlCategory(MssqlType(k))
  IN  IF stored = Null THEN Null
      ELSE Variant(category,
                   CASE category = "text" -> Utf16ToUtf8(FetchWideText(stored.data))
                     [] category = "blob" -> FetchBinary(stored.data)
                     [] OTHER -> stored.data)

\* Numbers of MySQL, bound in binary; of Oracle numerals, and bytes of a BLOB,
\* read from its locator.
MySqlFetched(stored, k) ==
  IF stored = Null THEN Null ELSE Variant(MySqlCategory(MySqlField(k)), stored.data)
OracleFetched(stored) ==
  IF stored.kind \in {"int", "real"} THEN Variant("numeral", stored.data) ELSE stored

Fetched(stored, k, d) ==
  CASE d = "PostgreSQL" -> PostgreSqlFetched(stored)
    [] d = "SQLite" -> stored
    [] d = "MSSQL" -> MssqlFetched(stored, k)
    [] d = "MySQL" -> MySqlFetched(stored, k)
    [] d = "Oracle" -> OracleFetched(stored)

\* Columns whose values the library copies into a buffer of the column's.
Buffered(k, d) ==
  \/ d = "MySQL" /\ MySqlCategory(MySqlField(k)) \in {"text", "blob"}
  \/ d = "Oracle" /\ k = "text"

\* As long as the longest value MySQL has stored for the result, and one byte
\* at least; Oracle's has room for any VARCHAR2 and a terminator.
BufferSize(rows, d) ==
  IF d = "MySQL" THEN Max({1} \cup {Len(rows[i].data) : i \in DOMAIN rows})
  ELSE kColumnBufferSize
NewBuffer(size) == [data |-> [i \in 1..size |-> 0], length |-> 0, isNull |-> FALSE]

\* Defect: nothing is bound that tells a NULL, which leaves the row before.
CopiedIntoUnflagged(b, stored, d) ==
  IF stored = Null THEN b
  ELSE [data |-> [i \in DOMAIN b.data |->
                    IF i <= Len(stored.data) THEN stored.data[i] ELSE b.data[i]],
        length |-> Len(stored.data),
        isNull |-> FALSE]

\* The library overwrites as many bytes as the value has, on Oracle with a NUL
\* behind them, and for NULL none.
CopiedInto(b, stored, d) ==
  LET value == stored.data \o (IF d = "Oracle" THEN <<0>> ELSE <<>>)
  IN  IF stored = Null
        THEN [data |-> b.data, length |-> b.length, isNull |-> TRUE]
        ELSE [data |-> [i \in DOMAIN b.data |->
                          IF i <= Len(value) THEN value[i] ELSE b.data[i]],
              length |-> Len(stored.data),
              isNull |-> FALSE]

\* std::string(data, length) or a vector of as many bytes.
ReadBuffer(b, k) ==
  IF b.isNull THEN Null ELSE Variant(k, SubSeq(b.data, 1, b.length))

-----------------------------------------------------------------------------
(* A table of one column.                                                  *)

Driver == {"PostgreSQL", "SQLite", "MSSQL", "MySQL", "Oracle"}
Kind == {"text", "blob", "real", "int"}

\* What a caller can bind: any text of whole characters, any bytes, any number.
Values ==
  {Text(Utf8(s)) : s \in Texts} \cup {Blob(b) : b \in Blobs}
    \cup {Variant("real", <<m>>) : m \in Reals} \cup {Variant("int", <<m>>) : m \in Ints}
    \cup {Null}

Init ==
  /\ driver \in Driver
  /\ kind \in Kind
  /\ given = <<>>
  /\ kept = <<>>
  /\ fetching = FALSE
  /\ buffer = NewBuffer(0)
  /\ fetched = <<>>

\* execute() of an INSERT; Oracle refuses a text too long for the VARCHAR2.
Insert ==
  /\ ~fetching
  /\ Len(given) < MaxRows
  /\ \E v \in Values :
       /\ v.kind \in {kind, "null"}
       /\ driver = "Oracle" /\ kind = "text" =>
            Len(Stored(v, driver).data) < kColumnBufferSize
       /\ given' = Append(given, v)
       /\ kept' = Append(kept, Stored(v, driver))
  /\ UNCHANGED <<driver, kind, fetching, buffer, fetched>>

\* execute() of a SELECT, until the columns are described and their buffers made.
Select ==
  /\ ~fetching
  /\ fetching' = TRUE
  /\ buffer' = NewBuffer(IF Buffered(kind, driver) THEN BufferSize(kept, driver) ELSE 0)
  /\ fetched' = <<>>
  /\ UNCHANGED <<driver, kind, given, kept>>

FetchRow ==
  /\ fetching
  /\ Len(fetched) < Len(kept)
  /\ LET stored == kept[Len(fetched) + 1]
     IN  IF Buffered(kind, driver)
           THEN /\ buffer' = CopiedInto(buffer, stored, driver)
                /\ fetched' = Append(fetched, ReadBuffer(buffer', kind))
           ELSE /\ fetched' = Append(fetched, Fetched(stored, kind, driver))
                /\ UNCHANGED buffer
  /\ UNCHANGED <<driver, kind, given, kept, fetching>>

FetchEnd ==
  /\ fetching
  /\ Len(fetched) = Len(kept)
  /\ fetching' = FALSE
  /\ buffer' = NewBuffer(0)
  /\ UNCHANGED <<driver, kind, given, kept, fetched>>

Next == Insert \/ Select \/ FetchRow \/ FetchEnd

Spec == Init /\ [][Next]_vars
-----------------------------------------------------------------------------
(* Correctness.                                                            *)

\* What may come back of v, short of v itself: where PostgreSQL and Oracle
\* read a text, what is before its first NUL; their numeral of a number,
\* whole or to the sixth decimal; PostgreSQL's hex of a blob; and null, for
\* no bytes at all on Oracle - an empty text, or one that starts with a NUL,
\* or an empty blob - and for an empty blob on SQLite.
Survives(v, cell, d) ==
  LET byText == d \in {"PostgreSQL", "Oracle"}
  IN  \/ cell = v
      \/ byText /\ v.kind = "text" /\ cell = Text(CString(v.data))
      \/ byText /\ v.kind = "int" /\ cell = Variant("numeral", v.data)
      \/ /\ byText /\ v.kind = "real" /\ cell.kind = "numeral"
         /\ cell.data[1] - v.data[1] \in -50..50
      \/ /\ d = "PostgreSQL" /\ v.kind = "blob"
         /\ cell.kind = "text" /\ Unhex(cell.data) = v.data
      \/ d = "Oracle" /\ v.kind = "text" /\ CString(v.data) = <<>> /\ cell = Null
      \/ d \in {"Oracle", "SQLite"} /\ v = Blob(<<>>) /\ cell = Null

\* Every row fetched is the value that was inserted there, byte for byte, but
\* for the exceptions above: nothing of the rows before it is left in it, none
\* of it is cut off, and a NULL is a NULL in its own row only.
ValuesSurvive == \A i \in DOMAIN fetched : Survives(given[i], fetched[i], driver)
=============================================================================
