------------------------------- MODULE Catalog -------------------------------
(***************************************************************************)
(* MyDB_Catalog, a map from keys to values that is kept in a text file,    *)
(* and what MyDB_Table, MyDB_Schema and CREATE TABLE put in it.  A text is *)
(* a sequence of tokens: a name or a keyword, a number, a separator.  The  *)
(* names are SQL identifiers: not empty and without separators.            *)
(***************************************************************************)
EXTENDS Integers, FiniteSetsExt, SequencesExt

Symbol(s) == <<"symbol", s>>
Number(n) == <<"number", n>>

Hash == Symbol("#")
Pipe == Symbol("|")

Symbols == {"symbol"} \X STRING
Tokens == Symbols \cup ({"number"} \X Int)
SqlNames == Symbols \ {Hash, Pipe}
Texts == Seq(Tokens \ {Pipe})

(* find and substr of std::string, with places from 0 and -1 for npos.     *)
Find(token, text, from) ==
    LET places == {p \in from .. Len(text) - 1 : text[p + 1] = token}
    IN IF places = {} THEN -1 ELSE Min(places)

Substr(text, from, length) == SubSeq(text, from + 1, from + length)

-----------------------------------------------------------------------------
Put(data, key, value) ==
    [k \in DOMAIN data \cup {key} |-> IF k = key THEN value ELSE data[k]]

PutInt(data, key, n) == Put(data, key, <<Number(n)>>)

(* Every element is followed by a hash.                                    *)
PutStringList(data, key, list) ==
    Put(data, key, FlattenSeq([n \in DOMAIN list |-> Append(list[n], Hash)]))

(* An element ends at the first hash behind its first character.           *)
GetStringList(data, key) ==
    LET text == data[key]
        elements[pos \in 0 .. Len(text)] ==
            IF pos = Len(text) THEN << >>
            ELSE LET hash == Find(Hash, text, pos + 1)
                 IN <<Substr(text, pos, hash - pos)>> \o elements[hash + 1]
    IN IF key \in DOMAIN data THEN elements[0] ELSE << >>

GetInt(data, key) == data[key][1][2]

(* save: a line for each key.                                              *)
Lines(data) == {<<Pipe>> \o key \o <<Pipe>> \o data[key] \o <<Pipe>> : key \in DOMAIN data}

(* The constructor: a line is cut at its first three pipes.                *)
KeyOf(line) ==
    LET firstPipe == Find(Pipe, line, 0)  secPipe == Find(Pipe, line, firstPipe + 1)
    IN Substr(line, firstPipe + 1, secPipe - firstPipe - 1)

ValueOf(line) ==
    LET secPipe == Find(Pipe, line, Find(Pipe, line, 0) + 1)  lastPipe == Find(Pipe, line, secPipe + 1)
    IN Substr(line, secPipe + 1, lastPipe - secPipe - 1)

ReadLines(lines) ==
    FoldSet(LAMBDA line, data : Put(data, KeyOf(line), ValueOf(line)), << >>, lines)

-----------------------------------------------------------------------------
(* A table's descriptor.  Distinct values and tuples are never counted, so *)
(* that the one list stays empty and the other number is not initialised.  *)
NewTable(name, fileName, schema) ==
    [tableName |-> name, storageLoc |-> fileName, mySchema |-> schema, last |-> -1, fileType |-> "heap",
     sortAtt |-> Symbol("none"), rootLocation |-> -1, allCounts |-> << >>]

(* Attributes are pairs of name and type.                                  *)
Attributes == SqlNames \X {"int", "double", "string", "bool"}

Names(schema) == {schema[n][1] : n \in DOMAIN schema}

Descriptors ==
    [tableName : SqlNames, storageLoc : Texts, mySchema : Seq(Attributes), last : Int, fileType : {"heap", "bplustree"},
     sortAtt : SqlNames, rootLocation : Int, allCounts : {<< >>}]

Key(name, suffix) == <<name, Symbol(suffix)>>
AttKey(name, att) == <<name, Symbol("."), att, Symbol(".type")>>
Tables == <<Symbol("tables")>>

(* Mutant of AddAtt: an attribute is listed again.                         *)
AddAttAgain(data, name, att) ==
    LET key == Key(name, ".attList")
    IN Put(PutStringList(data, key, Append(GetStringList(data, key), <<att[1]>>)),
           AttKey(name, att[1]), <<Symbol(att[2])>>)

AddAtt(data, name, att) ==
    LET key == Key(name, ".attList")  list == GetStringList(data, key)
    IN Put(PutStringList(data, key, IF Contains(list, <<att[1]>>) THEN list ELSE Append(list, <<att[1]>>)),
           AttKey(name, att[1]), <<Symbol(att[2])>>)

TableInCatalog(data, table) ==
    LET name == table.tableName
        list == GetStringList(data, Tables)
        listed == IF Contains(list, <<name>>) THEN data
                  ELSE PutStringList(data, Tables, Append(list, <<name>>))
        put1 == Put(listed, Key(name, ".fileName"), table.storageLoc)
        put2 == Put(put1, Key(name, ".fileType"), <<Symbol(table.fileType)>>)
        put3 == PutInt(put2, Key(name, ".rootLocation"), table.rootLocation)
        put4 == PutStringList(put3, Key(name, ".valCounts"), table.allCounts)
        put5 == Put(put4, Key(name, ".sortAtt"), <<table.sortAtt>>)
        put6 == PutInt(put5, Key(name, ".lastPage"), table.last)
    IN FoldLeft(LAMBDA d, att : AddAtt(d, name, att), put6, table.mySchema)

SchemaFromCatalog(data, name) ==
    LET list == GetStringList(data, Key(name, ".attList"))
    IN [n \in DOMAIN list |-> <<list[n][1], data[AttKey(name, list[n][1])][1][2]>>]

FromCatalog(data, name) ==
    [tableName |-> name, storageLoc |-> data[Key(name, ".fileName")],
     mySchema |-> SchemaFromCatalog(data, name),
     last |-> GetInt(data, Key(name, ".lastPage")), fileType |-> data[Key(name, ".fileType")][1][2],
     sortAtt |-> data[Key(name, ".sortAtt")][1], rootLocation |-> GetInt(data, Key(name, ".rootLocation")),
     allCounts |-> GetStringList(data, Key(name, ".valCounts"))]

GetAllTables(data) ==
    LET list == GetStringList(data, Tables)
    IN [name \in {list[n][1] : n \in DOMAIN list} |-> FromCatalog(data, name)]

-----------------------------------------------------------------------------
(* CREATE TABLE: a tree needs its attribute.  sortAtt is "none" in a       *)
(* statement without AS BPLUSTREE.                                         *)
IsTree(statement) == statement.sortAtt # Symbol("none")

Creatable(statement) ==
    IsTree(statement) => \E n \in DOMAIN statement.atts : statement.atts[n][1] = statement.sortAtt

Created(statement) ==
    [NewTable(statement.tableName, <<Symbol("storageDir"), Symbol("/"), statement.tableName, Symbol(".bin")>>,
              statement.atts)
        EXCEPT !.fileType = IF IsTree(statement) THEN "bplustree" ELSE @, !.sortAtt = statement.sortAtt]

=============================================================================
