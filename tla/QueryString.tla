---------------------------- MODULE QueryString -----------------------------
(***************************************************************************)
(* class QueryString (src/utility.hpp:111-163), loop by loop: create()     *)
(* writes fields character by character, parse() scans what was written,   *)
(* and decode() takes each value apart.                                    *)
(*                                                                         *)
(* The multimaps are sequences of fields, in the order in which create()   *)
(* meets them and parse() emplaces them.                                   *)
(***************************************************************************)
EXTENDS Percent

CONSTANTS Octets,     \* the characters that names and values are made of
          MaxFields,  \* bound on the number of fields
          MaxQuery    \* bound on the length of what is written

ASSUME OctetsAssumption == Octets \subseteq Octet
ASSUME QueryBoundsAssumption == MaxFields \in Nat /\ MaxQuery \in Nat

VARIABLES
    loop,      \* the loop that runs: create, name, value, parse, decode, done
    fields,    \* create()'s argument
    query,     \* create()'s result, parse()'s argument
    origin,    \* history: what each character of the query stands for
    cursor,    \* parse()'s c
    namePos, nameEndPos, valuePos,   \* 0 for npos
    spot,      \* decode()'s i
    decoded,   \* decode()'s result
    result     \* parse()'s result

written == <<fields, query, origin>>
scanned == <<cursor, namePos, nameEndPos, valuePos, result>>
read == <<spot, decoded>>
queryVars == <<loop, written, scanned, read>>

None == 0

\* The character of a name, of a value (its digit, when it is encoded), or one
\* that separates.
Place(kind, field, index, digit) ==
    [kind |-> kind, field |-> field, index |-> index, digit |-> digit]

QueryInit ==
    /\ loop = "create"
    /\ fields = <<>> /\ query = <<>> /\ origin = <<>>
    /\ cursor = 1
    /\ namePos = 1 /\ nameEndPos = None /\ valuePos = None
    /\ result = <<>>
    /\ spot = None /\ decoded = <<>>

-----------------------------------------------------------------------------
(* create() *)

Current == Len(fields)

Write(text, places) ==
    /\ Len(query) + Len(text) <= MaxQuery
    /\ query' = query \o text
    /\ origin' = origin \o places
    /\ UNCHANGED <<scanned, read>>

\* for(auto &field : fields): every field but the first follows an '&'.
NextField ==
    /\ loop \in {"create", "value"}
    /\ Len(fields) < MaxFields
    /\ loop' = "name"
    /\ fields' = Append(fields, [name |-> <<>>, value |-> <<>>])
    /\ IF fields = <<>> THEN Write(<<>>, <<>>)
       ELSE Write(<<AMP>>, <<Place("separator", Current + 1, 0, 0)>>)

WriteName(o) ==
    /\ loop = "name"
    /\ fields' = [fields EXCEPT ![Current].name = Append(@, o)]
    /\ Write(<<o>>, <<Place("name", Current, Len(fields[Current].name) + 1, 1)>>)
    /\ UNCHANGED loop

WriteEquals ==
    /\ loop = "name"
    /\ loop' = "value"
    /\ Write(<<EQUALS>>, <<Place("equals", Current, 0, 0)>>)
    /\ UNCHANGED fields

\* Percent::encode()
WriteValue(o) ==
    /\ loop = "value"
    /\ fields' = [fields EXCEPT ![Current].value = Append(@, o)]
    /\ LET index == Len(fields[Current].value) + 1
       IN  Write(Encode(o), [d \in DOMAIN Encode(o) |-> Place("value", Current, index, d)])
    /\ UNCHANGED loop

CreateReturns ==
    /\ loop \in {"create", "value"}
    /\ loop' = "parse"
    /\ UNCHANGED <<written, scanned, read>>

-----------------------------------------------------------------------------
(* parse() *)

AtEnd == cursor = Len(query) + 1

\* query_string.substr(name_pos, ...), up to the cursor without an '='.
Name == SubSeq(query, namePos, (IF nameEndPos = None THEN cursor ELSE nameEndPos) - 1)

\* The field's end: one without a name is passed over.
Emplace ==
    /\ loop' = "decode"
    /\ spot' = IF valuePos = None THEN cursor ELSE valuePos
    /\ decoded' = <<>>
    /\ UNCHANGED <<written, scanned>>

GoOn ==
    /\ namePos' = cursor + 1
    /\ nameEndPos' = None
    /\ valuePos' = None
    /\ IF AtEnd THEN loop' = "done" /\ UNCHANGED cursor
       ELSE loop' = "parse" /\ cursor' = cursor + 1
    /\ UNCHANGED <<written, read>>

ScanSeparator ==
    /\ loop = "parse"
    /\ ~AtEnd => query[cursor] = AMP
    /\ IF Name # <<>> THEN Emplace ELSE GoOn /\ UNCHANGED result

ScanEquals ==
    /\ loop = "parse"
    /\ ~AtEnd /\ query[cursor] = EQUALS
    /\ nameEndPos' = cursor
    /\ valuePos' = cursor + 1
    /\ cursor' = cursor + 1
    /\ UNCHANGED <<loop, written, namePos, result, read>>

ScanOther ==
    /\ loop = "parse"
    /\ ~AtEnd /\ query[cursor] \notin {AMP, EQUALS}
    /\ cursor' = cursor + 1
    /\ UNCHANGED <<loop, written, namePos, nameEndPos, valuePos, result, read>>

\* Mutant: an escape at the end of a value is not decoded.
DecodeNextShort ==
    /\ loop = "decode"
    /\ spot < cursor
    /\ decoded' = Append(decoded, Decode(query, spot, cursor - 1))
    /\ spot' = Behind(query, spot, cursor - 1)
    /\ UNCHANGED <<loop, written, scanned>>

\* Percent::decode() of the value, which ends before the cursor.
DecodeNext ==
    /\ loop = "decode"
    /\ spot < cursor
    /\ decoded' = Append(decoded, Decode(query, spot, cursor))
    /\ spot' = Behind(query, spot, cursor)
    /\ UNCHANGED <<loop, written, scanned>>

\* result.emplace(std::move(name), ...)
DecodeReturns ==
    /\ loop = "decode"
    /\ spot >= cursor
    /\ result' = Append(result, [name |-> Name, value |-> decoded])
    /\ GoOn

-----------------------------------------------------------------------------
QueryNext ==
    \/ NextField \/ WriteEquals \/ CreateReturns
    \/ \E o \in Octets : WriteName(o) \/ WriteValue(o)
    \/ ScanSeparator \/ ScanEquals \/ ScanOther
    \/ DecodeNext \/ DecodeReturns

QuerySpec == QueryInit /\ [][QueryNext]_queryVars

-----------------------------------------------------------------------------
(* Properties *)

\* Names are written as they are.
Plain ==
    \A k \in DOMAIN fields :
        /\ fields[k].name # <<>>
        /\ \A j \in DOMAIN fields[k].name : fields[k].name[j] \notin {AMP, EQUALS}

(* Any fields come back from a query string, in their order and whatever   *)
(* their values are, if their names are not empty and have no '&' and no   *)
(* '=' (src/utility.hpp:72-162).                                           *)
QueryRoundTrip == loop = "done" /\ Plain => result = fields

-----------------------------------------------------------------------------
(* The inductive invariant: the places follow one another as the fields    *)
(* have them, and the scan knows where in the fields it is.                *)

FieldOf(names, values) == [name : names, value : values]
Places == [kind : {"separator", "name", "equals", "value"}, field : Nat, index : Nat, digit : Nat]

\* What follows in the query string of the fields fs.
NameFrom(fs, k, j) ==
    IF j <= Len(fs[k].name) THEN Place("name", k, j, 1) ELSE Place("equals", k, 0, 0)

ValueFrom(fs, k, j) ==
    IF j <= Len(fs[k].value) THEN Place("value", k, j, 1) ELSE Place("separator", k + 1, 0, 0)

NextPlace(fs, o) ==
    CASE o.kind = "separator" -> NameFrom(fs, o.field, 1)
      [] o.kind = "name"      -> NameFrom(fs, o.field, o.index + 1)
      [] o.kind = "equals"    -> ValueFrom(fs, o.field, 1)
      [] o.kind = "value"     ->
           IF o.digit < Len(Encode(fs[o.field].value[o.index]))
           THEN Place("value", o.field, o.index, o.digit + 1)
           ELSE ValueFrom(fs, o.field, o.index + 1)

\* The character c stands for o, where the first n of the fields have an '='.
IsSeparator(fs, o, c) == o = Place("separator", o.field, 0, 0) /\ o.field \in 2..Len(fs) /\ c = AMP

IsName(fs, o, c) ==
    /\ o = Place("name", o.field, o.index, 1)
    /\ o.field \in 1..Len(fs)
    /\ o.index \in 1..Len(fs[o.field].name)
    /\ c = fs[o.field].name[o.index]

IsEquals(n, o, c) == o = Place("equals", o.field, 0, 0) /\ o.field \in 1..n /\ c = EQUALS

IsValue(fs, n, o, c) ==
    /\ o = Place("value", o.field, o.index, o.digit)
    /\ o.field \in 1..n
    /\ o.index \in 1..Len(fs[o.field].value)
    /\ o.digit \in 1..Len(Encode(fs[o.field].value[o.index]))
    /\ c = Encode(fs[o.field].value[o.index])[o.digit]

IsPlace(fs, n, o, c) ==
    IsSeparator(fs, o, c) \/ IsName(fs, o, c) \/ IsEquals(n, o, c) \/ IsValue(fs, n, o, c)

\* A separator comes before the first place.
PlaceAt(places, p) == IF p = 0 THEN Place("separator", 1, 0, 0) ELSE places[p]

Written(fs, n, text, places) ==
    \A p \in 1..Len(places) :
        /\ IsPlace(fs, n, places[p], text[p])
        /\ places[p] = NextPlace(fs, PlaceAt(places, p - 1))

WrittenType ==
    /\ loop \in {"create", "name", "value", "parse", "decode", "done"}
    /\ fields \in Seq(FieldOf(Seq(Octet), Seq(Octet)))
    /\ query \in Seq(Octet)
    /\ origin \in Seq(Places)
    /\ Len(origin) = Len(query)

\* What is written next.
LastPlace ==
    LET last == PlaceAt(origin, Len(origin))
        k == Len(fields)
    IN  /\ loop = "create" => fields = <<>>
        /\ loop = "name" => /\ fields # <<>> /\ fields[k].value = <<>>
                            /\ NextPlace(fields, last) = Place("equals", k, 0, 0)
        /\ loop = "value" => fields # <<>>
        /\ loop # "name" => IF fields = <<>> THEN origin = <<>>
                            ELSE NextPlace(fields, last) = Place("separator", k + 1, 0, 0)

WrittenInv ==
    /\ WrittenType
    /\ LastPlace
    /\ Written(fields, IF loop = "name" THEN Len(fields) - 1 ELSE Len(fields), query, origin)

\* A separator comes behind the last place, too.
Sign(p) ==
    IF p <= Len(origin) THEN PlaceAt(origin, p) ELSE Place("separator", Len(fields) + 1, 0, 0)

Here == Sign(cursor)

\* The field whose name or value the cursor is in, or ends.
Scanned == IF Here.kind = "separator" THEN Here.field - 1 ELSE Here.field

ScanType ==
    /\ cursor \in 1..Len(query) + 1
    /\ namePos \in Nat /\ nameEndPos \in Nat /\ valuePos \in Nat

ReadSoFar ==
    /\ result \in Seq(FieldOf(Seq(Octet), Seq(Octet)))
    /\ Len(result) = IF fields = <<>> THEN 0 ELSE Scanned - 1
    /\ \A k \in DOMAIN result : result[k] = fields[k]

\* The first n characters of the name begin at namePos.
NameBegins(n) ==
    /\ namePos \in 1..cursor
    /\ namePos + n <= Len(query) + 1
    /\ \A m \in 1..n : query[namePos + m - 1] = fields[Scanned].name[m]

InName(n) ==
    /\ namePos + n = cursor
    /\ nameEndPos = None /\ valuePos = None
    /\ NameBegins(n)

InValue ==
    LET name == fields[Scanned].name
    IN  /\ NameBegins(Len(name))
        /\ nameEndPos = namePos + Len(name)
        /\ valuePos = nameEndPos + 1
        /\ valuePos <= cursor
        /\ Sign(valuePos) = ValueFrom(fields, Scanned, 1)
        /\ \A q \in valuePos..cursor - 1 : Sign(q).kind = "value"

\* What is scanned of the field under way.
UnderWay ==
    IF fields = <<>> THEN namePos = 1 /\ nameEndPos = None
    ELSE CASE Here.kind = "name"   -> InName(Here.index - 1)
           [] Here.kind = "equals" -> InName(Len(fields[Scanned].name))
           [] OTHER                -> InValue

ScanInv == loop = "parse" /\ Plain => ReadSoFar /\ UnderWay

DecodeInv ==
    loop = "decode" /\ Plain =>
        /\ fields # <<>>
        /\ ReadSoFar
        /\ Here.kind = "separator"
        /\ InValue
        /\ spot \in valuePos..cursor
        /\ decoded \in Seq(Octet)
        /\ \A i \in DOMAIN decoded : decoded[i] = fields[Scanned].value[i]
        /\ Sign(spot) = ValueFrom(fields, Scanned, Len(decoded) + 1)
        /\ Len(decoded) <= Len(fields[Scanned].value)

NothingScanned ==
    loop \in {"create", "name", "value"} =>
        cursor = 1 /\ namePos = 1 /\ nameEndPos = None /\ valuePos = None
            /\ result = <<>> /\ decoded = <<>>

QueryInv ==
    WrittenInv /\ NothingScanned /\ ScanType /\ ScanInv /\ DecodeInv /\ QueryRoundTrip
=============================================================================
