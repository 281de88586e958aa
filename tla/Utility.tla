------------------------------ MODULE Utility -------------------------------
(***************************************************************************)
(* The pure functions of src/utility.hpp: percent encoding, header fields, *)
(* the first lines of requests and responses, and the attributes of a      *)
(* header field's value.  Query strings have a module of their own.        *)
(*                                                                         *)
(* A text is a sequence of characters.  A word that no function looks into *)
(* (a header's name, a version, a status with its reason) is one character *)
(* here.  A multimap is the sequence of its fields in the order in which   *)
(* they were inserted.                                                     *)
(***************************************************************************)
EXTENDS HeaderEndMatch, SequencesExt

EOL == <<CR, LF>>
Field(name, value) == [name |-> name, value |-> value]

\* std::string::find: the first place of c from position i on, 0 for npos.
FindFrom(s, c, i) == SelectInSubSeq(s, i, Len(s), LAMBDA x : x = c)
Find(s, c) == FindFrom(s, c, 1)
FindLast(s, c) == SelectLastInSeq(s, LAMBDA x : x = c)

From(s, i) == SubSeq(s, i, Len(s))

\* The pieces between the separators, empty ones included.
Split(s, sep) ==
    LET ends == SelectSeq([i \in DOMAIN s |-> i], LAMBDA i : s[i] = sep)
                  \o << Len(s) + 1 >>
        start(k) == IF k = 1 THEN 1 ELSE ends[k - 1] + 1
    IN  [k \in DOMAIN ends |-> SubSeq(s, start(k), ends[k] - 1)]

DropLast(s) == SubSeq(s, 1, Len(s) - 1)

\* getline() has left the '\r' at the end of the line.
DropCR(s) == IF s # <<>> /\ s[Len(s)] = CR THEN DropLast(s) ELSE s

-----------------------------------------------------------------------------
(* CaseInsensitiveEqual, for the words that the code compares *)

LowerCase ==
    "Content-Length" :> "content-length" @@
    "Transfer-Encoding" :> "transfer-encoding" @@
    "Connection" :> "connection" @@
    "Close" :> "close"

ToLower(c) == IF c \in DOMAIN LowerCase THEN LowerCase[c] ELSE c

CaseInsensitiveEqual(s, t) ==
    Len(s) = Len(t) /\ \A i \in DOMAIN s : ToLower(s[i]) = ToLower(t[i])

\* header.find(): the values of the fields of that name.
ValuesOf(header, name) ==
    LET found == SelectSeq(header, LAMBDA f : CaseInsensitiveEqual(f.name, name))
    IN  [i \in DOMAIN found |-> found[i].value]

-----------------------------------------------------------------------------
(* class Percent *)

\* The two digits of the characters that are encoded, of those in use here.
Hex ==
    "%" :> <<"2", "5">> @@ "+" :> <<"2", "B">> @@ " " :> <<"2", "0">> @@
    "&" :> <<"2", "6">> @@ "=" :> <<"3", "D">> @@ "?" :> <<"3", "F">> @@
    "/" :> <<"2", "F">> @@ ":" :> <<"3", "A">> @@ ";" :> <<"3", "B">> @@
    "\"" :> <<"2", "2">> @@ CR :> <<"0", "D">> @@ LF :> <<"0", "A">>

PercentEncode(value) ==
    FlattenSeq([i \in DOMAIN value |->
                  IF value[i] \in DOMAIN Hex THEN <<"%">> \o Hex[value[i]]
                                             ELSE <<value[i]>>])

\* The character of two digits; one for all that no text here is made of.
Unhex(digits) ==
    IF \E c \in DOMAIN Hex : Hex[c] = digits
    THEN CHOOSE c \in DOMAIN Hex : Hex[c] = digits
    ELSE "other"

PercentDecode(value) ==
    LET n == Len(value)
        rest[i \in 1 .. n + 3] ==
            IF i > n THEN <<>>
            ELSE IF value[i] = "%" /\ i + 2 <= n
                 THEN <<Unhex(SubSeq(value, i + 1, i + 2))>> \o rest[i + 3]
            ELSE <<IF value[i] = "+" THEN " " ELSE value[i]>> \o rest[i + 1]
    IN  rest[1]

-----------------------------------------------------------------------------
(* class HttpHeader *)

\* Mutant: the '\r' stays with the value.
HeaderFieldKeepsCR(line) ==
    LET n == Len(line)
        colon == Find(line, ":")
        starts == {v \in colon + 1 .. n : v = n \/ line[v] # " "}
        start == CHOOSE v \in starts : \A w \in starts : v <= w
    IN  IF starts = {} THEN <<>>
        ELSE << Field(SubSeq(line, 1, colon - 1), From(line, start)) >>

\* The field of a line with a colon; none when nothing follows the colon.
HeaderField(line) ==
    LET n == Len(line)
        colon == Find(line, ":")
        starts == {v \in colon + 1 .. n : v = n \/ line[v] # " "}
        start == CHOOSE v \in starts : \A w \in starts : v <= w
    IN  IF starts = {} THEN <<>>
        ELSE << Field(SubSeq(line, 1, colon - 1), DropCR(From(line, start))) >>

\* The lines up to and including the first without a colon are taken from
\* the stream; what follows stays there.
HeaderParse(stream) ==
    LET lines == Split(stream, LF)
        blank == SelectInSeq(lines, LAMBDA l : Find(l, ":") = 0)
        last == IF blank = 0 THEN Len(lines) ELSE blank
        used == SubSeq(lines, 1, last)
        fields == SelectSeq(used, LAMBDA l : Find(l, ":") # 0)
    IN  [header |-> FlattenSeq([i \in DOMAIN fields |-> HeaderField(fields[i])]),
         rest |-> From(stream, Len(FlattenSeq(used)) + last + 1)]

-----------------------------------------------------------------------------
(* HttpHeader::FieldValue::SemicolonSeparatedAttributes *)

\* Where the attribute under way begins, its name ends and its value begins.
NoAttribute == [name |-> 0, nameEnd |-> 0, value |-> 0]

\* Mutant: the opening quote belongs to the value.
ValueStartKeepsQuote(text, c) == c

ValueStart(text, c) == IF text[c] = "\"" /\ c < Len(text) THEN c + 1 ELSE c

\* The loop's step at position c, on the attributes read and the one under way.
AttributeStep(text, acc, c) ==
    LET at == acc.at
        name(end) == SubSeq(text, at.name, end - 1)
        done(f) == [read |-> Append(acc.read, f), at |-> NoAttribute]
    IN  CASE at.name = 0 /\ text[c] \notin {" ", ";"} -> [acc EXCEPT !.at.name = c]
          [] at.name # 0 /\ at.nameEnd = 0 /\ text[c] = ";" -> done(Field(name(c), <<>>))
          [] at.name # 0 /\ at.nameEnd = 0 /\ text[c] = "=" -> [acc EXCEPT !.at.nameEnd = c]
          [] at.nameEnd # 0 /\ at.value = 0 -> [acc EXCEPT !.at.value = ValueStart(text, c)]
          [] at.value # 0 /\ text[c] \in {"\"", ";"} ->
               done(Field(name(at.nameEnd), PercentDecode(SubSeq(text, at.value, c - 1))))
          [] OTHER -> acc

\* What is under way when the text ends; a name whose '=' ends it is dropped.
AttributesParse(text) ==
    LET all == FoldLeftDomain(LAMBDA acc, c : AttributeStep(text, acc, c),
                              [read |-> <<>>, at |-> NoAttribute], text)
        at == all.at
    IN  all.read \o
        CASE at.name # 0 /\ at.nameEnd = 0 -> << Field(From(text, at.name), <<>>) >>
          [] at.value # 0 -> << Field(SubSeq(text, at.name, at.nameEnd - 1),
                                      PercentDecode(From(text, at.value))) >>
          [] OTHER -> <<>>

-----------------------------------------------------------------------------
(* RequestMessage::parse(), ResponseMessage::parse() *)

HTTP == <<"H", "T", "T", "P">>
NotParsed == [ok |-> FALSE]

\* getline(): the first line and the stream behind it.
FirstLine(stream) == Split(stream, LF)[1]
BehindFirstLine(stream) == From(stream, Len(FirstLine(stream)) + 2)

\* The query starts behind the last '?' of the target.  The version loses
\* the line's last character, which is taken to be its '\r'.
RequestParse(stream) ==
    LET line == FirstLine(stream)
        methodEnd == Find(line, " ")
        targetEnd == FindFrom(line, " ", methodEnd + 1)
        target == SubSeq(line, methodEnd + 1, targetEnd - 1)
        mark == FindLast(target, "?")
        slash == FindFrom(line, "/", targetEnd + 1)
        message == HeaderParse(BehindFirstLine(stream))
    IN  IF \/ methodEnd = 0 \/ targetEnd = 0 \/ slash = 0
           \/ SubSeq(line, targetEnd + 1, slash - 1) # HTTP
        THEN NotParsed
        ELSE [ok |-> TRUE,
              method |-> SubSeq(line, 1, methodEnd - 1),
              path |-> IF mark = 0 THEN target ELSE SubSeq(target, 1, mark - 1),
              query |-> IF mark = 0 THEN <<>> ELSE From(target, mark + 1),
              version |-> SubSeq(line, slash + 1, Len(line) - 1),
              header |-> message.header,
              rest |-> message.rest]

\* "HTTP/" is five characters, the version ends at the first space.
ResponseParse(stream) ==
    LET line == FirstLine(stream)
        versionEnd == Find(line, " ")
        message == HeaderParse(BehindFirstLine(stream))
    IN  IF versionEnd = 0 \/ Len(line) <= 5 \/ versionEnd = Len(line)
        THEN NotParsed
        ELSE [ok |-> TRUE,
              version |-> SubSeq(line, 6, versionEnd - 1),
              status |-> DropCR(From(line, versionEnd + 1)),
              header |-> message.header,
              rest |-> message.rest]
=============================================================================
