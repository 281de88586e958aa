----------------------------- MODULE MC_Utility -----------------------------
(***************************************************************************)
(* The utilities at work, one at a time: a stream is read up to the end of *)
(* a header, or fields go through a query string.  The attributes of a     *)
(* header field are read from every text of the stream: each is cut in two *)
(* at every place, into a name and a value.                                *)
(***************************************************************************)
EXTENDS HeaderEnd, Utility, QueryString

ByteSet == {CR, LF, "a", "%", "+", "&", "=", "\""}
OctetSet == {PERCENT, AMP, EQUALS, 97}

UtilityInit == StreamInit /\ QueryInit

UtilityNext ==
    \/ StreamNext /\ QueryInit /\ UNCHANGED queryVars
    \/ QueryNext /\ StreamInit /\ UNCHANGED streamVars

UtilitySpec == UtilityInit /\ [][UtilityNext]_<<streamVars, queryVars>>

Cuts == {Field(SubSeq(text, 1, i), From(text, i + 1)) : i \in 0..Len(text)}
Without(s, chars) == \A i \in DOMAIN s : s[i] \notin chars

\* name=value; name="value" are read back as two attributes, if the first
\* value is not empty, with their values decoded (src/utility.hpp:184-240).
AttributesRoundTrip ==
    \A f \in Cuts :
        f.name # <<>> /\ f.value # <<>> /\ Without(f.name, {" ", ";", "="})
        => AttributesParse(f.name \o <<"=">> \o PercentEncode(f.value) \o <<";", " ">>
                           \o f.name \o <<"=", "\"">> \o PercentEncode(f.value) \o <<"\"">>)
           = <<f, f>>
=============================================================================
