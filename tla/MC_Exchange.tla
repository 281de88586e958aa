---------------------------- MODULE MC_Exchange -----------------------------
(***************************************************************************)
(* Requests and replies of each way to delimit content, with content that  *)
(* looks like the end of a header, of a line, or like a chunk's length.    *)
(***************************************************************************)
EXTENDS Exchange

Chunk(content) == Line(Digit(Len(content))) \o content \o EOL
ChunkedField == Field(<<"Transfer-Encoding">>, <<"chunked">>)

GetQuery == [method |-> <<"GET">>, path |-> <<"/", "a", "?", "?", "k">>,
             header |-> << Field(<<"X">>, <<>>) >>, content |-> <<>>]
PostEnd == [method |-> <<"POST">>, path |-> <<>>,
            header |-> << Field(<<"Connection">>, <<"Close">>) >>,
            content |-> EOL \o EOL]
PostChunks == [method |-> <<"POST">>, path |-> <<"/", "a">>,
               header |-> <<ChunkedField>>,
               content |-> Chunk(<<"0">> \o EOL) \o Chunk(<<LF>>) \o Chunk(<<>>)]

PostOwnLength == [method |-> <<"POST">>, path |-> <<"/">>,
                  header |-> << Field(<<"content-length">>, <<"2">>) >>,
                  content |-> <<LF, "%">>]

PostNoChunks == [PostChunks EXCEPT !.content = Chunk(<<>>)]

RequestSet == {GetQuery, PostEnd, PostChunks, PostNoChunks, PostOwnLength}

Reply(style, header, content) ==
    [style |-> style, status |-> <<"200 OK">>, header |-> header, content |-> content]

ReplySet ==
    { Reply("own", <<>>, <<>>),
      Reply("own", << Field(<<"X">>, <<"a", ":", "b">>) >>, <<"a">> \o EOL \o EOL),
      Reply("appended", << Field(<<"content-length">>, <<"1">>) >>, <<"0">>),
      Reply("appended", <<>>, <<"0", "1">>),
      Reply("own", <<ChunkedField>>, Chunk(EOL \o <<"a">>) \o Chunk(<<>>)),
      Reply("autoClose", <<>>, <<"a", "b">>),
      Reply("bareLines", <<>>, <<LF, LF>>),
      Reply("old", <<>>, EOL \o <<"b">>) }
=============================================================================
