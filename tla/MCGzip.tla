------------------------------- MODULE MCGzip -------------------------------
(* Requests and responses for TLC. *)
EXTENDS Gzip

ManyRequests ==
  [accepts : {"gzip"}, upgrade : BOOLEAN, queued : BOOLEAN]
    \cup {[accepts |-> "none", upgrade |-> FALSE, queued |-> FALSE]}

Text == <<"Content-Type", "text">>
Image == <<"Content-Type", "image">>
Length == <<"Content-Length", "n">>
Chunked == <<"Transfer-Encoding", "chunked">>
Encoded == <<"Content-Encoding", "gzip">>
Cookie(v) == <<"Set-Cookie", v>>

Of(fields, length, wire) == [fields |-> fields, length |-> length, wire |-> <<"h1", "h2">> \o wire]

\* Bodies that are counted, chunked, up to the end, and empty; types that are
\* encoded and not, also where a second field says otherwise; bytes behind the
\* body; a second response behind one that is passed on as it is; and what is
\* no response.
ManyResponses ==
  { Of(<<Cookie("a"), Length, Text, Cookie("b")>>, 3, <<"a", "b", "c">>),
    Of(<<Text, Chunked>>, 0, <<"size", "a", "size", "b", "last">>),
    Of(<<Text, Image>>, 0, <<"a", "b">>),
    Of(<<Text, Length>>, 0, <<>>),
    Of(<<Text, Length>>, 1, <<"a", "junk", "junk">>),
    Of(<<Text, Length, Encoded>>, 2, <<"a", "b">>),
    Of(<<Image, Text, Length>>, 1, <<"a", "h1", "h2", "b">>),
    Of(<<Chunked>>, 0, <<"size", "a", "last", "h1", "h2", "last">>),
    [fields |-> <<>>, length |-> 0, wire |-> <<"junk", "junk">>] }

\* They are as PipeSpec is proved of them.
ASSUME ManyResponsesAssumption == \A r \in ManyResponses : EndsWithBody(r)
=============================================================================
