----------------------------- MODULE GzipProofs -----------------------------
(***************************************************************************)
(* What comes out of the gzip stream can be read, for every request, every *)
(* response, also one that is cut off or that no HTTP server would send,   *)
(* and however TCP cuts it.                                                *)
(***************************************************************************)
EXTENDS Gzip, InductionLemmas

Tokens == UNION {ToSet(r.wire) : r \in Responses}
ChunkedFields == {<<"Transfer-Encoding", "chunked">>}
EncodingFields == {<<"Content-Encoding", r.accepts>> : r \in Requests}
ReceivedFields == UNION {ToSet(r.fields) : r \in Responses}
Fields == ReceivedFields \cup ChunkedFields \cup EncodingFields
ParserStates ==
  [at : {"none", "start", "fields", "size", "data", "counted", "open"},
   left : Int, headers : BOOLEAN, body : Seq(Tokens), bad : BOOLEAN]
Records == [kind : {"raw", "header", "chunk", "last"}, data : Seq(Tokens), fields : Seq(Fields)]

\* The header of ours, and when there may be one.
OwnHeader == CreateHTTPResponseHeader(response.fields, request.accepts)
MayEncode ==
  /\ request.accepts # "none"
  /\ "Content-Encoding" \notin DOMAIN CompactHeaders(response.fields)

\* The inductive invariant, in named parts.
DataOK ==
  /\ parser \in ParserStates
  /\ buf \in Seq(Tokens)
  /\ held \in Seq(Tokens)
  /\ header \in Seq(Fields)
  /\ out \in Seq(Records)
WriterKnows ==
  /\ mode = "http" => parser.headers
  /\ mode = "undecided" => ~injected /\ out = <<>>
  /\ closed => ended
OwnHeaderPending ==
  /\ injected => MayEncode
  /\ header # <<>> => header = OwnHeader /\ out = <<>>
  /\ injected /\ out = <<>> => header # <<>>
PassedOn == ~injected => \A i \in DOMAIN out : out[i].kind = "raw"
Encoded ==
  injected /\ out # <<>> =>
    /\ Len(out) >= 2
    /\ out[1] = Header(OwnHeader)
    /\ \A i \in 2..Len(out) : out[i].kind = IF closed /\ i = Len(out) THEN "last" ELSE "chunk"

IInv ==
  /\ TypeOK
  /\ DataOK
  /\ WriterKnows
  /\ OwnHeaderPending
  /\ PassedOn
  /\ Encoded

-----------------------------------------------------------------------------
\* The recursive function inside Without.
RestOf(s, X) ==
  CHOOSE rest : rest = [n \in 0..Len(s) |->
    IF n = 0 THEN <<>> ELSE IF s[n] \in X THEN rest[n - 1] ELSE Append(rest[n - 1], s[n])]

\* It is there, so that Without computes what its recursion says.
LEMMA RestFacts ==
  ASSUME NEW S, NEW s \in Seq(S), NEW X
  PROVE  /\ Without(s, X) = RestOf(s, X)[Len(s)]
         /\ RestOf(s, X) \in [0..Len(s) -> Seq(S)]
         /\ RestOf(s, X)[0] = <<>>
         /\ \A n \in 1..Len(s) :
              RestOf(s, X)[n] = IF s[n] \in X THEN RestOf(s, X)[n - 1]
                                ELSE Append(RestOf(s, X)[n - 1], s[n])
<1>1. PICK l \in Nat : l = Len(s) OBVIOUS
<1> DEFINE step == [pair \in (1..l) \X Seq(S) |->
                     IF s[pair[1]] \in X THEN pair[2] ELSE Append(pair[2], s[pair[1]])]
<1>2. step \in [(1..l) \X Seq(S) -> Seq(S)]
  <2> SUFFICES ASSUME NEW pair \in (1..l) \X Seq(S) PROVE step[pair] \in Seq(S) OBVIOUS
  <2>1. pair[1] \in 1..l /\ pair[2] \in Seq(S) /\ s[pair[1]] \in S BY <1>1
  <2>2. Append(pair[2], s[pair[1]]) \in Seq(S) BY <2>1
  <2> QED BY <2>1, <2>2
<1>3. \A n \in 1..l, r \in Seq(S) : step[<<n, r>>] = IF s[n] \in X THEN r ELSE Append(r, s[n])
  OBVIOUS
<1> HIDE DEF step
<1>4. PICK f : Runs(f, Seq(S), l, <<>>, step) BY <1>2, RecursionExists, <<>> \in Seq(S)
<1>5. /\ f \in [0..l -> Seq(S)] /\ f[0] = <<>>
      /\ \A n \in 1..l : f[n] = IF s[n] \in X THEN f[n - 1] ELSE Append(f[n - 1], s[n])
  <2>1. f \in [0..l -> Seq(S)] /\ f[0] = <<>> BY <1>4 DEF Runs
  <2>2. ASSUME NEW n \in 1..l PROVE f[n] = IF s[n] \in X THEN f[n - 1] ELSE Append(f[n - 1], s[n])
    <3>1. f[n - 1] \in Seq(S) BY <2>1
    <3>2. f[n] = step[<<n, f[n - 1]>>] BY <1>4 DEF Runs
    <3> QED BY <1>3, <3>1, <3>2
  <2> QED BY <2>1, <2>2
<1>6. f = [n \in 0..Len(s) |-> IF n = 0 THEN <<>> ELSE IF s[n] \in X THEN f[n - 1] ELSE Append(f[n - 1], s[n])]
  <2> DEFINE h == [n \in 0..Len(s) |->
                    IF n = 0 THEN <<>> ELSE IF s[n] \in X THEN f[n - 1] ELSE Append(f[n - 1], s[n])]
  <2>1. f = [n \in 0..l |-> f[n]] BY <1>5
  <2>2. ASSUME NEW n \in 0..l PROVE f[n] = h[n]
    <3>1. CASE n = 0 BY <1>1, <1>5, <3>1
    <3>2. CASE n \in 1..l
      <4>1. h[n] = IF s[n] \in X THEN f[n - 1] ELSE Append(f[n - 1], s[n]) BY <1>1, <3>2
      <4> HIDE DEF h
      <4> QED BY <1>5, <3>2, <4>1
    <3> QED BY <3>1, <3>2
  <2>3. h = [n \in 0..l |-> h[n]] BY <1>1
  <2> HIDE DEF h
  <2>4. f = h BY <2>1, <2>2, <2>3
  <2> QED BY <2>4 DEF h
<1>7. RestOf(s, X) = [n \in 0..Len(s) |->
        IF n = 0 THEN <<>> ELSE IF s[n] \in X THEN RestOf(s, X)[n - 1] ELSE Append(RestOf(s, X)[n - 1], s[n])]
  BY <1>6 DEF RestOf
<1>8. Without(s, X) = RestOf(s, X)[Len(s)] BY DEF Without, RestOf
<1> DEFINE g == RestOf(s, X)
           h == [n \in 0..l |->
                  IF n = 0 THEN <<>> ELSE IF s[n] \in X THEN g[n - 1] ELSE Append(g[n - 1], s[n])]
<1> HIDE DEF g
<1>9. /\ g = [n \in 0..l |-> g[n]] /\ g[0] = <<>>
      /\ \A n \in 1..l : g[n] = IF s[n] \in X THEN g[n - 1] ELSE Append(g[n - 1], s[n])
  <2>1. g = h BY <1>1, <1>7 DEF g
  <2>2. /\ h = [n \in 0..l |-> h[n]] /\ h[0] = <<>>
        /\ \A n \in 1..l : h[n] = IF s[n] \in X THEN g[n - 1] ELSE Append(g[n - 1], s[n])
    OBVIOUS
  <2> HIDE DEF h
  <2> QED BY <2>1, <2>2
<1> HIDE DEF h
<1>10. \A n \in 0..l : f[n] = g[n]
  <2>1. \A n \in 1..l : f[n - 1] = g[n - 1] => f[n] = g[n] BY <1>5, <1>9
  <2>2. f[0] = g[0] BY <1>5, <1>9
  <2> QED BY <2>1, <2>2, RecursionAgrees
<1>11. g \in [0..l -> Seq(S)]
  <2>1. g = [n \in 0..l |-> g[n]] BY <1>9
  <2>2. \A n \in 0..l : g[n] \in Seq(S) BY <1>5, <1>10
  <2> QED BY <2>1, <2>2
<1> QED BY <1>1, <1>8, <1>9, <1>11 DEF g

\* What is left of a sequence is one of the same elements.
LEMMA WithoutType ==
  ASSUME NEW S, NEW s \in Seq(S), NEW X
  PROVE  Without(s, X) \in Seq(S)
<1>1. Len(s) \in 0..Len(s) OBVIOUS
<1> QED BY <1>1, RestFacts

\* The recursion, on the last element of a sequence.
LEMMA WithoutAppend ==
  ASSUME NEW S, NEW s \in Seq(S), NEW e \in S, NEW X
  PROVE  /\ Without(s, X) \in Seq(S)
         /\ Without(Add(s, e), X) = IF e \in X THEN Without(s, X) ELSE Add(Without(s, X), e)
<1>1. PICK l \in Nat : l = Len(s) OBVIOUS
<1> DEFINE t == Add(s, e)
           f == RestOf(s, X)
           g == RestOf(t, X)
<1>2. t \in Seq(S) /\ Len(t) = l + 1 /\ t[l + 1] = e /\ \A n \in 1..l : t[n] = s[n] BY <1>1 DEF Add
<1> HIDE DEF t
<1>3. /\ Without(s, X) = f[l] /\ f \in [0..l -> Seq(S)] /\ f[0] = <<>>
      /\ \A n \in 1..l : f[n] = IF s[n] \in X THEN f[n - 1] ELSE Append(f[n - 1], s[n])
  BY <1>1, RestFacts
<1>4. /\ Without(t, X) = g[l + 1] /\ g[0] = <<>>
      /\ \A n \in 1..(l + 1) : g[n] = IF t[n] \in X THEN g[n - 1] ELSE Append(g[n - 1], t[n])
  BY <1>2, RestFacts
<1> HIDE DEF f, g
<1>5. \A n \in 1..l : g[n] = IF s[n] \in X THEN g[n - 1] ELSE Append(g[n - 1], s[n]) BY <1>2, <1>4
<1>6. \A n \in 0..l : f[n] = g[n]
  <2>1. \A n \in 1..l : f[n - 1] = g[n - 1] => f[n] = g[n] BY <1>3, <1>5
  <2>2. f[0] = g[0] BY <1>3, <1>4
  <2> QED BY <2>1, <2>2, RecursionAgrees
<1>7. g[l + 1] = IF e \in X THEN g[l] ELSE Add(g[l], e) BY <1>2, <1>4 DEF Add
<1>8. f[l] = g[l] /\ f[l] \in Seq(S) BY <1>3, <1>6
<1> QED BY <1>3, <1>4, <1>7, <1>8 DEF t

\* Nothing is left of nothing.
LEMMA WithoutEmpty == ASSUME NEW X PROVE Without(<<>>, X) = <<>>
<1>1. <<>> \in Seq({}) /\ Len(<<>>) = 0 OBVIOUS
<1>2. ASSUME NEW S, NEW s \in Seq(S), Len(s) = 0 PROVE Without(s, X) = <<>>
  <2>1. Without(s, X) = RestOf(s, X)[Len(s)] /\ RestOf(s, X)[0] = <<>> BY RestFacts
  <2> QED BY <1>2, <2>1
<1> QED BY <1>1, <1>2

\* What is left has none of the elements that go and all of the others.
LEMMA WithoutFacts ==
  ASSUME NEW S, NEW X
  PROVE  \A s \in Seq(S) :
           /\ Without(s, X) \in Seq(S \ X)
           /\ S \cap X = {} => Without(s, X) = s
           /\ S \subseteq X => Without(s, X) = <<>>
<1> DEFINE T == {s \in Seq(S) : /\ Without(s, X) \in Seq(S \ X)
                                /\ S \cap X = {} => Without(s, X) = s
                                /\ S \subseteq X => Without(s, X) = <<>>}
<1>1. <<>> \in T
  <2>1. <<>> \in Seq(S) /\ <<>> \in Seq(S \ X) OBVIOUS
  <2> QED BY <2>1, WithoutEmpty
<1>2. ASSUME NEW s \in Seq(S), NEW e \in S, s \in T PROVE Add(s, e) \in T
  <2>1. Without(Add(s, e), X) = IF e \in X THEN Without(s, X) ELSE Add(Without(s, X), e)
    BY WithoutAppend
  <2>2. Add(s, e) \in Seq(S) BY AddFacts
  <2>3. Without(Add(s, e), X) \in Seq(S \ X)
    <3>1. CASE e \in X BY <1>2, <2>1, <3>1
    <3>2. CASE e \notin X
      <4>1. e \in S \ X /\ Without(s, X) \in Seq(S \ X) BY <1>2, <3>2
      <4> QED BY <2>1, <3>2, <4>1, AddFacts
    <3> QED BY <3>1, <3>2
  <2> QED BY <1>2, <2>1, <2>2, <2>3
<1> HIDE DEF T
<1>3. Seq(S) \subseteq T BY <1>1, <1>2, SeqInduction
<1> QED BY <1>3 DEF T

\* Two sequences, one behind the other.
LEMMA WithoutConcat ==
  ASSUME NEW S, NEW s \in Seq(S), NEW X
  PROVE  \A u \in Seq(S) : Without(s \o u, X) = Without(s, X) \o Without(u, X)
<1> DEFINE T == {u \in Seq(S) : Without(Cat(s, u), X) = Cat(Without(s, X), Without(u, X))}
<1>1. <<>> \in T
  <2>1. <<>> \in Seq(S) OBVIOUS
  <2>2. Without(s, X) \in Seq(S) BY WithoutType
  <2> QED BY <2>1, <2>2, CatFacts, WithoutEmpty
<1>2. ASSUME NEW u \in Seq(S), NEW e \in S, u \in T PROVE Add(u, e) \in T
  <2>1. /\ Cat(s, u) \in Seq(S) /\ Cat(s, Add(u, e)) = Add(Cat(s, u), e) /\ Add(u, e) \in Seq(S)
    BY AddFacts, CatAdd, CatFacts
  <2>2. Without(Add(Cat(s, u), e), X) =
          IF e \in X THEN Without(Cat(s, u), X) ELSE Add(Without(Cat(s, u), X), e)
    BY <2>1, WithoutAppend
  <2>3. /\ Without(s, X) \in Seq(S) /\ Without(u, X) \in Seq(S)
        /\ Without(Add(u, e), X) = IF e \in X THEN Without(u, X) ELSE Add(Without(u, X), e)
    BY WithoutAppend
  <2>4. Cat(Without(s, X), Add(Without(u, X), e)) = Add(Cat(Without(s, X), Without(u, X)), e)
    BY <2>3, CatAdd
  <2> QED BY <1>2, <2>1, <2>2, <2>3, <2>4
<1> HIDE DEF T
<1>3. Seq(S) \subseteq T BY <1>1, <1>2, SeqInduction
<1> QED BY <1>3 DEF T, Cat

\* What goes in two rounds may go in one, and only what is there matters.
LEMMA WithoutTwice ==
  ASSUME NEW S, NEW X, NEW Y
  PROVE  \A s \in Seq(S) : Without(Without(s, X), Y) = Without(s, X \cup Y)
<1> DEFINE T == {s \in Seq(S) : Without(Without(s, X), Y) = Without(s, X \cup Y)}
<1>1. <<>> \in T BY WithoutEmpty
<1>2. ASSUME NEW s \in Seq(S), NEW e \in S, s \in T PROVE Add(s, e) \in T
  <2>1. Without(Add(s, e), X) = IF e \in X THEN Without(s, X) ELSE Add(Without(s, X), e)
    BY WithoutAppend
  <2>5. Without(s, X) \in Seq(S) BY WithoutAppend
  <2>2. Without(Add(Without(s, X), e), Y) =
          IF e \in Y THEN Without(Without(s, X), Y) ELSE Add(Without(Without(s, X), Y), e)
    BY <2>5, WithoutAppend
  <2>3. Without(Add(s, e), X \cup Y) =
          IF e \in X \cup Y THEN Without(s, X \cup Y) ELSE Add(Without(s, X \cup Y), e)
    BY WithoutAppend
  <2>4. Add(s, e) \in Seq(S) BY AddFacts
  <2> QED BY <1>2, <2>1, <2>2, <2>3, <2>4
<1> HIDE DEF T
<1>3. Seq(S) \subseteq T BY <1>1, <1>2, SeqInduction
<1> QED BY <1>3 DEF T

\* Two sets that agree on the elements of a sequence leave the same of it.
LEMMA WithoutSame ==
  ASSUME NEW S, NEW X, NEW Y, \A e \in S : e \in X <=> e \in Y
  PROVE  \A s \in Seq(S) : Without(s, X) = Without(s, Y)
<1> DEFINE T == {s \in Seq(S) : Without(s, X) = Without(s, Y)}
<1>1. <<>> \in T BY WithoutEmpty
<1>2. ASSUME NEW s \in Seq(S), NEW e \in S, s \in T PROVE Add(s, e) \in T
  <2>1. Without(Add(s, e), X) = IF e \in X THEN Without(s, X) ELSE Add(Without(s, X), e)
    BY WithoutAppend
  <2>2. Without(Add(s, e), Y) = IF e \in Y THEN Without(s, Y) ELSE Add(Without(s, Y), e)
    BY WithoutAppend
  <2>3. Add(s, e) \in Seq(S) BY AddFacts
  <2> QED BY <1>2, <2>1, <2>2, <2>3
<1> HIDE DEF T
<1>3. Seq(S) \subseteq T BY <1>1, <1>2, SeqInduction
<1> QED BY <1>3 DEF T

-----------------------------------------------------------------------------
\* The parser keeps to its states, and does not forget that it has read headers.
LEMMA ParseFacts ==
  ASSUME response \in Responses, NEW p \in ParserStates, NEW token \in Tokens
  PROVE  Parse(p, token) \in ParserStates /\ (p.headers => Parse(p, token).headers)
<1> DEFINE data == [p EXCEPT !.body = Append(@, token)]
<1>1. response.length \in Int BY ResponsesAssumption
<1>2. /\ p.at \in {"none", "start", "fields", "size", "data", "counted", "open"} /\ p.left \in Int
      /\ p.headers \in BOOLEAN /\ p.body \in Seq(Tokens) /\ p.bad \in BOOLEAN
  BY DEF ParserStates
<1>3. Append(p.body, token) \in Seq(Tokens) BY <1>2
<1>4. data \in ParserStates /\ data.headers = p.headers /\ data.left = p.left /\ data.at = p.at
  BY <1>2, <1>3 DEF ParserStates
<1>5. AfterHeader \in {"size", "open", "start", "counted"} BY DEF AfterHeader
<1> HIDE DEF data
<1>6. [p EXCEPT !.at = "fields"] \in ParserStates /\ [p EXCEPT !.at = "fields"].headers = p.headers
  BY <1>2 DEF ParserStates
<1>7. [p EXCEPT !.at = AfterHeader, !.headers = TRUE, !.left = response.length] \in ParserStates
      /\ [p EXCEPT !.at = AfterHeader, !.headers = TRUE, !.left = response.length].headers
  BY <1>1, <1>2, <1>5 DEF ParserStates
<1>8. [p EXCEPT !.at = "data"] \in ParserStates /\ [p EXCEPT !.at = "data"].headers = p.headers
  BY <1>2 DEF ParserStates
<1>9. [p EXCEPT !.at = "start"] \in ParserStates /\ [p EXCEPT !.at = "start"].headers = p.headers
  BY <1>2 DEF ParserStates
<1>10. [data EXCEPT !.at = "size"] \in ParserStates /\ [data EXCEPT !.at = "size"].headers = p.headers
  BY <1>4 DEF ParserStates
<1>11. \A at \in {"start", "counted"} :
         /\ [data EXCEPT !.left = @ - 1, !.at = at] \in ParserStates
         /\ [data EXCEPT !.left = @ - 1, !.at = at].headers = p.headers
  <2> SUFFICES ASSUME NEW at \in {"start", "counted"}
               PROVE  /\ [data EXCEPT !.left = @ - 1, !.at = at] \in ParserStates
                      /\ [data EXCEPT !.left = @ - 1, !.at = at].headers = p.headers
    OBVIOUS
  <2>1. PICK k \in Int : k = data.left - 1 BY <1>2, <1>4
  <2>2. [data EXCEPT !.left = k, !.at = at] \in ParserStates BY <1>4 DEF ParserStates
  <2>3. [data EXCEPT !.left = k, !.at = at].headers = p.headers BY <1>4 DEF ParserStates
  <2> QED BY <2>1, <2>2, <2>3
<1>12. p.at = "counted" =>
         \E at \in {"start", "counted"} :
           [data EXCEPT !.left = @ - 1, !.at = IF p.left = 1 THEN "start" ELSE @]
             = [data EXCEPT !.left = @ - 1, !.at = at]
  BY <1>4 DEF ParserStates
<1>13. [p EXCEPT !.bad = TRUE] \in ParserStates /\ [p EXCEPT !.bad = TRUE].headers = p.headers
  BY <1>2 DEF ParserStates
<1> QED
  BY <1>4, <1>6, <1>7, <1>8, <1>9, <1>10, <1>11, <1>12, <1>13 DEF Parse, data

\* The recursive function inside Execute.
RunOf(p, chunk) ==
  CHOOSE run : run = [n \in 0..Len(chunk) |-> IF n = 0 THEN p ELSE Parse(run[n - 1], chunk[n])]

\* It is there, so that Execute feeds the parser one token after the other.
LEMMA RunFacts ==
  ASSUME response \in Responses, NEW p \in ParserStates, NEW chunk \in Seq(Tokens)
  PROVE  /\ Execute(p, chunk) = RunOf(p, chunk)[Len(chunk)]
         /\ RunOf(p, chunk) \in [0..Len(chunk) -> ParserStates]
         /\ RunOf(p, chunk)[0] = p
         /\ \A n \in 1..Len(chunk) : RunOf(p, chunk)[n] = Parse(RunOf(p, chunk)[n - 1], chunk[n])
<1>1. PICK l \in Nat : l = Len(chunk) OBVIOUS
<1> DEFINE step == [pair \in (1..l) \X ParserStates |-> Parse(pair[2], chunk[pair[1]])]
<1>2. step \in [(1..l) \X ParserStates -> ParserStates]
  <2> SUFFICES ASSUME NEW pair \in (1..l) \X ParserStates PROVE step[pair] \in ParserStates OBVIOUS
  <2>1. pair[1] \in 1..l /\ pair[2] \in ParserStates /\ chunk[pair[1]] \in Tokens BY <1>1
  <2>2. Parse(pair[2], chunk[pair[1]]) \in ParserStates BY <2>1, ParseFacts
  <2> QED BY <2>2
<1>3. \A n \in 1..l, q \in ParserStates : step[<<n, q>>] = Parse(q, chunk[n]) OBVIOUS
<1> HIDE DEF step
<1>4. PICK f : Runs(f, ParserStates, l, p, step) BY <1>2, RecursionExists
<1>5. /\ f \in [0..l -> ParserStates] /\ f[0] = p
      /\ \A n \in 1..l : f[n] = Parse(f[n - 1], chunk[n])
  <2>1. f \in [0..l -> ParserStates] /\ f[0] = p BY <1>4 DEF Runs
  <2>2. ASSUME NEW n \in 1..l PROVE f[n] = Parse(f[n - 1], chunk[n])
    <3>1. f[n - 1] \in ParserStates BY <2>1
    <3>2. f[n] = step[<<n, f[n - 1]>>] BY <1>4 DEF Runs
    <3> QED BY <1>3, <3>1, <3>2
  <2> QED BY <2>1, <2>2
<1>6. f = [n \in 0..Len(chunk) |-> IF n = 0 THEN p ELSE Parse(f[n - 1], chunk[n])]
  <2> DEFINE h == [n \in 0..Len(chunk) |-> IF n = 0 THEN p ELSE Parse(f[n - 1], chunk[n])]
  <2>1. f = [n \in 0..l |-> f[n]] BY <1>5
  <2>2. ASSUME NEW n \in 0..l PROVE f[n] = h[n]
    <3>1. CASE n = 0 BY <1>1, <1>5, <3>1
    <3>2. CASE n \in 1..l
      <4>1. h[n] = Parse(f[n - 1], chunk[n]) BY <1>1, <3>2
      <4> HIDE DEF h
      <4> QED BY <1>5, <3>2, <4>1
    <3> QED BY <3>1, <3>2
  <2>3. h = [n \in 0..l |-> h[n]] BY <1>1
  <2> HIDE DEF h
  <2>4. f = h BY <2>1, <2>2, <2>3
  <2> QED BY <2>4 DEF h
<1>7. RunOf(p, chunk) =
        [n \in 0..Len(chunk) |-> IF n = 0 THEN p ELSE Parse(RunOf(p, chunk)[n - 1], chunk[n])]
  BY <1>6 DEF RunOf
<1>8. Execute(p, chunk) = RunOf(p, chunk)[Len(chunk)] BY DEF Execute, RunOf
<1> DEFINE g == RunOf(p, chunk)
           h == [n \in 0..l |-> IF n = 0 THEN p ELSE Parse(g[n - 1], chunk[n])]
<1> HIDE DEF g
<1>9. /\ g = [n \in 0..l |-> g[n]] /\ g[0] = p
      /\ \A n \in 1..l : g[n] = Parse(g[n - 1], chunk[n])
  <2>1. g = h BY <1>1, <1>7 DEF g
  <2>2. /\ h = [n \in 0..l |-> h[n]] /\ h[0] = p
        /\ \A n \in 1..l : h[n] = Parse(g[n - 1], chunk[n])
    OBVIOUS
  <2> HIDE DEF h
  <2> QED BY <2>1, <2>2
<1> HIDE DEF h
<1>10. \A n \in 0..l : f[n] = g[n]
  <2>1. \A n \in 1..l : f[n - 1] = g[n - 1] => f[n] = g[n] BY <1>5, <1>9
  <2>2. f[0] = g[0] BY <1>5, <1>9
  <2> QED BY <2>1, <2>2, RecursionAgrees
<1>11. g \in [0..l -> ParserStates]
  <2>1. g = [n \in 0..l |-> g[n]] BY <1>9
  <2>2. \A n \in 0..l : g[n] \in ParserStates BY <1>5, <1>10
  <2> QED BY <2>1, <2>2
<1> QED BY <1>1, <1>8, <1>9, <1>11 DEF g

\* A chunk that is one token longer.
LEMMA ExecuteAdd ==
  ASSUME response \in Responses, NEW p \in ParserStates, NEW chunk \in Seq(Tokens), NEW token \in Tokens
  PROVE  Execute(p, Add(chunk, token)) = Parse(Execute(p, chunk), token)
<1>1. PICK l \in Nat : l = Len(chunk) OBVIOUS
<1> DEFINE more == Add(chunk, token)
           f == RunOf(p, chunk)
           g == RunOf(p, more)
<1>2. /\ more \in Seq(Tokens) /\ Len(more) = l + 1 /\ more[l + 1] = token
      /\ \A n \in 1..l : more[n] = chunk[n]
  BY <1>1, AddFacts
<1> HIDE DEF more
<1>3. /\ Execute(p, chunk) = f[l] /\ f[0] = p
      /\ \A n \in 1..l : f[n] = Parse(f[n - 1], chunk[n])
  BY <1>1, RunFacts
<1>4. /\ Execute(p, more) = g[l + 1] /\ g[0] = p
      /\ \A n \in 1..(l + 1) : g[n] = Parse(g[n - 1], more[n])
  <2>1. /\ Execute(p, more) = RunOf(p, more)[Len(more)] /\ RunOf(p, more)[0] = p
        /\ \A n \in 1..Len(more) : RunOf(p, more)[n] = Parse(RunOf(p, more)[n - 1], more[n])
    BY <1>2, RunFacts
  <2> QED BY <1>2, <2>1
<1> HIDE DEF f, g
<1>5. \A n \in 1..l : g[n] = Parse(g[n - 1], chunk[n]) BY <1>2, <1>4
<1>6. \A n \in 0..l : f[n] = g[n]
  <2>1. \A n \in 1..l : f[n - 1] = g[n - 1] => f[n] = g[n] BY <1>3, <1>5
  <2>2. f[0] = g[0] BY <1>3, <1>4
  <2> QED BY <2>1, <2>2, RecursionAgrees
<1>7. g[l + 1] = Parse(g[l], token)
  <2>1. l + 1 \in 1..(l + 1) /\ (l + 1) - 1 = l OBVIOUS
  <2> QED BY <1>2, <1>4, <2>1
<1> QED BY <1>3, <1>4, <1>6, <1>7 DEF more

\* No token leaves the parser as it is.
LEMMA ExecuteEmpty ==
  ASSUME response \in Responses, NEW p \in ParserStates
  PROVE  Execute(p, <<>>) = p
<1>1. <<>> \in Seq(Tokens) /\ Len(<<>>) = 0 OBVIOUS
<1>2. ASSUME NEW chunk \in Seq(Tokens), Len(chunk) = 0 PROVE Execute(p, chunk) = p
  <2>1. Execute(p, chunk) = RunOf(p, chunk)[Len(chunk)] /\ RunOf(p, chunk)[0] = p BY RunFacts
  <2> QED BY <1>2, <2>1
<1> QED BY <1>1, <1>2

\* What holds of one token holds of a chunk.
LEMMA ExecuteFacts ==
  ASSUME response \in Responses, NEW p \in ParserStates
  PROVE  \A chunk \in Seq(Tokens) :
           Execute(p, chunk) \in ParserStates /\ (p.headers => Execute(p, chunk).headers)
<1> DEFINE T == {chunk \in Seq(Tokens) :
                   Execute(p, chunk) \in ParserStates /\ (p.headers => Execute(p, chunk).headers)}
<1>1. <<>> \in T
  <2>1. <<>> \in Seq(Tokens) OBVIOUS
  <2> QED BY <2>1, ExecuteEmpty
<1>2. ASSUME NEW chunk \in Seq(Tokens), NEW token \in Tokens, chunk \in T PROVE Add(chunk, token) \in T
  <2>1. Add(chunk, token) \in Seq(Tokens) BY AddFacts
  <2>2. Execute(p, Add(chunk, token)) = Parse(Execute(p, chunk), token) BY ExecuteAdd
  <2>3. Execute(p, chunk) \in ParserStates /\ (p.headers => Execute(p, chunk).headers) BY <1>2
  <2> HIDE DEF T
  <2>4. /\ Parse(Execute(p, chunk), token) \in ParserStates
        /\ Execute(p, chunk).headers => Parse(Execute(p, chunk), token).headers
    BY <2>3, ParseFacts
  <2> QED BY <2>1, <2>2, <2>3, <2>4 DEF T
<1> HIDE DEF T
<1>3. Seq(Tokens) \subseteq T BY <1>1, <1>2, SeqInduction
<1> QED BY <1>3 DEF T

-----------------------------------------------------------------------------
\* Two fields of ours behind fields that are not named like either.
LEMMA TwoWithout ==
  ASSUME NEW S, NEW kept \in Seq(S), NEW a \in S, NEW b \in S, NEW D, ToSet(kept) \subseteq D
  PROVE  Without(kept \o <<a, b>>, D) =
           IF a \in D THEN IF b \in D THEN <<>> ELSE <<b>>
           ELSE IF b \in D THEN <<a>> ELSE <<a, b>>
<1>1. kept \in Seq(ToSet(kept)) BY DEF ToSet
<1>2. Without(kept, D) = <<>> BY <1>1, WithoutFacts
<1>3. <<>> \in Seq(S) /\ <<a>> \in Seq(S) /\ <<b>> \in Seq(S) /\ <<a, b>> \in Seq(S) OBVIOUS
<1>4. PICK none, one, other, pair : none = <<>> /\ one = <<a>> /\ other = <<b>> /\ pair = <<a, b>>
  OBVIOUS
<1>5. none \in Seq(S) /\ one \in Seq(S) /\ other \in Seq(S) /\ pair \in Seq(S) BY <1>3, <1>4
<1>6. /\ Len(none) = 0 /\ Len(one) = 1 /\ one[1] = a /\ Len(other) = 1 /\ other[1] = b
      /\ Len(pair) = 2 /\ pair[1] = a /\ pair[2] = b
  BY <1>4
<1>7. Add(none, a) = one BY <1>4, <1>5, <1>6, AddToNone
<1>8. Add(none, b) = other BY <1>4, <1>5, <1>6, AddToNone
<1>9. Add(one, b) = pair BY <1>4, <1>5, <1>6, AddToOne
<1>10. Without(none, D) = none BY <1>4, WithoutEmpty
<1>11. Without(one, D) = IF a \in D THEN none ELSE one
  <2>1. Without(Add(none, a), D) = IF a \in D THEN Without(none, D) ELSE Add(Without(none, D), a)
    BY <1>5, WithoutAppend
  <2> QED BY <1>7, <1>10, <2>1
<1>12. Without(pair, D) = IF b \in D THEN Without(one, D) ELSE Add(Without(one, D), b)
  <2>1. Without(Add(one, b), D) = IF b \in D THEN Without(one, D) ELSE Add(Without(one, D), b)
    BY <1>5, WithoutAppend
  <2> QED BY <1>9, <2>1
<1>13. Without(pair, D) = IF a \in D THEN IF b \in D THEN none ELSE other
                          ELSE IF b \in D THEN one ELSE pair
  BY <1>8, <1>9, <1>11, <1>12
<1>14. Without(kept \o pair, D) = Without(kept, D) \o Without(pair, D)
  <2>1. kept \in Seq(S) OBVIOUS
  <2>2. \A u \in Seq(S) : Without(kept \o u, D) = Without(kept, D) \o Without(u, D)
    BY <2>1, WithoutConcat
  <2> QED BY <1>5, <2>2
<1>15. \A u \in Seq(S) : <<>> \o u = u OBVIOUS
<1>16. Without(pair, D) \in Seq(S) BY <1>5, <1>13
<1>17. Without(kept \o pair, D) = Without(pair, D) BY <1>2, <1>14, <1>15, <1>16
<1> QED BY <1>4, <1>13, <1>17

\* The header of an encoded response names one transfer encoding, the one
\* content encoding the request accepts and no length, and is otherwise that of
\* the response.
LEMMA OwnHeaderReadable ==
  ASSUME response \in Responses, MayEncode
  PROVE  /\ OwnHeader \in Seq(ToSet(response.fields) \cup
                {<<"Transfer-Encoding", "chunked">>, <<"Content-Encoding", request.accepts>>})
         /\ OwnHeader # <<>>
         /\ ValuesOf(OwnHeader, "Content-Length") = <<>>
         /\ ValuesOf(OwnHeader, "Transfer-Encoding") = <<"chunked">>
         /\ ValuesOf(OwnHeader, "Content-Encoding") = <<request.accepts>>
         /\ Without(OwnHeader, Named(OwnHeader, OwnFields))
              = Without(response.fields, Named(response.fields, OwnFields))
<1> DEFINE fields == response.fields
           te == <<"Transfer-Encoding", "chunked">>
           ce == <<"Content-Encoding", request.accepts>>
           F == ToSet(fields)
           dropped == Named(fields, {"Transfer-Encoding", "Content-Length"})
           kept == Without(fields, dropped)
           h == kept \o <<te, ce>>
           S == F \cup {te, ce}
<1>1. fields \in Seq(F) BY ResponsesAssumption
<1>2. OwnHeader = h BY DEF OwnHeader, CreateHTTPResponseHeader
<1>3. te[1] = "Transfer-Encoding" /\ te[2] = "chunked" /\ ce[1] = "Content-Encoding" /\ ce[2] = request.accepts
  OBVIOUS
<1>4. \A e \in F : e[1] # "Content-Encoding" BY DEF MayEncode, CompactHeaders
<1>5. \A e \in F \ dropped : e[1] # "Transfer-Encoding" /\ e[1] # "Content-Length" BY DEF Named
<1>6. kept \in Seq(F \ dropped) BY <1>1, WithoutFacts
<1> HIDE DEF te, ce, kept, F
<1>7. ToSet(kept) \subseteq F \ dropped BY <1>6 DEF ToSet
<1>8. kept \in Seq(S) /\ te \in S /\ ce \in S BY <1>6
<1>9. h \in Seq(S) /\ h # <<>> /\ ToSet(h) = ToSet(kept) \cup {te, ce}
  <2>1. PICK l \in Nat : l = Len(kept) BY <1>8
  <2>2. /\ h \in Seq(S) /\ DOMAIN h = 1..(l + 2) /\ h[l + 1] = te /\ h[l + 2] = ce
        /\ DOMAIN kept = 1..l /\ \A i \in 1..l : h[i] = kept[i]
    BY <1>8, <2>1
  <2> HIDE DEF h
  <2>3. h # <<>> BY <2>2
  <2>4. ToSet(h) \subseteq ToSet(kept) \cup {te, ce} BY <2>2 DEF ToSet
  <2>5. ToSet(kept) \subseteq ToSet(h) BY <2>2 DEF ToSet
  <2>6. te \in ToSet(h) /\ ce \in ToSet(h)
    <3>1. l + 1 \in 1..(l + 2) /\ l + 2 \in 1..(l + 2) OBVIOUS
    <3> QED BY <2>2, <3>1 DEF ToSet
  <2> QED BY <2>2, <2>3, <2>4, <2>5, <2>6
<1>10. \A D : ToSet(kept) \subseteq D =>
         Without(h, D) = IF te \in D THEN IF ce \in D THEN <<>> ELSE <<ce>>
                         ELSE IF ce \in D THEN <<te>> ELSE <<te, ce>>
  BY <1>8, TwoWithout
<1> DEFINE others(name) == ToSet(h) \ Named(h, {name})
<1>11. \A name : others(name) = {e \in ToSet(kept) \cup {te, ce} : e[1] # name} BY <1>9 DEF Named
<1> HIDE DEF h
<1>12. \A name \in {"Content-Length", "Transfer-Encoding", "Content-Encoding"} :
         ToSet(kept) \subseteq others(name)
  BY <1>4, <1>5, <1>7, <1>11
<1>13. ValuesOf(h, "Content-Length") = <<>>
  <2>1. te \in others("Content-Length") /\ ce \in others("Content-Length") BY <1>3, <1>11
  <2>2. Without(h, others("Content-Length")) = <<>> BY <1>10, <1>12, <2>1
  <2>3. PICK none : none = Without(h, others("Content-Length")) OBVIOUS
  <2>4. ValuesOf(h, "Content-Length") = [i \in DOMAIN none |-> none[i][2]] BY <2>3 DEF ValuesOf
  <2>5. DOMAIN none = {} /\ DOMAIN <<>> = {} BY <2>2, <2>3
  <2>6. [i \in {} |-> none[i][2]] = <<>> OBVIOUS
  <2> QED BY <2>4, <2>5, <2>6
<1>14. ValuesOf(h, "Transfer-Encoding") = <<"chunked">>
  <2>1. te \notin others("Transfer-Encoding") /\ ce \in others("Transfer-Encoding") BY <1>3, <1>11
  <2>2. Without(h, others("Transfer-Encoding")) = <<te>> BY <1>10, <1>12, <2>1
  <2> QED BY <1>3, <2>2 DEF ValuesOf
<1>15. ValuesOf(h, "Content-Encoding") = <<request.accepts>>
  <2>1. te \in others("Content-Encoding") /\ ce \notin others("Content-Encoding") BY <1>3, <1>11
  <2>2. Without(h, others("Content-Encoding")) = <<ce>> BY <1>10, <1>12, <2>1
  <2> QED BY <1>3, <2>2 DEF ValuesOf
<1>16. Without(h, Named(h, OwnFields)) = Without(fields, Named(fields, OwnFields))
  <2> DEFINE N == Named(h, OwnFields)
  <2>1. N = {te, ce}
    <3>1. \A e \in ToSet(kept) : e[1] \notin OwnFields BY <1>4, <1>5, <1>7 DEF OwnFields
    <3> QED BY <1>3, <1>9, <3>1 DEF Named, OwnFields
  <2> HIDE DEF N
  <2>2. PICK pair : pair = <<te, ce>> OBVIOUS
  <2>3. pair \in Seq({te, ce}) /\ pair \in Seq(S) BY <1>8, <2>2
  <2>4. Without(pair, N) = <<>> BY <2>1, <2>3, WithoutFacts
  <2>5. Without(h, N) = Without(kept, N)
    <3>1. h = kept \o pair BY <2>2 DEF h
    <3>2. Without(kept \o pair, N) = Without(kept, N) \o Without(pair, N)
      BY <1>8, <2>3, WithoutConcat
    <3>3. Without(kept, N) \in Seq(S) BY <1>8, WithoutType
    <3>4. \A u \in Seq(S) : u \o <<>> = u OBVIOUS
    <3> QED BY <2>4, <3>1, <3>2, <3>3, <3>4
  <2>6. Without(kept, N) = Without(fields, dropped \cup N) BY <1>1, WithoutTwice DEF kept
  <2>7. \A e \in F : e \in dropped \cup N <=> e \in Named(fields, OwnFields)
    BY <1>3, <1>4, <2>1 DEF Named, OwnFields, F
  <2>8. Without(fields, dropped \cup N) = Without(fields, Named(fields, OwnFields))
    BY <1>1, <2>7, WithoutSame
  <2> QED BY <2>5, <2>6, <2>8 DEF N
<1> QED BY <1>2, <1>9, <1>13, <1>14, <1>15, <1>16 DEF te, ce, F
-----------------------------------------------------------------------------
\* What the local server sends are tokens.
LEMMA ChunkType ==
  ASSUME response \in Responses, got \in 0..Len(response.wire),
         NEW n \in (got + 1)..Len(response.wire)
  PROVE  SubSeq(response.wire, got + 1, n) \in Seq(Tokens) /\ n \in 0..Len(response.wire)
<1>1. response.wire \in Seq(ToSet(response.wire)) BY ResponsesAssumption
<1>2. ToSet(response.wire) \subseteq Tokens BY DEF Tokens
<1> DEFINE wire == response.wire
<1> HIDE DEF wire
<1>3. PICK l \in Nat : l = Len(wire) BY <1>1 DEF wire
<1>4. wire \in Seq(Tokens)
  <2>1. \A i \in 1..l : wire[i] \in ToSet(wire) BY <1>1, <1>3 DEF wire
  <2>2. \A i \in 1..l : wire[i] \in Tokens BY <1>2, <2>1 DEF wire
  <2> QED BY <1>1, <1>3, <2>2 DEF wire
<1>5. n \in 1..l /\ got + 1 \in 1..l BY <1>3 DEF wire
<1> QED BY <1>3, <1>4, <1>5 DEF wire

\* The parsers there are without a response.
LEMMA NoResponseYet ==
  NewParser \in ParserStates /\ NoParser \in ParserStates /\ ~NoParser.headers
<1>1. PICK none \in Seq(Tokens) : none = <<>>
  <2>1. <<>> \in Seq(Tokens) OBVIOUS
  <2> QED BY <2>1
<1>2. NewParser = [at |-> "start", left |-> 0, headers |-> FALSE, body |-> none, bad |-> FALSE]
  BY <1>1 DEF NewParser
<1>3. NewParser \in ParserStates /\ NewParser.headers = FALSE BY <1>2 DEF ParserStates
<1>4. PICK p \in ParserStates : p = NewParser BY <1>3
<1>5. [p EXCEPT !.at = "none"] \in ParserStates /\ [p EXCEPT !.at = "none"].headers = p.headers
  BY DEF ParserStates
<1> QED BY <1>3, <1>4, <1>5 DEF NoParser

\* The header of ours is one of the headers that may come out.
LEMMA OwnHeaderType ==
  ASSUME request \in Requests, response \in Responses, MayEncode
  PROVE  OwnHeader \in Seq(Fields) /\ OwnHeader # <<>>
<1> DEFINE te == <<"Transfer-Encoding", "chunked">>
           ce == <<"Content-Encoding", request.accepts>>
           S == ToSet(response.fields) \cup {te, ce}
<1>1. OwnHeader \in Seq(S) /\ OwnHeader # <<>> BY OwnHeaderReadable
<1>2. S \subseteq Fields
  <2>1. ToSet(response.fields) \subseteq ReceivedFields BY DEF ReceivedFields
  <2>2. te \in ChunkedFields BY DEF ChunkedFields
  <2>3. ce \in EncodingFields BY DEF EncodingFields
  <2> HIDE DEF te, ce
  <2> QED BY <2>1, <2>2, <2>3 DEF Fields
<1> HIDE DEF S
<1>3. PICK h \in Seq(S) : h = OwnHeader BY <1>1
<1>4. h \in Seq(Fields) BY <1>2
<1> QED BY <1>1, <1>3, <1>4

\* Nothing has come, and nothing has gone out.
LEMMA InitIInv == Init => IInv
<1> SUFFICES ASSUME Init PROVE IInv OBVIOUS
<1> USE DEF Init
<1>1. TypeOK
  <2>1. response.wire \in Seq(ToSet(response.wire)) BY ResponsesAssumption
  <2>2. got \in 0..Len(response.wire) BY <2>1
  <2>3. {ended, injected, closed, crashed} \subseteq BOOLEAN OBVIOUS
  <2> QED BY <2>2, <2>3 DEF TypeOK
<1>2. DataOK
  <2>1. buf \in Seq(Tokens) /\ held \in Seq(Tokens) /\ header \in Seq(Fields) /\ out \in Seq(Records)
    OBVIOUS
  <2> QED BY <2>1, NoResponseYet DEF DataOK
<1>3. WriterKnows /\ OwnHeaderPending /\ PassedOn /\ Encoded
  BY DEF WriterKnows, OwnHeaderPending, PassedOn, Encoded
<1> QED BY <1>1, <1>2, <1>3 DEF IInv

\* A writer passes on what it has, through the pipe as it is after the call.
\* _maybeEncode may have built the pipe by then.
LEMMA WriterStep ==
  ASSUME IInv, ~ended, UNCHANGED <<requesting, response, ended, closed, crashed>>,
         got' \in 0..Len(response.wire), mode' \in {"raw", "http"}, parser' \in ParserStates,
         mode' = "http" => parser'.headers /\ injected', buf' = <<>>,
         \/ UNCHANGED <<injected, header>>
         \/ mode = "undecided" /\ injected' /\ injected' \in BOOLEAN /\ MayEncode /\ header' = OwnHeader,
         NEW data \in Seq(Tokens), Write(data)
  PROVE  IInv'
<1> USE DEF IInv, requesting
<1>1. ~closed /\ ~closed' BY DEF WriterKnows
<1>2. injected \in BOOLEAN /\ injected' \in BOOLEAN BY DEF TypeOK
<1>3. MayEncode' <=> MayEncode BY DEF MayEncode, CompactHeaders, ValuesOf
<1>4. OwnHeader' = OwnHeader BY DEF OwnHeader, CreateHTTPResponseHeader
<1>5. held \o data \in Seq(Tokens) BY DEF DataOK
<1>6. Append(out, Raw(data)) \in Seq(Records)
  <2>1. Raw(data) \in Records
    <3>1. <<>> \in Seq(Fields) OBVIOUS
    <3> QED BY <3>1 DEF Raw, Records
  <2> QED BY <2>1 DEF DataOK
<1>7. held' \in Seq(Tokens) /\ out' \in Seq(Records) BY <1>5, <1>6 DEF Write, DataOK
<1>8. header' \in Seq(Fields) BY OwnHeaderType DEF TypeOK, DataOK
<1>9. DataOK' BY <1>7, <1>8 DEF DataOK
<1>10. held' # <<>> => injected' BY <1>2 DEF Write, TypeOK
<1>11. header' # <<>> => injected' BY <1>2 DEF TypeOK
<1>12. TypeOK'
  <2>1. parser' # NoParser \/ mode' # "http" BY NoResponseYet
  <2>2. {ended, injected, closed, crashed}' \subseteq BOOLEAN BY <1>2 DEF TypeOK
  <2> QED BY <1>1, <1>10, <1>11, <2>1, <2>2 DEF TypeOK
<1>13. WriterKnows' BY <1>1 DEF WriterKnows
<1>14. OwnHeaderPending'
  <2>1. injected' => MayEncode BY DEF OwnHeaderPending
  <2>2. header' # <<>> => header' = OwnHeader /\ out' = <<>>
    BY <1>11 DEF OwnHeaderPending, WriterKnows, Write
  <2>3. injected' /\ out' = <<>> => header' # <<>>
    BY OwnHeaderType DEF OwnHeaderPending, WriterKnows, Write, TypeOK
  <2> QED BY <1>3, <1>4, <2>1, <2>2, <2>3 DEF OwnHeaderPending
<1>15. PassedOn'
  <2> SUFFICES ASSUME ~injected' PROVE \A i \in DOMAIN out' : out'[i].kind = "raw" BY DEF PassedOn
  <2>1. \A i \in DOMAIN out : out[i].kind = "raw" BY DEF PassedOn
  <2>2. CASE out' = out BY <2>1, <2>2
  <2>3. CASE out' = Append(out, Raw(data))
    <3>1. PICK l \in Nat : l = Len(out) BY DEF DataOK
    <3>2. /\ DOMAIN out = 1..l /\ DOMAIN out' = 1..(l + 1) /\ out'[l + 1] = Raw(data)
          /\ \A i \in 1..l : out'[i] = out[i]
      BY <2>3, <3>1 DEF DataOK
    <3>3. Raw(data).kind = "raw" BY DEF Raw
    <3> QED BY <2>1, <3>2, <3>3
  <2> QED BY <2>2, <2>3 DEF Write
<1>16. Encoded'
  <2> SUFFICES ASSUME injected', out' # <<>> 
               PROVE  /\ Len(out') >= 2
                      /\ out'[1] = Header(OwnHeader)
                      /\ \A i \in 2..Len(out') : out'[i].kind = "chunk"
    BY <1>1, <1>4 DEF Encoded
  <2>1. out' = out BY DEF Write
  <2>2. injected BY <2>1 DEF WriterKnows
  <2> QED BY <1>1, <2>1, <2>2 DEF Encoded
<1> QED BY <1>9, <1>12, <1>13, <1>14, <1>15, <1>16
\* One token after the other goes through the parser, which is a new one for
\* the first chunk, and what it has read of the body is taken from it.
LEMMA ParserStep ==
  ASSUME response \in Responses, NEW p \in ParserStates, NEW chunk \in Seq(Tokens)
  PROVE  /\ Execute(p, chunk) \in ParserStates
         /\ p.headers => Execute(p, chunk).headers
         /\ Execute(p, chunk).body \in Seq(Tokens)
         /\ [Execute(p, chunk) EXCEPT !.body = <<>>] \in ParserStates
         /\ [Execute(p, chunk) EXCEPT !.body = <<>>].headers = Execute(p, chunk).headers
<1>1. PICK q \in ParserStates : q = Execute(p, chunk) /\ (p.headers => q.headers) BY ExecuteFacts
<1>2. <<>> \in Seq(Tokens) OBVIOUS
<1>3. [q EXCEPT !.body = <<>>] \in ParserStates /\ [q EXCEPT !.body = <<>>].headers = q.headers
  BY <1>2 DEF ParserStates
<1>4. q.body \in Seq(Tokens) BY DEF ParserStates
<1> QED BY <1>1, <1>3, <1>4

\* _maybeEncode: while it cannot decide it holds everything back; then it passes on
\* what it held as it is, or builds the pipe with its own header in front.
LEMMA MaybeEncodeStep ==
  ASSUME IInv, ~ended, UNCHANGED <<requesting, response, ended, closed, crashed>>,
         got' \in 0..Len(response.wire), mode = "undecided",
         NEW chunk \in Seq(Tokens), MaybeEncode(chunk)
  PROVE  IInv'
<1> DEFINE p0 == IF parser = NoParser THEN NewParser ELSE parser
           p == Execute(p0, chunk)
<1>1. response \in Responses /\ p0 \in ParserStates BY NoResponseYet DEF IInv, TypeOK, DataOK
<1>2. /\ p \in ParserStates /\ p.body \in Seq(Tokens) /\ [p EXCEPT !.body = <<>>] \in ParserStates
      /\ [p EXCEPT !.body = <<>>].headers = p.headers
  BY <1>1, ParserStep
<1>3. p.headers \in BOOLEAN BY <1>2 DEF ParserStates
<1>4. buf \o chunk \in Seq(Tokens) BY DEF IInv, DataOK
<1> HIDE DEF p, p0
<1>5. CASE SwitchToRawWriter(chunk)
  BY <1>5, NoResponseYet, WriterStep DEF SwitchToRawWriter
<1>6. CASE SwitchToRawWriter(buf \o chunk)
  BY <1>4, <1>6, NoResponseYet, WriterStep DEF SwitchToRawWriter
<1>7. CASE /\ supported # "none" /\ p.headers /\ ShouldEncode(CompactHeaders(response.fields))
           /\ injected' = TRUE /\ header' = CreateHTTPResponseHeader(response.fields, supported)
           /\ parser' = [p EXCEPT !.body = <<>>] /\ SwitchToHTTPWriter(p.body)
  <2>1. supported = request.accepts BY <1>7 DEF IInv, TypeOK
  <2>2. MayEncode BY <1>7, <2>1 DEF MayEncode, ShouldEncode
  <2>3. header' = OwnHeader BY <1>7, <2>1 DEF OwnHeader
  <2>4. parser' \in ParserStates /\ parser'.headers BY <1>2, <1>3, <1>7
  <2>5. mode' = "http" /\ buf' = <<>> /\ Write(p.body) BY <1>7 DEF SwitchToHTTPWriter
  <2>6. injected' /\ injected' \in BOOLEAN BY <1>7
  <2> QED BY <1>2, <2>2, <2>3, <2>4, <2>5, <2>6, WriterStep
<1>8. CASE buf' = buf \o chunk /\ parser' = p /\ UNCHANGED <<mode, injected, header, held, out>>
  <2> USE DEF IInv, requesting
  <2>1. TypeOK' BY <1>8 DEF TypeOK
  <2>2. DataOK' BY <1>2, <1>4, <1>8 DEF DataOK
  <2>3. WriterKnows' BY <1>8 DEF WriterKnows
  <2>4. OwnHeaderPending'
    BY <1>8 DEF OwnHeaderPending, MayEncode, CompactHeaders, ValuesOf, OwnHeader, CreateHTTPResponseHeader
  <2>5. PassedOn' BY <1>8 DEF PassedOn
  <2>6. Encoded' BY <1>8 DEF Encoded, OwnHeader, CreateHTTPResponseHeader
  <2> QED BY <2>1, <2>2, <2>3, <2>4, <2>5, <2>6
<1> QED BY <1>5, <1>6, <1>7, <1>8 DEF MaybeEncode, p, p0

\* _writeHTTPData: the parser has its header, so the pipe is there to write to.
LEMMA WriteHTTPDataStep ==
  ASSUME IInv, ~ended, UNCHANGED <<requesting, response, ended, closed, crashed>>,
         got' \in 0..Len(response.wire), mode = "http",
         NEW chunk \in Seq(Tokens), WriteHTTPData(chunk)
  PROVE  IInv'
<1> DEFINE p == Execute(parser, chunk)
<1>1. response \in Responses /\ parser \in ParserStates /\ parser.headers /\ injected /\ buf = <<>>
  BY DEF IInv, TypeOK, DataOK, WriterKnows
<1>2. /\ p.headers /\ p.body \in Seq(Tokens) /\ [p EXCEPT !.body = <<>>] \in ParserStates
      /\ [p EXCEPT !.body = <<>>].headers = p.headers
  BY <1>1, ParserStep
<1> HIDE DEF p
<1>3. CASE SwitchToRawWriter(chunk)
  BY <1>3, NoResponseYet, WriterStep DEF SwitchToRawWriter
<1>4. CASE /\ parser' = [p EXCEPT !.body = <<>>] /\ UNCHANGED <<mode, buf, injected, header>>
           /\ Write(p.body)
  <2>1. parser' \in ParserStates /\ parser'.headers BY <1>2, <1>4
  <2> QED BY <1>1, <1>2, <1>4, <2>1, WriterStep
<1> QED BY <1>3, <1>4 DEF WriteHTTPData, p

\* _writeRawData: through whatever pipe there is.
LEMMA WriteRawDataStep ==
  ASSUME IInv, ~ended, UNCHANGED <<requesting, response, ended, closed, crashed>>,
         got' \in 0..Len(response.wire), mode = "raw",
         NEW chunk \in Seq(Tokens), WriteRawData(chunk)
  PROVE  IInv'
<1>1. buf' = <<>> /\ mode' = "raw" /\ parser' \in ParserStates
  BY DEF WriteRawData, IInv, TypeOK, DataOK
<1> QED BY <1>1, WriterStep DEF WriteRawData

\* A chunk of the local server meets one of the three writers.
LEMMA ResponseChunkStep == ASSUME IInv, ResponseChunk PROVE IInv'
<1>1. PICK n \in (got + 1)..Len(response.wire) :
        /\ got' = n
        /\ \/ mode = "undecided" /\ MaybeEncode(SubSeq(response.wire, got + 1, n))
           \/ mode = "http" /\ WriteHTTPData(SubSeq(response.wire, got + 1, n))
           \/ mode = "raw" /\ WriteRawData(SubSeq(response.wire, got + 1, n))
  BY DEF ResponseChunk
<1>2. ~ended /\ UNCHANGED <<requesting, response, ended, closed, crashed>> BY DEF ResponseChunk
<1>3. SubSeq(response.wire, got + 1, n) \in Seq(Tokens) /\ got' \in 0..Len(response.wire)
  BY <1>1, ChunkType DEF IInv, TypeOK
<1> QED BY <1>1, <1>2, <1>3, MaybeEncodeStep, WriteHTTPDataStep, WriteRawDataStep
-----------------------------------------------------------------------------
\* What has left the ChunkedOutputStream, with its header if that is still due.
LEMMA HeadedFacts ==
  ASSUME IInv, injected, ~closed
  PROVE  /\ out \o DueHeader \in Seq(Records)
         /\ \E m \in Nat : /\ m >= 1 /\ Len(out \o DueHeader) = m
                           /\ (out \o DueHeader)[1] = Header(OwnHeader)
                           /\ \A i \in 2..m : (out \o DueHeader)[i].kind = "chunk"
<1> DEFINE front == out \o DueHeader
<1>1. out \in Seq(Records) /\ header \in Seq(Fields) BY DEF IInv, DataOK
<1>2. CASE out = <<>>
  <2>1. header # <<>> /\ header = OwnHeader BY <1>2 DEF IInv, OwnHeaderPending
  <2> DEFINE own == Header(header)
  <2>2. own \in Records
    <3>1. <<>> \in Seq(Tokens) OBVIOUS
    <3> QED BY <1>1, <3>1 DEF Header, Records
  <2> HIDE DEF own
  <2>3. front = <<own>> BY <1>2, <2>1 DEF DueHeader, own
  <2>4. front \in Seq(Records) /\ Len(front) = 1 /\ front[1] = own BY <2>2, <2>3
  <2> HIDE DEF front
  <2>5. own = Header(OwnHeader) BY <2>1 DEF own
  <2>6. 1 \in Nat /\ 1 >= 1 /\ \A i \in 2..1 : front[i].kind = "chunk" OBVIOUS
  <2> QED BY <2>4, <2>5, <2>6 DEF front
<1>3. CASE out # <<>>
  <2>1. header = <<>> BY <1>3 DEF IInv, OwnHeaderPending
  <2>2. front = out
    <3>1. front = out \o <<>> BY <2>1 DEF DueHeader
    <3> QED BY <1>1, <3>1
  <2>3. PICK l \in Nat : l = Len(out) BY <1>1
  <2>4. l >= 2 /\ out[1] = Header(OwnHeader) /\ \A i \in 2..l : out[i].kind = "chunk"
    BY <1>3, <2>3 DEF IInv, Encoded
  <2> HIDE DEF front
  <2>5. /\ front \in Seq(Records) /\ l >= 1 /\ Len(front) = l /\ front[1] = Header(OwnHeader)
        /\ \A i \in 2..l : front[i].kind = "chunk"
    BY <1>1, <2>2, <2>3, <2>4
  <2> QED BY <2>5 DEF front
<1> QED BY <1>2, <1>3

\* And what it writes behind that.
LEMMA EmittedFacts ==
  ASSUME IInv, injected, ~closed, NEW tail \in Seq(Records), Len(tail) >= 1
  PROVE  \A all : all = out \o DueHeader \o tail =>
           /\ all \in Seq(Records)
           /\ \E m \in Nat :
                /\ m >= 1 /\ Len(all) = m + Len(tail)
                /\ all[1] = Header(OwnHeader)
                /\ \A i \in 2..m : all[i].kind = "chunk"
                /\ \A j \in 1..Len(tail) : all[m + j] = tail[j]
<1> DEFINE front == out \o DueHeader
<1>1. PICK m \in Nat : /\ front \in Seq(Records) /\ m >= 1 /\ Len(front) = m
                       /\ front[1] = Header(OwnHeader)
                       /\ \A i \in 2..m : front[i].kind = "chunk"
  BY HeadedFacts
<1> HIDE DEF front
<1>2. PICK k \in Nat : k = Len(tail) OBVIOUS
<1>3. /\ front \o tail \in Seq(Records) /\ Len(front \o tail) = m + k
      /\ \A i \in 1..m : (front \o tail)[i] = front[i]
      /\ \A j \in 1..k : (front \o tail)[m + j] = tail[j]
  BY <1>1, <1>2
<1>4. PICK both : both = front \o tail OBVIOUS
<1>5. both[1] = Header(OwnHeader) BY <1>1, <1>3, <1>4
<1>6. \A i \in 2..m : both[i].kind = "chunk" BY <1>1, <1>3, <1>4
<1>7. m >= 1 /\ Len(both) = m + Len(tail) /\ \A j \in 1..Len(tail) : both[m + j] = tail[j]
  BY <1>1, <1>2, <1>3, <1>4
<1>8. both \in Seq(Records) BY <1>3, <1>4
<1>9. out \o DueHeader \o tail = both BY <1>4 DEF front
<1> QED BY <1>5, <1>6, <1>7, <1>8, <1>9

\* The records that come behind the header.
LEMMA RecordTypes ==
  ASSUME NEW data \in Seq(Tokens)
  PROVE  Chunk(data) \in Records /\ LastChunk \in Records
<1>1. <<>> \in Seq(Tokens) /\ <<>> \in Seq(Fields) OBVIOUS
<1> QED BY <1>1 DEF Chunk, LastChunk, Records

\* The compressor lets data go: the header of ours once, and first, then chunks.
LEMMA DeflateStep == ASSUME IInv, Deflate PROVE IInv'
<1>1. PICK n \in 0..Len(held) :
        /\ held' = SubSeq(held, n + 1, Len(held))
        /\ out' = out \o DueHeader \o <<Chunk(SubSeq(held, 1, n))>>
  BY DEF Deflate
<1>2. /\ held # <<>> /\ ~closed /\ header' = <<>>
      /\ UNCHANGED <<request, pieces, supported, response, got, ended, mode, parser, buf, injected,
                     closed, crashed>>
  BY DEF Deflate, requesting
<1>3. injected BY <1>2 DEF IInv, TypeOK
<1>4. held' \in Seq(Tokens) /\ SubSeq(held, 1, n) \in Seq(Tokens)
  <2>1. held \in Seq(Tokens) BY DEF IInv, DataOK
  <2>2. PICK l \in Nat : l = Len(held) BY <2>1
  <2> QED BY <1>1, <2>1, <2>2
<1>5. PICK c \in Records : c = Chunk(SubSeq(held, 1, n)) BY <1>4, RecordTypes
<1>6. c.kind = "chunk" BY <1>5 DEF Chunk
<1>7. PICK tail \in Seq(Records) : tail = <<c>>
  <2>1. <<c>> \in Seq(Records) OBVIOUS
  <2> QED BY <2>1
<1>8. Len(tail) = 1 /\ Len(tail) >= 1 /\ tail[1] = c BY <1>7
<1>9. out' = out \o DueHeader \o tail BY <1>1, <1>5, <1>7
<1>10. PICK m \in Nat :
         /\ m >= 1 /\ Len(out') = m + Len(tail) /\ out'[1] = Header(OwnHeader)
         /\ \A i \in 2..m : out'[i].kind = "chunk"
         /\ \A j \in 1..Len(tail) : out'[m + j] = tail[j]
  BY <1>2, <1>3, <1>8, <1>9, EmittedFacts
<1>11. out' \in Seq(Records) BY <1>2, <1>3, <1>8, <1>9, EmittedFacts
<1> USE DEF IInv
<1>12. Len(out') = m + 1 /\ out'[m + 1].kind = "chunk" /\ out' # <<>>
  <2>1. Len(out') = m + 1 /\ out'[m + 1] = c BY <1>8, <1>10
  <2> QED BY <1>6, <1>11, <2>1
<1>13. MayEncode' <=> MayEncode BY <1>2 DEF MayEncode, CompactHeaders, ValuesOf
<1>14. OwnHeader' = OwnHeader BY <1>2 DEF OwnHeader, CreateHTTPResponseHeader
<1>15. TypeOK'
  <2>1. {ended, injected, closed, crashed}' \subseteq BOOLEAN BY <1>2 DEF TypeOK
  <2> QED BY <1>2, <1>3, <2>1 DEF TypeOK
<1>16. DataOK'
  <2>1. header' \in Seq(Fields) BY <1>2
  <2> QED BY <1>2, <1>4, <1>11, <2>1 DEF DataOK
<1>17. WriterKnows' BY <1>2, <1>3 DEF WriterKnows
<1>18. OwnHeaderPending' BY <1>2, <1>12, <1>13 DEF OwnHeaderPending
<1>19. PassedOn' BY <1>2, <1>3 DEF PassedOn
<1>20. Encoded'
  <2>1. \A i \in 2..(m + 1) : out'[i].kind = "chunk" BY <1>10, <1>12
  <2> QED BY <1>2, <1>10, <1>12, <1>14, <2>1 DEF Encoded
<1> QED BY <1>15, <1>16, <1>17, <1>18, <1>19, <1>20

\* At the end the rest and the last chunk come, behind the header of ours.
LEMMA OutputEndsStep == ASSUME IInv, OutputEnds PROVE IInv'
<1>1. /\ ended /\ ~closed
      /\ UNCHANGED <<request, pieces, supported, response, got, ended, mode, parser, buf, injected>>
  BY DEF OutputEnds, requesting
<1>2. MayEncode' <=> MayEncode BY <1>1 DEF MayEncode, CompactHeaders, ValuesOf
<1>3. OwnHeader' = OwnHeader BY <1>1 DEF OwnHeader, CreateHTTPResponseHeader
<1>4. CASE crashed' = TRUE /\ UNCHANGED <<header, held, out, closed>>
  <2> USE DEF IInv
  <2>1. {ended, injected, closed, crashed}' \subseteq BOOLEAN BY <1>1, <1>4 DEF TypeOK
  <2>2. TypeOK' BY <1>1, <1>4, <2>1 DEF TypeOK
  <2>3. DataOK' /\ WriterKnows' BY <1>1, <1>4 DEF DataOK, WriterKnows
  <2>4. OwnHeaderPending' BY <1>1, <1>2, <1>3, <1>4 DEF OwnHeaderPending
  <2>5. PassedOn' BY <1>1, <1>4 DEF PassedOn
  <2>6. Encoded' BY <1>1, <1>3, <1>4 DEF Encoded
  <2> QED BY <2>2, <2>3, <2>4, <2>5, <2>6
<1>5. CASE /\ closed' = TRUE /\ header' = <<>> /\ held' = <<>> /\ UNCHANGED crashed
           /\ out' = IF injected THEN out \o DueHeader \o <<Chunk(held), LastChunk>> ELSE out
  <2>1. TypeOK'
    <3>1. {ended, injected, closed, crashed}' \subseteq BOOLEAN BY <1>1, <1>5 DEF IInv, TypeOK
    <3> QED BY <1>1, <1>5, <3>1 DEF IInv, TypeOK
  <2>2. header' \in Seq(Fields) /\ held' \in Seq(Tokens) BY <1>5
  <2>3. CASE injected
    <3>1. PICK c \in Records, e \in Records : c = Chunk(held) /\ e = LastChunk
      BY RecordTypes DEF IInv, DataOK
    <3>2. c.kind = "chunk" /\ e.kind = "last" BY <3>1 DEF Chunk, LastChunk
    <3>3. PICK tail \in Seq(Records) : tail = <<c, e>>
      <4>1. <<c, e>> \in Seq(Records) OBVIOUS
      <4> QED BY <4>1
    <3>4. Len(tail) = 2 /\ Len(tail) >= 1 /\ tail[1] = c /\ tail[2] = e BY <3>3
    <3>5. out' = out \o DueHeader \o tail BY <1>5, <2>3, <3>1, <3>3
    <3>6. PICK m \in Nat :
            /\ m >= 1 /\ Len(out') = m + Len(tail) /\ out'[1] = Header(OwnHeader)
            /\ \A i \in 2..m : out'[i].kind = "chunk"
            /\ \A j \in 1..Len(tail) : out'[m + j] = tail[j]
      BY <1>1, <2>3, <3>4, <3>5, EmittedFacts
    <3>7. out' \in Seq(Records) BY <1>1, <2>3, <3>4, <3>5, EmittedFacts
    <3> USE DEF IInv
    <3>8. Len(out') = m + 2 /\ out'[m + 1].kind = "chunk" /\ out'[m + 2].kind = "last"
      BY <3>2, <3>4, <3>6
    <3>9. out' # <<>> BY <3>7, <3>8
    <3>10. DataOK' BY <1>1, <2>2, <3>7 DEF DataOK
    <3>11. WriterKnows' BY <1>1, <2>3 DEF WriterKnows
    <3>12. OwnHeaderPending' BY <1>1, <1>2, <1>5, <3>9 DEF OwnHeaderPending
    <3>13. PassedOn' BY <1>1, <2>3 DEF PassedOn
    <3>14. \A i \in 2..(m + 2) : out'[i].kind = IF i = m + 2 THEN "last" ELSE "chunk"
      BY <3>6, <3>8
    <3>15. Encoded' BY <1>3, <1>5, <3>6, <3>8, <3>14 DEF Encoded
    <3> QED BY <2>1, <3>10, <3>11, <3>12, <3>13, <3>15
  <2>4. CASE ~injected
    <3> USE DEF IInv
    <3>1. out' = out /\ ~injected' BY <1>1, <1>5, <2>4
    <3>2. DataOK' BY <1>1, <2>2, <3>1 DEF DataOK
    <3>3. WriterKnows' BY <1>1, <3>1 DEF WriterKnows
    <3>4. OwnHeaderPending' /\ Encoded' BY <1>5, <3>1 DEF OwnHeaderPending, Encoded
    <3>5. PassedOn' BY <2>4, <3>1 DEF PassedOn
    <3> QED BY <2>1, <3>2, <3>3, <3>4, <3>5
  <2> QED BY <2>3, <2>4
<1> QED BY <1>4, <1>5 DEF OutputEnds

\* The request and the end of the local connection touch nothing of the output.
LEMMA OthersStep == ASSUME IInv, RequestPiece \/ LocalEnds \/ UNCHANGED vars PROVE IInv'
<1> USE DEF IInv
<1>1. /\ UNCHANGED <<request, response, got, mode, parser, buf, injected, header, held, out,
                     closed, crashed>>
      /\ pieces' \in 0..2 /\ supported' \in {"none", request.accepts}
      /\ ended' \in BOOLEAN /\ (ended => ended')
  <2>1. CASE RequestPiece BY <2>1 DEF RequestPiece, encoding, TypeOK
  <2>2. CASE LocalEnds BY <2>2 DEF LocalEnds, requesting, encoding, TypeOK
  <2>3. CASE UNCHANGED vars BY <2>3 DEF vars, requesting, encoding, TypeOK
  <2> QED BY <2>1, <2>2, <2>3
<1>2. TypeOK'
  <2>1. {ended, injected, closed, crashed}' \subseteq BOOLEAN BY <1>1 DEF TypeOK
  <2> QED BY <1>1, <2>1 DEF TypeOK
<1>3. DataOK' /\ WriterKnows' BY <1>1 DEF DataOK, WriterKnows
<1>4. MayEncode' <=> MayEncode BY <1>1 DEF MayEncode, CompactHeaders, ValuesOf
<1>5. OwnHeader' = OwnHeader BY <1>1 DEF OwnHeader, CreateHTTPResponseHeader
<1>6. OwnHeaderPending' BY <1>1, <1>4, <1>5 DEF OwnHeaderPending
<1>7. PassedOn' BY <1>1 DEF PassedOn
<1>8. Encoded' BY <1>1, <1>5 DEF Encoded
<1> QED BY <1>2, <1>3, <1>6, <1>7, <1>8

\* No step leaves the inductive invariant.
THEOREM NextIInv == IInv /\ [Next]_vars => IInv'
<1> SUFFICES ASSUME IInv, [Next]_vars PROVE IInv' OBVIOUS
<1> QED BY ResponseChunkStep, DeflateStep, OutputEndsStep, OthersStep DEF Next, Finished

\* It holds in every state of every behaviour of the stream.
THEOREM Invariance == Spec => []IInv
BY InitIInv, NextIInv, PTL DEF Spec

\* Data is held back only while it is undecided where it goes, a header only in
\* front of the compressor, and an ended pipe is empty.
THEOREM TypeCorrect == Spec => []TypeOK
<1>1. IInv => TypeOK BY DEF IInv
<1> QED BY <1>1, Invariance, PTL

\* The response comes out as it was, or as one header of ours, chunks and the
\* last chunk, and that header tells the browser how to read it.
LEMMA ReadableByIInv == IInv => OutputReadable
<1> SUFFICES ASSUME IInv PROVE OutputReadable OBVIOUS
<1>1. out \in Seq(Records) BY DEF IInv, DataOK
<1>2. PICK l \in Nat : l = Len(out) BY <1>1
<1>3. DOMAIN out = 1..l BY <1>1, <1>2
<1>4. PICK kinds : kinds = Kinds OBVIOUS
<1>5. DOMAIN kinds = 1..l /\ \A i \in 1..l : kinds[i] = out[i].kind BY <1>3, <1>4 DEF Kinds
<1>6. CASE \A i \in 1..l : out[i].kind = "raw"
  <2>1. ToSet(kinds) \subseteq {"raw"} BY <1>5, <1>6 DEF ToSet
  <2> QED BY <1>3, <1>4, <1>5, <1>6, <2>1 DEF OutputReadable
<1>7. CASE injected /\ out # <<>>
  <2>1. /\ l >= 2 /\ out[1] = Header(OwnHeader)
        /\ \A i \in 2..l : out[i].kind = IF closed /\ i = l THEN "last" ELSE "chunk"
    BY <1>2, <1>7 DEF IInv, Encoded
  <2>2. Len(kinds) = l BY <1>5
  <2>3. Header(OwnHeader).kind = "header" /\ Header(OwnHeader).fields = OwnHeader BY DEF Header
  <2>4. kinds[1] = "header" BY <1>5, <2>1, <2>3
  <2>5. \A i \in 2..(l - 1) : kinds[i] = "chunk" BY <1>5, <2>1
  <2>6. kinds[l] = IF closed THEN "last" ELSE "chunk" BY <1>5, <2>1
  <2>7. Last(kinds) = IF closed THEN "last" ELSE "chunk" BY <2>2, <2>6 DEF Last
  <2>8. \A i \in 1..l : kinds[i] = "header" => out[i].fields = OwnHeader BY <1>5, <2>1, <2>3
  <2>9. MayEncode /\ response \in Responses BY <1>7 DEF IInv, OwnHeaderPending, TypeOK
  <2>10. request.accepts # "none" BY <2>9 DEF MayEncode
  <2> QED BY <1>2, <1>3, <1>4, <2>4, <2>5, <2>7, <2>8, <2>9, <2>10, OwnHeaderReadable DEF OutputReadable
<1>8. out = <<>> => l = 0 BY <1>2
<1>9. ~injected => \A i \in 1..l : out[i].kind = "raw" BY <1>3 DEF IInv, PassedOn
<1> QED BY <1>6, <1>7, <1>8, <1>9, 1..0 = {} DEF IInv

\* For every request and every response, whole or cut off, in whatever chunks
\* it comes and whenever the compressor lets its data go.
THEOREM OutputIsReadable == Spec => []OutputReadable
BY Invariance, ReadableByIInv, PTL
=============================================================================
