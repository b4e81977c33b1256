--------------------------- MODULE GzipPipeProofs ---------------------------
(***************************************************************************)
(* That the gzip stream is a Pipe: whichever writers take the chunks of a  *)
(* response, and whatever the compressor holds back meanwhile, the         *)
(* receiver reads what the local server said, for every request and for    *)
(* every response that ends with its body.                                 *)
(***************************************************************************)
EXTENDS GzipProofs

\* What a receiver reads is made of tokens of the wire, and of the header that
\* one of ours stands for.
Said == Tokens \cup {"h1", "h2"}
OfHeader == <<"h1", "h2">>
ReadFrom(records) == FlattenSeq([i \in DOMAIN records |-> Read(records[i])])

\* Sequences of tokens are sequences of what is said.
LEMMA TokensAreSaid ==
  /\ <<>> \in Seq(Said) /\ OfHeader \in Seq(Said)
  /\ \A s \in Seq(Tokens) : s \in Seq(Said)
<1>1. \A W, V : W \subseteq V => \A s \in Seq(W) : s \in Seq(V) OBVIOUS
<1>2. Tokens \subseteq Said /\ "h1" \in Said /\ "h2" \in Said BY DEF Said
<1>3. OfHeader \in Seq(Said)
  <2>1. \A W : \A a, b \in W : <<a, b>> \in Seq(W) OBVIOUS
  <2> QED BY <1>2, <2>1 DEF OfHeader
<1>4. <<>> \in Seq(Said) OBVIOUS
<1> QED BY <1>1, <1>2, <1>3, <1>4

\* The content of a piece of the wire.
LEMMA ContentFacts ==
  ASSUME NEW a \in Seq(Tokens)
  PROVE  /\ Content(a) \in Seq(Said) /\ Content(<<>>) = <<>>
         /\ \A b \in Seq(Tokens) : Content(Cat(a, b)) = Cat(Content(a), Content(b))
         /\ (\A i \in 1..Len(a) : a[i] \notin {"size", "last"}) => Content(a) = a
<1>1. Content(a) \in Seq(Said) BY WithoutType, TokensAreSaid DEF Content
<1>2. Content(<<>>) = <<>> BY WithoutEmpty DEF Content
<1>3. ASSUME NEW b \in Seq(Tokens) PROVE Content(Cat(a, b)) = Cat(Content(a), Content(b))
  BY WithoutConcat DEF Content, Cat
<1>4. ASSUME \A i \in 1..Len(a) : a[i] \notin {"size", "last"} PROVE Content(a) = a
  <2> DEFINE W == Tokens \ {"size", "last"}
  <2>1. a \in Seq(W)
    <3>1. PICK l \in Nat : l = Len(a) OBVIOUS
    <3>2. \A i \in 1..l : a[i] \in W BY <1>4, <3>1
    <3> HIDE DEF W
    <3> QED BY <3>1, <3>2
  <2>2. W \cap {"size", "last"} = {} OBVIOUS
  <2> HIDE DEF W
  <2> QED BY <2>1, <2>2, WithoutFacts DEF Content
<1> QED BY <1>1, <1>2, <1>3, <1>4

\* What is read from one record.
LEMMA ReadFacts ==
  /\ \A r \in Records : Read(r) \in Seq(Said)
  /\ \A data \in Seq(Tokens) : Read(Raw(data)) = Content(data) /\ Read(Chunk(data)) = data
  /\ \A fields \in Seq(Fields) : Read(Header(fields)) = OfHeader
  /\ Read(LastChunk) = <<>>
<1>1. ASSUME NEW r \in Records PROVE Read(r) \in Seq(Said)
  <2>1. r.data \in Seq(Tokens) BY DEF Records
  <2> QED BY <2>1, ContentFacts, TokensAreSaid DEF Read, OfHeader
<1> QED BY <1>1 DEF Read, Raw, Chunk, Header, LastChunk, OfHeader

\* A record more is read behind the others.
LEMMA ReadAdd ==
  ASSUME NEW o \in Seq(Records), NEW r \in Records
  PROVE  /\ ReadFrom(o) \in Seq(Said)
         /\ ReadFrom(Add(o, r)) = Cat(ReadFrom(o), Read(r))
<1>1. PICK l \in Nat : l = Len(o) OBVIOUS
<1> DEFINE more == Add(o, r)
           all == [i \in 1..l |-> Read(o[i])]
<1>2. /\ more \in Seq(Records) /\ Len(more) = l + 1 /\ more[l + 1] = r
      /\ \A i \in 1..l : more[i] = o[i]
  BY <1>1, AddFacts
<1> HIDE DEF more
<1>3. DOMAIN o = 1..l /\ DOMAIN more = 1..(l + 1) BY <1>1, <1>2
<1>4. all \in Seq(Seq(Said)) /\ Len(all) = l /\ \A i \in 1..l : all[i] = Read(o[i])
  <2>1. \A i \in 1..l : Read(o[i]) \in Seq(Said) BY <1>1, ReadFacts
  <2>2. \A W, f : f \in [1..l -> W] => f \in Seq(W) /\ Len(f) = l OBVIOUS
  <2>3. all \in [1..l -> Seq(Said)] BY <2>1
  <2> QED BY <2>2, <2>3
<1> DEFINE next == [i \in 1..(l + 1) |-> Read(more[i])]
<1>5. next \in Seq(Seq(Said)) /\ Len(next) = l + 1 /\ \A i \in 1..(l + 1) : next[i] = Read(more[i])
  <2>1. \A i \in 1..(l + 1) : Read(more[i]) \in Seq(Said) BY <1>2, ReadFacts
  <2>2. \A W, f : f \in [1..(l + 1) -> W] => f \in Seq(W) /\ Len(f) = l + 1 OBVIOUS
  <2>3. next \in [1..(l + 1) -> Seq(Said)] BY <2>1
  <2> QED BY <2>2, <2>3
<1>6. ReadFrom(o) = FlattenSeq(all) /\ ReadFrom(more) = FlattenSeq(next) BY <1>3 DEF ReadFrom
<1> HIDE DEF all, next
<1>7. PICK s \in Seq(Said) : s = Read(r) BY ReadFacts
<1>8. next = Add(all, s)
  <2>1. /\ Add(all, s) \in Seq(Seq(Said)) /\ Len(Add(all, s)) = l + 1 /\ Add(all, s)[l + 1] = s
        /\ \A i \in 1..l : Add(all, s)[i] = all[i]
    <3>1. PICK W : W = Seq(Said) OBVIOUS
    <3>2. all \in Seq(W) /\ s \in W BY <1>4, <3>1
    <3>3. /\ Add(all, s) \in Seq(W) /\ Len(Add(all, s)) = Len(all) + 1 /\ Add(all, s)[Len(all) + 1] = s
          /\ \A i \in 1..Len(all) : Add(all, s)[i] = all[i]
      BY <3>2, AddFacts
    <3> QED BY <1>4, <3>1, <3>3
  <2>2. \A i \in 1..(l + 1) : next[i] = Add(all, s)[i] BY <1>2, <1>4, <1>5, <1>7, <2>1
  <2> QED BY <1>5, <2>1, <2>2, SameElements
<1>9. FlattenSeq(all) \in Seq(Said) /\ FlattenSeq(Add(all, s)) = Cat(FlattenSeq(all), s)
  BY <1>4, FlattenAdd
<1> QED BY <1>6, <1>7, <1>8, <1>9 DEF more

\* Nothing is read from nothing.
LEMMA ReadNone == ReadFrom(<<>>) = <<>>
<1>1. [i \in DOMAIN <<>> |-> Read(<<>>[i])] = <<>> OBVIOUS
<1>2. FlattenSeq(<<>>) = <<>> BY DEF FlattenSeq
<1> QED BY <1>1, <1>2 DEF ReadFrom

-----------------------------------------------------------------------------
\* Where a parser stands that has read n tokens of the wire, in a response that
\* may be encoded.
Wire == response.wire
Encodable == ShouldEncode(CompactHeaders(response.fields))
InStep(p, n) ==
  /\ p.headers <=> n >= 2
  /\ n = 0 => p.at = "start"
  /\ n = 1 => p.at = "fields"
  /\ n >= 1 => Wire[1] = "h1"
  /\ n >= 2 => Wire[2] = "h2"
  /\ n >= 2 /\ ~IsChunked(response) => p.at \in {"counted", "start", "open"}
  /\ n >= 2 /\ IsChunked(response) =>
       \/ Wire[n] = "size" /\ p.at = "data"
       \/ Wire[n] = "last" /\ p.at = "start"
       \/ Wire[n] \notin {"size", "last"} /\ p.at = "size"

\* The wire is a sequence of tokens.
LEMMA WireType ==
  ASSUME response \in Responses
  PROVE  /\ Wire \in Seq(Tokens) /\ Len(Wire) \in Nat /\ DOMAIN Wire = 1..Len(Wire)
         /\ \A i \in 1..Len(Wire) : Wire[i] \in Tokens
<1>1. Wire \in Seq(ToSet(Wire)) BY ResponsesAssumption DEF Wire
<1>2. ToSet(Wire) \subseteq Tokens BY DEF Tokens, Wire
<1>3. PICK l \in Nat : l = Len(Wire) BY <1>1
<1>4. \A i \in 1..l : Wire[i] \in Tokens BY <1>1, <1>2, <1>3
<1> QED BY <1>1, <1>3, <1>4

\* A token more: the parser is bad from then on, or has taken it for what it
\* is.  In a chunked body it is never bad.
LEMMA ParseInStep ==
  ASSUME response \in Responses, EndsWithBody(response), Encodable,
         NEW p \in ParserStates, NEW n \in 0..(Len(Wire) - 1), InStep(p, n), ~p.bad
  PROVE  LET q == Parse(p, Wire[n + 1])
         IN /\ q.bad \/ InStep(q, n + 1)
            /\ IsChunked(response) /\ n >= 2 => ~q.bad
            /\ ~q.bad => q.body = IF n < 2 \/ Wire[n + 1] \in {"size", "last"} THEN p.body
                                  ELSE Add(p.body, Wire[n + 1])
<1>1. PICK m \in 1..Len(Wire) : m = n + 1 /\ m - 1 = n BY WireType
<1>2. PICK token \in Tokens : token = Wire[m] BY WireType
<1> DEFINE q == Parse(p, token)
<1> SUFFICES /\ q.bad \/ InStep(q, m)
             /\ IsChunked(response) /\ n >= 2 => ~q.bad
             /\ ~q.bad => q.body = IF n < 2 \/ token \in {"size", "last"} THEN p.body
                                   ELSE Add(p.body, token)
  BY <1>1, <1>2
<1>3. /\ token \in {"h1", "h2"} => m <= 2
      /\ IF IsChunked(response) /\ m > 2
         THEN /\ token \in {"size", "last"} <=> Wire[n] # "size"
              /\ token = "last" => m = Len(Wire)
         ELSE token \notin {"size", "last"}
  BY <1>1, <1>2, WireType DEF EndsWithBody, Encodable, Wire
<1>4. /\ p = [at |-> p.at, left |-> p.left, headers |-> p.headers, body |-> p.body, bad |-> p.bad]
      /\ p.body \in Seq(Tokens)
  BY DEF ParserStates
<1>5. PICK body \in Seq(Tokens) : body = Add(p.body, token) /\ body = Append(p.body, token)
  BY <1>4, AddFacts DEF Add
<1>6. CASE n = 0
  <2>1. p.at = "start" /\ ~p.headers BY <1>6 DEF InStep
  <2>2. CASE token = "h1"
    <3>1. q = [p EXCEPT !.at = "fields"] BY <2>1, <2>2 DEF Parse
    <3>2. q.at = "fields" /\ q.headers = p.headers /\ q.body = p.body /\ q.bad = p.bad BY <1>4, <3>1
    <3> QED BY <1>1, <1>2, <1>6, <2>1, <2>2, <3>2 DEF InStep
  <2>3. CASE token # "h1"
    <3>1. q = [p EXCEPT !.bad = TRUE] BY <2>1, <2>3 DEF Parse
    <3>2. q.bad BY <1>4, <3>1
    <3> QED BY <1>6, <3>2
  <2> QED BY <2>2, <2>3
<1>7. CASE n = 1
  <2>1. p.at = "fields" /\ ~p.headers /\ Wire[1] = "h1" BY <1>7 DEF InStep
  <2>2. CASE token = "h2"
    <3>1. q = [p EXCEPT !.at = AfterHeader, !.headers = TRUE, !.left = response.length]
      BY <2>1, <2>2 DEF Parse
    <3>2. q.at = AfterHeader /\ q.headers = TRUE /\ q.body = p.body /\ q.bad = p.bad BY <1>4, <3>1
    <3>3. AfterHeader \in IF IsChunked(response) THEN {"size"} ELSE {"open", "start", "counted"}
      BY DEF AfterHeader, IsChunked
    <3> QED BY <1>1, <1>2, <1>7, <2>1, <2>2, <3>2, <3>3 DEF InStep
  <2>3. CASE token # "h2"
    <3>1. q = [p EXCEPT !.bad = TRUE] BY <2>1, <2>3 DEF Parse
    <3>2. q.bad BY <1>4, <3>1
    <3> QED BY <1>7, <3>2
  <2> QED BY <2>2, <2>3
<1>8. CASE n >= 2 /\ ~IsChunked(response)
  <2>1. /\ p.at \in {"counted", "start", "open"} /\ p.headers /\ Wire[1] = "h1" /\ Wire[2] = "h2"
        /\ token \notin {"size", "last", "h1", "h2"}
    BY <1>1, <1>3, <1>8 DEF InStep
  <2>2. CASE p.at = "start"
    <3>1. q = [p EXCEPT !.bad = TRUE] BY <2>1, <2>2 DEF Parse
    <3>2. q.bad BY <1>4, <3>1
    <3> QED BY <1>8, <3>2
  <2>3. CASE p.at # "start"
    <3>1. q.body = body /\ q.bad = FALSE /\ q.headers = p.headers /\ q.at \in {"counted", "start", "open"}
      <4>1. CASE p.at = "open"
        <5>1. q = [p EXCEPT !.body = Append(@, token)] BY <4>1 DEF Parse
        <5> QED BY <1>4, <1>5, <4>1, <5>1
      <4>2. CASE p.at = "counted"
        <5>1. q = [[p EXCEPT !.body = Append(@, token)] EXCEPT
                     !.left = @ - 1, !.at = IF p.left = 1 THEN "start" ELSE @]
          BY <4>2 DEF Parse
        <5> QED BY <1>4, <1>5, <4>2, <5>1
      <4> QED BY <2>1, <2>3, <4>1, <4>2
    <3> QED BY <1>1, <1>5, <1>8, <2>1, <3>1 DEF InStep
  <2> QED BY <2>2, <2>3
<1>9. CASE n >= 2 /\ IsChunked(response)
  <2>1. p.headers /\ Wire[1] = "h1" /\ Wire[2] = "h2" BY <1>9 DEF InStep
  <2>2. CASE Wire[n] = "size" /\ p.at = "data"
    <3>1. token \notin {"size", "last"} BY <1>1, <1>3, <1>9, <2>2
    <3>2. q = [[p EXCEPT !.body = Append(@, token)] EXCEPT !.at = "size"] BY <2>2 DEF Parse
    <3>3. q.body = body /\ q.bad = FALSE /\ q.headers = p.headers /\ q.at = "size" BY <1>4, <1>5, <3>2
    <3> QED BY <1>1, <1>2, <1>5, <1>9, <2>1, <3>1, <3>3 DEF InStep
  <2>3. CASE Wire[n] = "last" /\ p.at = "start"
    <3>1. CASE n > 2
      <4>1. n \in 1..Len(Wire) BY <1>1, <1>9
      <4>2. n = Len(Wire) BY <1>9, <2>3, <3>1, <4>1, WireType DEF EndsWithBody, Encodable, Wire
      <4> QED BY <4>2, WireType
    <3> QED BY <1>9, <2>1, <2>3, <3>1
  <2>4. CASE Wire[n] \notin {"size", "last"} /\ p.at = "size"
    <3>1. token \in {"size", "last"} BY <1>1, <1>3, <1>9, <2>4
    <3>2. q = [p EXCEPT !.at = IF token = "size" THEN "data" ELSE "start"] BY <2>4, <3>1 DEF Parse
    <3>3. /\ q.body = p.body /\ q.bad = FALSE /\ q.headers = p.headers
          /\ q.at = IF token = "size" THEN "data" ELSE "start"
      BY <1>4, <3>2
    <3> QED BY <1>1, <1>2, <1>9, <2>1, <3>1, <3>3 DEF InStep
  <2> QED BY <1>9, <2>2, <2>3, <2>4 DEF InStep
<1> QED BY <1>1, <1>6, <1>7, <1>8, <1>9

\* What the parser has read so far, behind what was done with before.
Follows(p, n, done) ==
  /\ ~p.bad /\ InStep(p, n)
  /\ n < 2 => p.body = <<>>
  /\ n >= 2 => Cat(done, p.body) = Content(SubSeq(Wire, 1, n))

\* The content of the wire, a token later.
LEMMA ContentNext ==
  ASSUME response \in Responses, NEW n \in 0..(Len(Wire) - 1)
  PROVE  Content(SubSeq(Wire, 1, n + 1)) =
           IF Wire[n + 1] \in {"size", "last"} THEN Content(SubSeq(Wire, 1, n))
           ELSE Add(Content(SubSeq(Wire, 1, n)), Wire[n + 1])
<1>1. PICK m \in 1..Len(Wire), k \in Nat : m = n + 1 /\ k = n /\ k <= Len(Wire) /\ m <= Len(Wire)
  BY WireType
<1>2. PICK token \in Tokens : token = Wire[m] BY WireType
<1> DEFINE a == SubSeq(Wire, 1, k)
           b == SubSeq(Wire, 1, m)
<1>3. a \in Seq(Tokens) /\ Len(a) = k /\ \A i \in 1..k : a[i] = Wire[i] BY <1>1, WireType
<1>4. b \in Seq(Tokens) /\ Len(b) = m /\ \A i \in 1..m : b[i] = Wire[i] BY <1>1, WireType
<1> HIDE DEF a, b
<1>5. /\ Add(a, token) \in Seq(Tokens) /\ Len(Add(a, token)) = k + 1 /\ Add(a, token)[k + 1] = token
      /\ \A i \in 1..k : Add(a, token)[i] = a[i]
  <2>1. /\ Add(a, token) \in Seq(Tokens) /\ Len(Add(a, token)) = Len(a) + 1
        /\ Add(a, token)[Len(a) + 1] = token
        /\ \A i \in 1..Len(a) : Add(a, token)[i] = a[i]
    <3>1. a \in Seq(Tokens) /\ token \in Tokens BY <1>3
    <3> QED BY ONLY <3>1, AddFacts
  <2> QED BY <1>3, <2>1
<1>6. b = Add(a, token)
  <2>1. m = k + 1 BY <1>1
  <2>2. \A i \in 1..m : b[i] = Add(a, token)[i] BY <1>2, <1>3, <1>4, <1>5, <2>1
  <2> QED BY <1>1, <1>4, <1>5, <2>1, <2>2, SameElements
<1>7. Without(Add(a, token), {"size", "last"}) =
        IF token \in {"size", "last"} THEN Without(a, {"size", "last"})
        ELSE Add(Without(a, {"size", "last"}), token)
  BY <1>3, WithoutAppend
<1> QED BY <1>1, <1>2, <1>6, <1>7 DEF a, b, Content

\* A response starts with its header, once that was read.
LEMMA ContentOfHeader ==
  ASSUME response \in Responses, 2 <= Len(Wire), Wire[1] = "h1", Wire[2] = "h2"
  PROVE  Content(SubSeq(Wire, 1, 2)) = OfHeader
<1>1. "h1" \in Tokens /\ "h2" \in Tokens /\ 1 \in 1..Len(Wire) /\ 2 \in 1..Len(Wire) BY WireType
<1> DEFINE a == SubSeq(Wire, 1, 2)
<1>2. a \in Seq(Tokens) /\ Len(a) = 2 /\ a[1] = "h1" /\ a[2] = "h2" BY WireType
<1> HIDE DEF a
<1>3. Content(a) = a BY <1>2, ContentFacts
<1>4. a = OfHeader
  <2>1. OfHeader \in Seq(Tokens) /\ Len(OfHeader) = 2 /\ OfHeader[1] = "h1" /\ OfHeader[2] = "h2"
    BY <1>1 DEF OfHeader
  <2>2. \A i \in 1..2 : a[i] = OfHeader[i] BY <1>2, <2>1
  <2> QED BY <1>2, <2>1, <2>2, SameElements
<1> QED BY <1>3, <1>4 DEF a

\* A token later the parser is bad, or still follows.
LEMMA FollowsNext ==
  ASSUME response \in Responses, EndsWithBody(response), Encodable,
         NEW done \in Seq(Said), NEW p \in ParserStates, NEW n \in 0..(Len(Wire) - 1),
         n < 2 => done = OfHeader, Follows(p, n, done)
  PROVE  LET q == Parse(p, Wire[n + 1])
         IN /\ q.bad \/ Follows(q, n + 1, done)
            /\ IsChunked(response) /\ n >= 2 => ~q.bad
<1>1. PICK m \in 1..Len(Wire) : m = n + 1 BY WireType
<1>2. PICK token \in Tokens : token = Wire[n + 1] BY <1>1, WireType
<1>3. PICK q \in ParserStates : q = Parse(p, token) BY ParseFacts
<1>4. /\ q.bad \/ InStep(q, n + 1)
      /\ IsChunked(response) /\ n >= 2 => ~q.bad
      /\ ~q.bad => q.body = IF n < 2 \/ token \in {"size", "last"} THEN p.body ELSE Add(p.body, token)
  BY <1>2, <1>3, ParseInStep DEF Follows
<1>5. SUFFICES ASSUME ~q.bad PROVE Follows(q, n + 1, done) BY <1>2, <1>3, <1>4
<1>6. CASE n = 0 BY <1>4, <1>5, <1>6 DEF Follows
<1>7. CASE n = 1
  <2>1. q.body = <<>> /\ done = OfHeader /\ InStep(q, 2) BY <1>4, <1>5, <1>7 DEF Follows
  <2>2. Wire[1] = "h1" /\ Wire[2] = "h2" BY <2>1 DEF InStep
  <2>3. Content(SubSeq(Wire, 1, 2)) = OfHeader BY <1>1, <1>7, <2>2, WireType, ContentOfHeader
  <2>4. Cat(OfHeader, <<>>) = OfHeader BY TokensAreSaid, CatFacts
  <2> QED BY <1>5, <1>7, <2>1, <2>3, <2>4 DEF Follows
<1>8. CASE n >= 2
  <2>1. Cat(done, p.body) = Content(SubSeq(Wire, 1, n)) BY <1>8 DEF Follows
  <2>2. Content(SubSeq(Wire, 1, n + 1)) =
          IF token \in {"size", "last"} THEN Content(SubSeq(Wire, 1, n))
          ELSE Add(Content(SubSeq(Wire, 1, n)), token)
    BY <1>2, ContentNext
  <2>3. p.body \in Seq(Said) /\ token \in Said BY TokensAreSaid DEF ParserStates, Said
  <2>4. Cat(done, Add(p.body, token)) = Add(Cat(done, p.body), token) BY <2>3, CatAdd
  <2>5. Cat(done, q.body) = Content(SubSeq(Wire, 1, n + 1)) BY <1>4, <1>5, <1>8, <2>1, <2>2, <2>4
  <2>6. n + 1 >= 2 /\ ~(n + 1 < 2) BY <1>8
  <2> QED BY <1>4, <1>5, <2>5, <2>6 DEF Follows
<1> QED BY <1>6, <1>7, <1>8

\* So at the end of a chunk.
LEMMA ExecuteFollows ==
  ASSUME response \in Responses, EndsWithBody(response), Encodable,
         NEW done \in Seq(Said), NEW p \in ParserStates, NEW g \in Nat, NEW n \in Nat,
         g <= n, n <= Len(Wire), g < 2 => done = OfHeader, Follows(p, g, done)
  PROVE  LET q == Execute(p, SubSeq(Wire, g + 1, n))
         IN /\ q \in ParserStates
            /\ q.bad \/ Follows(q, n, done)
            /\ IsChunked(response) /\ g >= 2 => ~q.bad
<1>1. PICK l \in Nat : l = n - g /\ g + l = n OBVIOUS
<1> DEFINE chunk == SubSeq(Wire, g + 1, n)
           run == RunOf(p, chunk)
<1>2. chunk \in Seq(Tokens) /\ Len(chunk) = l /\ \A i \in 1..l : chunk[i] = Wire[g + i]
  BY <1>1, WireType, CutInTwo
<1> HIDE DEF chunk
<1>3. /\ Execute(p, chunk) = run[l] /\ run \in [0..l -> ParserStates] /\ run[0] = p
      /\ \A i \in 1..l : run[i] = Parse(run[i - 1], chunk[i])
  BY <1>2, RunFacts
<1> HIDE DEF run
<1> DEFINE T == {k \in 0..l : /\ run[k].bad \/ Follows(run[k], g + k, done)
                              /\ IsChunked(response) /\ g >= 2 => ~run[k].bad}
<1>4. 0 \in T BY <1>3 DEF Follows
<1>5. ASSUME NEW k \in 0..(l - 1), k \in T PROVE k + 1 \in T
  <2>1. PICK m \in 1..l : m = k + 1 /\ m - 1 = k OBVIOUS
  <2>2. run[k] \in ParserStates BY <1>3, <2>1
  <2>3. run[m] = Parse(run[k], Wire[g + m]) BY <1>2, <1>3, <2>1
  <2>4. CASE run[k].bad
    <3>1. run[m] = run[k] BY <2>3, <2>4 DEF Parse
    <3> QED BY <1>5, <2>1, <2>4, <3>1
  <2>5. CASE ~run[k].bad
    <3>1. PICK i \in 0..(Len(Wire) - 1) : i = g + k /\ i + 1 = g + m /\ i >= g
      BY <1>1, <2>1, WireType
    <3>2. Follows(run[k], i, done) BY <1>5, <2>5, <3>1
    <3>3. i < 2 => done = OfHeader BY <3>1
    <3>4. /\ Parse(run[k], Wire[i + 1]).bad \/ Follows(Parse(run[k], Wire[i + 1]), i + 1, done)
          /\ IsChunked(response) /\ i >= 2 => ~Parse(run[k], Wire[i + 1]).bad
      BY <2>2, <3>2, <3>3, FollowsNext
    <3>5. /\ run[m].bad \/ Follows(run[m], g + m, done)
          /\ IsChunked(response) /\ g >= 2 => ~run[m].bad
      BY <2>3, <3>1, <3>4
    <3> QED BY <2>1, <3>5
  <2> QED BY <2>4, <2>5
<1> HIDE DEF T
<1>6. 0..l \subseteq T BY <1>4, <1>5, BoundedInduction
<1>7. l \in T BY <1>6
<1> QED BY <1>1, <1>3, <1>7 DEF T, chunk

-----------------------------------------------------------------------------
\* The parser of a writer is never the one that is not there.
LEMMA ParserStays ==
  ASSUME response \in Responses, NEW p \in ParserStates, p.at # "none"
  PROVE  \A chunk \in Seq(Tokens) : Execute(p, chunk).at # "none"
<1> DEFINE T == {chunk \in Seq(Tokens) : Execute(p, chunk).at # "none"}
<1>1. <<>> \in T
  <2>1. <<>> \in Seq(Tokens) OBVIOUS
  <2> QED BY <2>1, ExecuteEmpty
<1>2. ASSUME NEW chunk \in Seq(Tokens), NEW token \in Tokens, chunk \in T PROVE Add(chunk, token) \in T
  <2>1. PICK q \in ParserStates : q = Execute(p, chunk) BY ExecuteFacts
  <2>2. Execute(p, Add(chunk, token)) = Parse(q, token) BY <2>1, ExecuteAdd
  <2>3. q.at # "none" BY <1>2, <2>1
  <2>4. Parse(q, token).at # "none"
    <3>1. q = [at |-> q.at, left |-> q.left, headers |-> q.headers, body |-> q.body, bad |-> q.bad]
      BY DEF ParserStates
    <3>2. AfterHeader # "none" BY DEF AfterHeader
    <3> QED BY <2>3, <3>1, <3>2 DEF Parse
  <2>5. Add(chunk, token) \in Seq(Tokens) BY AddFacts
  <2> QED BY <2>2, <2>4, <2>5
<1> HIDE DEF T
<1>3. Seq(Tokens) \subseteq T BY <1>1, <1>2, SeqInduction
<1> QED BY <1>3 DEF T

\* The inductive invariant, in named parts.  As long as it is undecided where
\* the response goes, all of it is held back; the parser of a response that is
\* encoded is in step with the wire, and has given away what it has read; and
\* what came out, what the compressor has and what is held back are together
\* what the local server said.
KnownLate == supported # "none" => pieces = 2
HeldBack ==
  mode = "undecided" =>
    /\ buf = SubSeq(Wire, 1, got)
    /\ got = 0 => parser = NoParser
    /\ got > 0 => supported # "none" /\ parser.at # "none" /\ ~parser.headers
InTouch ==
  Encodable /\ mode # "raw" /\ parser # NoParser =>
    ~parser.bad /\ InStep(parser, got) /\ parser.body = <<>>
EncodesEncodable == injected => Encodable
RawIsUnframed == mode = "raw" /\ injected => ~IsChunked(response)
Due(h) == IF h = <<>> THEN <<>> ELSE OfHeader
Inside(o, h, data, b) == Cat(Cat(Cat(ReadFrom(o), Due(h)), data), Content(b))
Balanced == Inside(out, header, held, buf) = Content(SubSeq(Wire, 1, got))

Transferred ==
  /\ KnownLate
  /\ HeldBack
  /\ InTouch
  /\ EncodesEncodable
  /\ RawIsUnframed
  /\ Balanced

TInv == IInv /\ Transferred

\* What came out stays, and more comes behind it.
Grown == \E more \in Seq(Said) : ReadFrom(out') = Cat(ReadFrom(out), more)

\* The four parts of what was said, typed.
LEMMA Parts ==
  ASSUME IInv
  PROVE  /\ response \in Responses /\ got \in Nat /\ got <= Len(Wire) /\ Len(Wire) \in Nat
         /\ ReadFrom(out) \in Seq(Said) /\ Due(header) \in Seq(Said)
         /\ held \in Seq(Said) /\ held \in Seq(Tokens) /\ Content(buf) \in Seq(Said)
         /\ Cat(ReadFrom(out), Due(header)) \in Seq(Said)
         /\ Cat(Cat(ReadFrom(out), Due(header)), held) \in Seq(Said)
         /\ Inside(out, header, held, <<>>) = Cat(Cat(ReadFrom(out), Due(header)), held)
<1>1. /\ response \in Responses /\ got \in 0..Len(response.wire)
      /\ out \in Seq(Records) /\ held \in Seq(Tokens) /\ buf \in Seq(Tokens)
  BY DEF IInv, TypeOK, DataOK
<1>2. got \in Nat /\ got <= Len(Wire) /\ Len(Wire) \in Nat BY <1>1, WireType DEF Wire
<1>3. ReadFrom(out) \in Seq(Said) BY <1>1, RecordTypes, ReadAdd
<1>4. Due(header) \in Seq(Said) BY TokensAreSaid DEF Due
<1>5. held \in Seq(Said) BY <1>1, TokensAreSaid
<1>6. Content(buf) \in Seq(Said) /\ Content(<<>>) = <<>> BY <1>1, ContentFacts
<1>7. Cat(ReadFrom(out), Due(header)) \in Seq(Said) BY <1>3, <1>4, CatFacts
<1>8. Cat(Cat(ReadFrom(out), Due(header)), held) \in Seq(Said) BY <1>5, <1>7, CatFacts
<1>9. Inside(out, header, held, <<>>) = Cat(Cat(ReadFrom(out), Due(header)), held)
  BY <1>6, <1>8, CatFacts DEF Inside
<1> QED BY <1>1, <1>2, <1>3, <1>4, <1>5, <1>6, <1>7, <1>8, <1>9

\* At first nothing was said.
LEMMA InitTransferred == Init => TInv
<1> SUFFICES ASSUME Init PROVE TInv OBVIOUS
<1>1. IInv BY InitIInv
<1>2. /\ response \in Responses /\ supported = "none" /\ got = 0 /\ mode = "undecided"
      /\ parser = NoParser /\ buf = <<>> /\ injected = FALSE /\ header = <<>> /\ held = <<>> /\ out = <<>>
  BY DEF Init
<1>3. SubSeq(Wire, 1, 0) = <<>>
  <2>1. \A W : \A s \in Seq(W) : SubSeq(s, 1, 0) = <<>> OBVIOUS
  <2> QED BY <1>2, <2>1, WireType
<1>4. Balanced
  <2>1. ReadFrom(<<>>) = <<>> /\ Due(<<>>) = <<>> BY ReadNone DEF Due
  <2>2. <<>> \in Seq(Tokens) /\ <<>> \in Seq(Said) OBVIOUS
  <2>3. Content(<<>>) = <<>> BY <2>2, ContentFacts
  <2>4. Cat(<<>>, <<>>) = <<>> BY <2>2, CatFacts
  <2> QED BY <1>2, <1>3, <2>1, <2>3, <2>4 DEF Balanced, Inside
<1>5. KnownLate /\ HeldBack /\ InTouch /\ EncodesEncodable /\ RawIsUnframed
  BY <1>2, <1>3 DEF KnownLate, HeldBack, InTouch, EncodesEncodable, RawIsUnframed
<1> QED BY <1>1, <1>4, <1>5 DEF TInv, Transferred

\* A step that moves no data of the response.
LEMMA QuietTransfers ==
  ASSUME TInv, UNCHANGED <<response, got, mode, parser, buf, injected, header, held, out>>,
         supported # "none" => supported' # "none", supported' # "none" => pieces' = 2
  PROVE  Transferred' /\ Grown
<1>1. Wire' = Wire /\ Encodable' = Encodable BY DEF Wire, Encodable
<1>2. KnownLate' BY DEF KnownLate
<1>3. HeldBack' BY <1>1 DEF TInv, Transferred, HeldBack
<1>4. InTouch'
  <2>1. InTouch BY DEF TInv, Transferred
  <2> QED BY <1>1, <2>1 DEF InTouch, InStep, Wire
<1>5. EncodesEncodable' /\ RawIsUnframed'
  BY <1>1 DEF TInv, Transferred, EncodesEncodable, RawIsUnframed
<1>6. Balanced'
  <2>1. Balanced BY DEF TInv, Transferred
  <2> QED BY <1>1, <2>1 DEF Balanced
<1>7. Grown
  <2>1. <<>> \in Seq(Said) BY TokensAreSaid
  <2>2. Cat(ReadFrom(out), <<>>) = ReadFrom(out) BY Parts, CatFacts DEF TInv
  <2> QED BY <2>1, <2>2 DEF Grown
<1> QED BY <1>2, <1>3, <1>4, <1>5, <1>6, <1>7 DEF Transferred

\* Data that is written without a compressor comes out at once.
LEMMA WritesPlain ==
  ASSUME IInv, injected = FALSE, injected' = FALSE, header' = header, buf' = <<>>,
         NEW data \in Seq(Tokens), Write(data)
  PROVE  /\ Grown
         /\ Inside(out', header', held', buf') = Cat(ReadFrom(out), Content(data))
<1>1. header = <<>> /\ held = <<>> BY DEF IInv, TypeOK
<1>2. held' = <<>> /\ out' = IF data = <<>> THEN out ELSE Append(out, Raw(data))
  BY <1>1 DEF Write
<1>3. ReadFrom(out') = Cat(ReadFrom(out), Content(data))
  <2>1. CASE data = <<>>
    <3>1. Content(data) = <<>> BY <2>1, ContentFacts
    <3> QED BY <1>2, <2>1, <3>1, Parts, CatFacts
  <2>2. CASE data # <<>>
    <3>1. Raw(data) \in Records
      <4>1. <<>> \in Seq(Fields) OBVIOUS
      <4> QED BY <4>1 DEF Raw, Records
    <3>2. ReadFrom(Add(out, Raw(data))) = Cat(ReadFrom(out), Read(Raw(data)))
      BY <3>1, ReadAdd DEF IInv, DataOK
    <3> QED BY <1>2, <2>2, <3>2, ReadFacts DEF Add
  <2> QED BY <2>1, <2>2
<1>4. Content(data) \in Seq(Said) BY ContentFacts
<1>5. PICK r \in Seq(Said) : r = Cat(ReadFrom(out), Content(data)) BY <1>4, Parts, CatFacts
<1>6. Inside(out', header', held', buf') = r
  <2>1. Due(header') = <<>> /\ held' = <<>> /\ ReadFrom(out') = r BY <1>1, <1>2, <1>3, <1>5 DEF Due
  <2>2. Content(buf') = <<>> BY ContentFacts
  <2>3. Cat(r, <<>>) = r BY CatFacts
  <2> QED BY <2>1, <2>2, <2>3 DEF Inside
<1> QED BY <1>3, <1>4, <1>5, <1>6 DEF Grown

\* With one it is inside, behind what is there.
LEMMA WritesInside ==
  ASSUME IInv, injected' = TRUE, buf' = <<>>, NEW data \in Seq(Tokens), Write(data)
  PROVE  /\ Grown /\ out' = out
         /\ Inside(out', header', held', buf')
              = Cat(Cat(Cat(ReadFrom(out), Due(header')), held), data)
<1>1. out' = out /\ held' = Cat(held, data) BY DEF Write, Cat
<1>2. /\ ReadFrom(out) \in Seq(Said) /\ held \in Seq(Said) /\ data \in Seq(Said)
      /\ Due(header') \in Seq(Said)
  BY Parts, TokensAreSaid DEF Due
<1>3. PICK f \in Seq(Said) : f = Cat(ReadFrom(out), Due(header')) BY <1>2, CatFacts
<1>4. Cat(f, Cat(held, data)) = Cat(Cat(f, held), data) BY <1>2, CatAssoc
<1>5. Cat(f, Cat(held, data)) \in Seq(Said)
  <2>1. Cat(held, data) \in Seq(Said) BY <1>2, CatFacts
  <2> QED BY <2>1, CatFacts
<1>6. Inside(out', header', held', buf') = Cat(f, Cat(held, data))
  <2>1. Content(buf') = <<>> BY ContentFacts
  <2>2. Cat(Cat(f, Cat(held, data)), <<>>) = Cat(f, Cat(held, data)) BY <1>5, CatFacts
  <2> QED BY <1>1, <1>3, <2>1, <2>2 DEF Inside
<1>7. Grown
  <2>1. <<>> \in Seq(Said) BY TokensAreSaid
  <2>2. Cat(ReadFrom(out), <<>>) = ReadFrom(out) BY <1>2, CatFacts
  <2> QED BY <1>1, <2>1, <2>2 DEF Grown
<1> QED BY <1>1, <1>3, <1>4, <1>6, <1>7

\* The wire up to the end of a chunk.
LEMMA ChunkContent ==
  ASSUME IInv, NEW n \in (got + 1)..Len(Wire)
  PROVE  /\ n \in Nat /\ n <= Len(Wire) /\ got < n
         /\ SubSeq(Wire, got + 1, n) \in Seq(Tokens) /\ SubSeq(Wire, 1, got) \in Seq(Tokens)
         /\ SubSeq(Wire, 1, n) = Cat(SubSeq(Wire, 1, got), SubSeq(Wire, got + 1, n))
         /\ Content(SubSeq(Wire, 1, got)) \in Seq(Said)
         /\ Content(SubSeq(Wire, got + 1, n)) \in Seq(Said)
         /\ Content(SubSeq(Wire, 1, n))
              = Cat(Content(SubSeq(Wire, 1, got)), Content(SubSeq(Wire, got + 1, n)))
<1>1. response \in Responses /\ got \in Nat /\ got <= Len(Wire) /\ Len(Wire) \in Nat BY Parts
<1>2. Wire \in Seq(Tokens) BY <1>1, WireType
<1>3. n \in Nat /\ n <= Len(Wire) /\ got < n /\ got <= n BY <1>1
<1> DEFINE a == SubSeq(Wire, 1, got)
           b == SubSeq(Wire, got + 1, n)
<1>4. b \in Seq(Tokens) /\ SubSeq(Wire, 1, n) = Cat(a, b) BY <1>1, <1>2, <1>3, CutInTwo
<1>5. a \in Seq(Tokens) BY <1>1, <1>2, CutInTwo
<1> HIDE DEF a, b
<1>6. Content(a) \in Seq(Said) /\ Content(b) \in Seq(Said) /\ Content(Cat(a, b)) = Cat(Content(a), Content(b))
  BY <1>4, <1>5, ContentFacts
<1> QED BY <1>3, <1>4, <1>5, <1>6 DEF a, b

\* A response without framing is all content.
LEMMA UnframedContent ==
  ASSUME IInv, EndsWithBody(response), Encodable, ~IsChunked(response), NEW n \in (got + 1)..Len(Wire)
  PROVE  Content(SubSeq(Wire, got + 1, n)) = SubSeq(Wire, got + 1, n)
<1>1. response \in Responses /\ got \in Nat /\ n \in Nat /\ got <= n /\ n <= Len(Wire)
  BY Parts, ChunkContent
<1>2. \A i \in 1..Len(Wire) : Wire[i] \notin {"size", "last"}
  BY <1>1, WireType DEF EndsWithBody, Encodable, Wire
<1>3. PICK l \in Nat : l = n - got /\ \A i \in 1..l : got + i \in 1..Len(Wire) BY <1>1, WireType
<1> DEFINE b == SubSeq(Wire, got + 1, n)
<1>4. b \in Seq(Tokens) /\ Len(b) = l /\ \A i \in 1..l : b[i] = Wire[got + i]
  <2>1. /\ b \in Seq(Tokens) /\ Len(b) = n - got
        /\ \A i \in 1..(n - got) : b[i] = Wire[got + i]
    BY <1>1, WireType, CutInTwo
  <2> HIDE DEF b
  <2> QED BY <1>3, <2>1
<1> HIDE DEF b
<1>5. \A i \in 1..Len(b) : b[i] \notin {"size", "last"} BY <1>2, <1>3, <1>4
<1>6. Content(b) = b BY <1>4, <1>5, ContentFacts
<1> QED BY <1>6 DEF b

\* A writer that is no longer undecided: what is left to show is that the
\* parser is in touch, and that nothing of the chunk was lost.
LEMMA DecidedTransfers ==
  ASSUME TInv, UNCHANGED <<response, pieces, supported>>, NEW n \in Nat, got' = n,
         mode' \in {"raw", "http"}, EncodesEncodable', RawIsUnframed',
         Encodable /\ mode' = "http" => ~parser'.bad /\ InStep(parser', n) /\ parser'.body = <<>>,
         Inside(out', header', held', buf') = Content(SubSeq(Wire, 1, n))
  PROVE  Transferred'
<1>1. Wire' = Wire /\ Encodable' = Encodable BY DEF Wire, Encodable
<1>2. KnownLate' BY DEF TInv, Transferred, KnownLate
<1>3. HeldBack' BY DEF HeldBack
<1>4. InTouch' BY <1>1 DEF InTouch, InStep, Wire
<1>5. Balanced' BY <1>1 DEF Balanced
<1> QED BY <1>2, <1>3, <1>4, <1>5 DEF Transferred

\* _writeRawData(): the chunk is content as it is, or is passed on unencoded.
LEMMA RawTransfers ==
  ASSUME TInv, EndsWithBody(response), UNCHANGED <<response, pieces, supported>>,
         NEW n \in (got + 1)..Len(Wire), got' = n, mode = "raw",
         WriteRawData(SubSeq(Wire, got + 1, n))
  PROVE  Transferred' /\ Grown
<1> DEFINE chunk == SubSeq(Wire, got + 1, n)
           before == Content(SubSeq(Wire, 1, got))
<1>1. /\ n \in Nat /\ chunk \in Seq(Tokens) /\ before \in Seq(Said) /\ Content(chunk) \in Seq(Said)
      /\ Content(SubSeq(Wire, 1, n)) = Cat(before, Content(chunk))
  BY ChunkContent DEF TInv
<1>2. /\ mode' = "raw" /\ injected' = injected /\ header' = header /\ buf' = buf /\ Write(chunk)
  BY DEF WriteRawData
<1>3. IInv /\ buf = <<>> /\ injected \in BOOLEAN /\ Inside(out, header, held, <<>>) = before
  BY DEF TInv, IInv, TypeOK, Transferred, Balanced
<1>4. EncodesEncodable' /\ RawIsUnframed'
  BY <1>2 DEF TInv, Transferred, EncodesEncodable, RawIsUnframed, Encodable
<1> HIDE DEF chunk, before
<1>5. CASE injected = FALSE
  <2>1. Grown /\ Inside(out', header', held', buf') = Cat(ReadFrom(out), Content(chunk))
    BY <1>1, <1>2, <1>3, <1>5, WritesPlain
  <2>2. header = <<>> /\ held = <<>> BY <1>3, <1>5 DEF IInv, TypeOK
  <2>3. before = ReadFrom(out)
    <3>1. Cat(Cat(ReadFrom(out), <<>>), <<>>) = before BY <1>3, <2>2, Parts DEF Due
    <3> QED BY <1>3, <3>1, Parts, CatFacts
  <2> QED BY <1>1, <1>2, <1>4, <2>1, <2>3, DecidedTransfers DEF chunk, before
<1>6. CASE injected = TRUE
  <2>1. Grown /\ Inside(out', header', held', buf')
                   = Cat(Cat(Cat(ReadFrom(out), Due(header)), held), chunk)
    BY <1>1, <1>2, <1>3, <1>6, WritesInside
  <2>2. Cat(Cat(ReadFrom(out), Due(header)), held) = before BY <1>3, Parts
  <2>3. Content(chunk) = chunk
    BY <1>3, <1>6, UnframedContent DEF TInv, Transferred, EncodesEncodable, RawIsUnframed, chunk
  <2> QED BY <1>1, <1>2, <1>4, <2>1, <2>2, <2>3, DecidedTransfers DEF chunk, before
<1> QED BY <1>3, <1>5, <1>6

\* _writeHTTPData(): the parser gives the content of the chunk, or the chunk
\* is content and no part of the response.
LEMMA HTTPTransfers ==
  ASSUME TInv, EndsWithBody(response), UNCHANGED <<response, pieces, supported>>,
         NEW n \in (got + 1)..Len(Wire), got' = n, mode = "http",
         WriteHTTPData(SubSeq(Wire, got + 1, n))
  PROVE  Transferred' /\ Grown
<1> DEFINE chunk == SubSeq(Wire, got + 1, n)
           before == Content(SubSeq(Wire, 1, got))
           q == Execute(parser, chunk)
<1>1. /\ n \in Nat /\ n <= Len(Wire) /\ got < n /\ chunk \in Seq(Tokens)
      /\ before \in Seq(Said)
      /\ Content(SubSeq(Wire, 1, n)) = Cat(before, Content(chunk))
  BY ChunkContent DEF TInv
<1>2. /\ IInv /\ response \in Responses /\ got \in Nat /\ buf = <<>> /\ injected = TRUE
      /\ parser \in ParserStates /\ parser # NoParser /\ parser.headers
  BY Parts DEF TInv, IInv, TypeOK, DataOK, WriterKnows
<1>3. Encodable BY <1>2 DEF TInv, Transferred, EncodesEncodable
<1>4. ~parser.bad /\ InStep(parser, got) /\ parser.body = <<>>
  BY <1>2, <1>3 DEF TInv, Transferred, InTouch
<1>5. got >= 2 BY <1>2, <1>4 DEF InStep
<1>6. Cat(Cat(ReadFrom(out), Due(header)), held) = before
  BY <1>2, Parts DEF TInv, Transferred, Balanced
<1>7. Follows(parser, got, before)
  <2>1. Cat(before, <<>>) = before BY <1>1, CatFacts
  <2> QED BY <1>4, <1>5, <2>1 DEF Follows
<1>8. /\ q \in ParserStates
      /\ q.bad \/ Follows(q, n, before)
      /\ IsChunked(response) => ~q.bad
  BY <1>1, <1>2, <1>3, <1>5, <1>7, ExecuteFollows
<1> HIDE DEF chunk, before, q
<1>9. CASE q.bad /\ SwitchToRawWriter(chunk)
  <2>1. mode' = "raw" /\ buf' = <<>> /\ injected' = injected /\ header' = header /\ Write(chunk)
    BY <1>9 DEF SwitchToRawWriter
  <2>2. Grown /\ Inside(out', header', held', buf')
                   = Cat(Cat(Cat(ReadFrom(out), Due(header)), held), chunk)
    BY <1>1, <1>2, <2>1, WritesInside
  <2>3. ~IsChunked(response) BY <1>8, <1>9
  <2>4. Content(chunk) = chunk BY <1>2, <1>3, <2>3, UnframedContent DEF chunk
  <2>5. EncodesEncodable' /\ RawIsUnframed'
    BY <1>3, <2>3 DEF EncodesEncodable, RawIsUnframed, Encodable
  <2> QED BY <1>1, <1>6, <2>1, <2>2, <2>4, <2>5, DecidedTransfers DEF chunk, before
<1>10. CASE ~q.bad /\ /\ parser' = [q EXCEPT !.body = <<>>]
                      /\ UNCHANGED <<mode, buf, injected, header>>
                      /\ Write(q.body)
  <2>1. Follows(q, n, before) /\ q.body \in Seq(Tokens) BY <1>8, <1>10 DEF ParserStates
  <2>2. n >= 2 BY <1>1, <1>2, <1>5
  <2>3. Cat(before, q.body) = Content(SubSeq(Wire, 1, n)) BY <2>1, <2>2 DEF Follows
  <2>4. Grown /\ Inside(out', header', held', buf')
                   = Cat(Cat(Cat(ReadFrom(out), Due(header)), held), q.body)
    BY <1>2, <1>10, <2>1, WritesInside
  <2>5. ~parser'.bad /\ InStep(parser', n) /\ parser'.body = <<>>
    <3>1. parser' = [at |-> q.at, left |-> q.left, headers |-> q.headers, body |-> <<>>, bad |-> q.bad]
      BY <1>8, <1>10 DEF ParserStates
    <3> QED BY <2>1, <3>1 DEF Follows, InStep
  <2>6. mode' = "http" /\ EncodesEncodable' /\ RawIsUnframed'
    BY <1>3, <1>10 DEF EncodesEncodable, RawIsUnframed, Encodable
  <2> QED BY <1>1, <1>6, <2>3, <2>4, <2>5, <2>6, DecidedTransfers
<1> QED BY <1>9, <1>10 DEF WriteHTTPData, q, chunk

\* While it is undecided, nothing is in the pipe and nothing came out.
LEMMA UndecidedFacts ==
  ASSUME TInv, mode = "undecided"
  PROVE  /\ injected = FALSE /\ out = <<>> /\ header = <<>> /\ held = <<>>
         /\ ReadFrom(out) = <<>> /\ buf = SubSeq(Wire, 1, got) /\ buf \in Seq(Tokens)
         /\ parser \in ParserStates /\ (got = 0 <=> parser = NoParser)
<1>1. /\ injected = FALSE /\ out = <<>> /\ header = <<>> /\ held = <<>>
      /\ buf \in Seq(Tokens) /\ parser \in ParserStates
  BY DEF TInv, IInv, TypeOK, WriterKnows, DataOK
<1>2. buf = SubSeq(Wire, 1, got) /\ (got = 0 => parser = NoParser) /\ (got > 0 => parser.at # "none")
  BY DEF TInv, Transferred, HeldBack
<1>3. NoParser.at = "none" BY DEF NoParser, NewParser
<1>4. got \in Nat BY Parts DEF TInv
<1> QED BY <1>1, <1>2, <1>3, <1>4, ReadNone

\* A decision for the raw writer: all that was held back comes out.
LEMMA PassOnTransfers ==
  ASSUME TInv, UNCHANGED <<response, pieces, supported>>, mode = "undecided",
         NEW n \in (got + 1)..Len(Wire), got' = n, SwitchToRawWriter(SubSeq(Wire, 1, n))
  PROVE  Transferred' /\ Grown
<1>1. n \in Nat /\ n <= Len(Wire) /\ response \in Responses BY Parts, ChunkContent DEF TInv
<1>2. SubSeq(Wire, 1, n) \in Seq(Tokens) /\ Content(SubSeq(Wire, 1, n)) \in Seq(Said)
  <2>1. SubSeq(Wire, 1, n) \in Seq(Tokens) BY <1>1, WireType, CutInTwo
  <2> QED BY <2>1, ContentFacts
<1> DEFINE all == SubSeq(Wire, 1, n)
<1> HIDE DEF all
<1>3. /\ mode' = "raw" /\ buf' = <<>> /\ injected' = injected /\ header' = header /\ Write(all)
  BY DEF SwitchToRawWriter, all
<1>4. /\ IInv /\ injected = FALSE /\ ReadFrom(out) = <<>> BY UndecidedFacts DEF TInv
<1>5. Grown /\ Inside(out', header', held', buf') = Cat(ReadFrom(out), Content(all))
  BY <1>2, <1>3, <1>4, WritesPlain DEF all
<1>6. Cat(<<>>, Content(all)) = Content(all) BY <1>2, CatFacts DEF all
<1>7. EncodesEncodable' /\ RawIsUnframed' BY <1>3, <1>4 DEF EncodesEncodable, RawIsUnframed
<1> QED BY <1>1, <1>3, <1>4, <1>5, <1>6, <1>7, DecidedTransfers DEF all

\* The parser of an undecided response, at the beginning or on the way.
LEMMA UndecidedFollows ==
  ASSUME TInv, mode = "undecided", Encodable
  PROVE  Follows(IF parser = NoParser THEN NewParser ELSE parser, got, OfHeader) /\ got < 2
<1>1. got \in Nat /\ (got = 0 <=> parser = NoParser) BY Parts, UndecidedFacts DEF TInv
<1>2. CASE got = 0
  <2>1. NewParser.at = "start" /\ NewParser.headers = FALSE /\ NewParser.body = <<>> /\ NewParser.bad = FALSE
    BY DEF NewParser
  <2> QED BY <1>1, <1>2, <2>1 DEF Follows, InStep
<1>3. CASE got > 0
  <2>1. ~parser.bad /\ InStep(parser, got) /\ parser.body = <<>> /\ ~parser.headers
    BY <1>1, <1>3 DEF TInv, Transferred, InTouch, HeldBack
  <2>2. got < 2 BY <1>1, <2>1 DEF InStep
  <2> QED BY <1>1, <1>3, <2>1, <2>2 DEF Follows
<1> QED BY <1>1, <1>2, <1>3

\* _maybeEncode(): all is passed on, is held back still, or is encoded behind a
\* header of ours, which stands for the one that was held back.
LEMMA MaybeEncodeTransfers ==
  ASSUME TInv, IInv', EndsWithBody(response), UNCHANGED <<response, pieces, supported>>,
         NEW n \in (got + 1)..Len(Wire), got' = n, mode = "undecided",
         MaybeEncode(SubSeq(Wire, got + 1, n))
  PROVE  Transferred' /\ Grown
<1> DEFINE chunk == SubSeq(Wire, got + 1, n)
           p == IF parser = NoParser THEN NewParser ELSE parser
           q == Execute(p, chunk)
<1>1. /\ n \in Nat /\ n <= Len(Wire) /\ got < n /\ got \in Nat /\ chunk \in Seq(Tokens)
      /\ SubSeq(Wire, 1, n) = Cat(SubSeq(Wire, 1, got), chunk)
      /\ response \in Responses /\ IInv
  BY Parts, ChunkContent DEF TInv
<1>2. /\ injected = FALSE /\ out = <<>> /\ header = <<>> /\ held = <<>>
      /\ ReadFrom(out) = <<>> /\ buf = SubSeq(Wire, 1, got) /\ buf \in Seq(Tokens)
      /\ parser \in ParserStates /\ (got = 0 <=> parser = NoParser)
  BY UndecidedFacts
<1>3. buf \o chunk = SubSeq(Wire, 1, n) BY <1>1, <1>2 DEF Cat
<1>4. p \in ParserStates /\ p.at # "none"
  <2>1. NewParser.at = "start" BY DEF NewParser
  <2>2. parser # NoParser => parser.at # "none" BY <1>1, <1>2 DEF TInv, Transferred, HeldBack
  <2> QED BY <1>2, <2>1, <2>2, NoResponseYet
<1>5. q \in ParserStates /\ q.at # "none" /\ q.body \in Seq(Tokens)
  <2>1. q \in ParserStates /\ q.at # "none" BY <1>1, <1>4, ExecuteFacts, ParserStays
  <2> QED BY <2>1 DEF ParserStates
<1>6. Encodable => q.bad \/ Follows(q, n, OfHeader)
  <2> SUFFICES ASSUME Encodable PROVE q.bad \/ Follows(q, n, OfHeader) OBVIOUS
  <2>1. Follows(p, got, OfHeader) /\ OfHeader \in Seq(Said) BY UndecidedFollows, TokensAreSaid
  <2>2. got <= n BY <1>1
  <2> HIDE DEF p
  <2> QED BY <1>1, <1>4, <2>1, <2>2, ExecuteFollows
<1> HIDE DEF chunk, p, q
<1>7. CASE supported = "none" /\ SwitchToRawWriter(chunk)
  <2>1. got = 0 BY <1>1, <1>7 DEF TInv, Transferred, HeldBack
  <2>2. chunk = SubSeq(Wire, 1, n) BY <2>1 DEF chunk
  <2> QED BY <1>1, <1>7, <2>2, PassOnTransfers
<1>8. CASE SwitchToRawWriter(buf \o chunk) BY <1>1, <1>3, <1>8, PassOnTransfers
<1>9. CASE /\ supported # "none"
           /\ ~q.bad /\ ~q.headers
           /\ buf' = buf \o chunk
           /\ parser' = q
           /\ UNCHANGED <<mode, injected, header, held, out>>
  <2>1. Wire' = Wire /\ Encodable' = Encodable BY DEF Wire, Encodable
  <2>2. KnownLate' BY DEF TInv, Transferred, KnownLate
  <2>3. HeldBack' BY <1>1, <1>3, <1>5, <1>9, <2>1 DEF HeldBack
  <2>4. InTouch'
    <3>1. Encodable => InStep(q, n) /\ q.body = <<>>
      BY <1>1, <1>6, <1>9 DEF Follows, InStep
    <3> QED BY <1>9, <2>1, <3>1 DEF InTouch, InStep, Wire
  <2>5. EncodesEncodable' /\ RawIsUnframed' BY <1>2, <1>9 DEF EncodesEncodable, RawIsUnframed
  <2>6. Balanced'
    <3>1. Content(SubSeq(Wire, 1, n)) \in Seq(Said) /\ <<>> \in Seq(Said)
      <4>1. SubSeq(Wire, 1, n) \in Seq(Tokens) BY <1>1, WireType, CutInTwo
      <4> QED BY <4>1, ContentFacts, TokensAreSaid
    <3>2. Inside(out', header', held', buf') = Cat(Cat(Cat(<<>>, <<>>), <<>>), Content(SubSeq(Wire, 1, n)))
      BY <1>2, <1>3, <1>9 DEF Inside, Due
    <3>3. Cat(Cat(Cat(<<>>, <<>>), <<>>), Content(SubSeq(Wire, 1, n))) = Content(SubSeq(Wire, 1, n))
      BY <3>1, CatFacts
    <3> QED BY <2>1, <3>2, <3>3 DEF Balanced
  <2>7. Grown
    <3>1. Cat(<<>>, <<>>) = <<>> /\ <<>> \in Seq(Said) BY TokensAreSaid, CatFacts
    <3> QED BY <1>2, <1>9, <3>1 DEF Grown
  <2> QED BY <2>2, <2>3, <2>4, <2>5, <2>6, <2>7 DEF Transferred
<1>10. CASE /\ q.headers /\ ~q.bad /\ Encodable
            /\ injected' = TRUE
            /\ parser' = [q EXCEPT !.body = <<>>]
            /\ SwitchToHTTPWriter(q.body)
  <2>1. mode' = "http" /\ buf' = <<>> /\ Write(q.body) BY <1>10 DEF SwitchToHTTPWriter
  <2>2. Grown /\ out' = out /\ Inside(out', header', held', buf')
                   = Cat(Cat(Cat(ReadFrom(out), Due(header')), held), q.body)
    BY <1>1, <1>5, <1>10, <2>1, WritesInside
  <2>3. Due(header') = OfHeader BY <1>2, <1>10, <2>2 DEF IInv, OwnHeaderPending, Due
  <2>4. Cat(Cat(<<>>, OfHeader), <<>>) = OfHeader BY TokensAreSaid, CatFacts
  <2>5. Follows(q, n, OfHeader) BY <1>6, <1>10
  <2>6. n >= 2 BY <1>10, <2>5 DEF Follows, InStep
  <2>7. Cat(OfHeader, q.body) = Content(SubSeq(Wire, 1, n)) BY <2>5, <2>6 DEF Follows
  <2>8. ~parser'.bad /\ InStep(parser', n) /\ parser'.body = <<>>
    <3>1. parser' = [at |-> q.at, left |-> q.left, headers |-> q.headers, body |-> <<>>, bad |-> q.bad]
      BY <1>5, <1>10 DEF ParserStates
    <3> QED BY <2>5, <3>1 DEF Follows, InStep
  <2>9. EncodesEncodable' /\ RawIsUnframed' BY <1>10, <2>1 DEF EncodesEncodable, RawIsUnframed, Encodable
  <2> QED BY <1>1, <1>2, <2>1, <2>2, <2>3, <2>4, <2>7, <2>8, <2>9, DecidedTransfers
<1>11. \/ supported = "none" /\ SwitchToRawWriter(chunk)
       \/ SwitchToRawWriter(buf \o chunk)
       \/ /\ supported # "none"
          /\ ~q.bad /\ ~q.headers
          /\ buf' = buf \o chunk
          /\ parser' = q
          /\ UNCHANGED <<mode, injected, header, held, out>>
       \/ /\ q.headers /\ ~q.bad /\ Encodable
          /\ injected' = TRUE
          /\ parser' = [q EXCEPT !.body = <<>>]
          /\ SwitchToHTTPWriter(q.body)
  BY DEF MaybeEncode, Encodable, p, q, chunk
<1> QED BY <1>7, <1>8, <1>9, <1>10, <1>11

\* A chunk of the local server, for whichever writer.
LEMMA ChunkTransfers ==
  ASSUME TInv, IInv', EndsWithBody(response), ResponseChunk
  PROVE  Transferred' /\ Grown
<1>1. UNCHANGED <<response, pieces, supported>> BY DEF ResponseChunk, requesting
<1>2. PICK n \in (got + 1)..Len(Wire) :
        /\ got' = n
        /\ \/ mode = "undecided" /\ MaybeEncode(SubSeq(Wire, got + 1, n))
           \/ mode = "http" /\ WriteHTTPData(SubSeq(Wire, got + 1, n))
           \/ mode = "raw" /\ WriteRawData(SubSeq(Wire, got + 1, n))
  BY DEF ResponseChunk, Wire
<1> QED BY <1>1, <1>2, MaybeEncodeTransfers, HTTPTransfers, RawTransfers

-----------------------------------------------------------------------------
\* Our header, if it is due, and the records behind it are read in turn.
LEMMA ReadDue ==
  ASSUME IInv, NEW r \in Records
  PROVE  /\ out \o DueHeader \o <<r>> \in Seq(Records)
         /\ ReadFrom(out \o DueHeader \o <<r>>) = Cat(Cat(ReadFrom(out), Due(header)), Read(r))
<1>1. out \in Seq(Records) /\ header \in Seq(Fields) BY DEF IInv, DataOK
<1>2. \A W : \A s \in Seq(W), a \in W : s \o <<>> \o <<a>> = Append(s, a) OBVIOUS
<1>3. \A W : \A s \in Seq(W), a, b \in W : s \o <<a>> \o <<b>> = Append(Append(s, a), b) OBVIOUS
<1>4. CASE header = <<>>
  <2>1. out \o DueHeader \o <<r>> = Add(out, r) BY <1>1, <1>2, <1>4 DEF DueHeader, Add
  <2>2. Cat(ReadFrom(out), <<>>) = ReadFrom(out) BY Parts, CatFacts
  <2>3. Add(out, r) \in Seq(Records) BY <1>1, AddFacts
  <2> QED BY <1>1, <1>4, <2>1, <2>2, <2>3, ReadAdd DEF Due
<1>5. CASE header # <<>>
  <2>1. PICK h \in Records : h = Header(header)
    <3>1. <<>> \in Seq(Tokens) OBVIOUS
    <3> QED BY <1>1, <3>1 DEF Header, Records
  <2>2. out \o DueHeader \o <<r>> = Add(Add(out, h), r)
    <3>1. DueHeader = <<h>> BY <1>5, <2>1 DEF DueHeader
    <3> QED BY <1>1, <1>3, <3>1 DEF Add
  <2>3. ReadFrom(Add(out, h)) = Cat(ReadFrom(out), Due(header))
    <3>1. ReadFrom(Add(out, h)) = Cat(ReadFrom(out), Read(h)) BY <1>1, ReadAdd
    <3> QED BY <1>1, <1>5, <2>1, <3>1, ReadFacts DEF Due
  <2>4. Add(out, h) \in Seq(Records) BY <1>1, AddFacts
  <2>5. Add(Add(out, h), r) \in Seq(Records) BY <2>4, AddFacts
  <2> QED BY <2>2, <2>3, <2>4, <2>5, ReadAdd
<1> QED BY <1>4, <1>5

\* The compressor lets data go: it comes out behind what did, and in front of
\* what stays.
LEMMA DeflateTransfers == ASSUME TInv, Deflate PROVE Transferred' /\ Grown
<1>1. PICK k \in 0..Len(held) :
        /\ held' = SubSeq(held, k + 1, Len(held))
        /\ out' = out \o DueHeader \o <<Chunk(SubSeq(held, 1, k))>>
  BY DEF Deflate
<1>2. /\ held # <<>> /\ header' = <<>>
      /\ UNCHANGED <<request, pieces, supported, response, got, mode, parser, buf, injected>>
  BY DEF Deflate, requesting
<1>3. /\ IInv /\ held \in Seq(Tokens) /\ injected = TRUE /\ mode # "undecided" /\ buf = <<>>
      /\ mode \in {"undecided", "raw", "http"}
  BY <1>2 DEF TInv, IInv, TypeOK, DataOK, WriterKnows
<1>4. PICK l \in Nat : l = Len(held) /\ k \in Nat /\ k <= l BY <1>3
<1>5. PICK a \in Seq(Tokens), b \in Seq(Tokens) :
        a = SubSeq(held, 1, k) /\ b = SubSeq(held, k + 1, l) /\ held = Cat(a, b)
  <2>1. SubSeq(held, 1, k) \in Seq(Tokens) BY <1>3, <1>4, CutInTwo
  <2>2. SubSeq(held, k + 1, l) \in Seq(Tokens) /\ SubSeq(held, 1, l) = Cat(SubSeq(held, 1, k), SubSeq(held, k + 1, l))
    <3>1. held \in Seq(Tokens) /\ k \in Nat /\ l \in Nat /\ k <= l /\ l <= Len(held) BY <1>3, <1>4
    <3> QED BY ONLY <3>1, CutInTwo
  <2>3. SubSeq(held, 1, l) = held BY <1>3, <1>4
  <2> QED BY <2>1, <2>2, <2>3
<1>6. a \in Seq(Said) /\ b \in Seq(Said) BY TokensAreSaid
<1>7. PICK f \in Seq(Said) : f = Cat(ReadFrom(out), Due(header)) BY <1>3, Parts
<1>8. ReadFrom(out') = Cat(f, a) BY <1>1, <1>3, <1>5, <1>7, RecordTypes, ReadDue, ReadFacts
<1>9. Cat(f, a) \in Seq(Said) /\ Cat(Cat(f, a), b) = Cat(f, held)
  <2>1. Cat(f, a) \in Seq(Said) BY <1>6, CatFacts
  <2>2. Cat(Cat(f, a), b) = Cat(f, Cat(a, b)) BY <1>6, CatAssoc
  <2> QED BY <1>5, <2>1, <2>2
<1>10. Inside(out', header', held', buf') = Cat(f, held)
  <2>1. Content(buf') = <<>> /\ Due(header') = <<>> BY <1>2, <1>3, ContentFacts DEF Due
  <2>2. Cat(Cat(f, a), <<>>) = Cat(f, a) BY <1>9, CatFacts
  <2>3. Cat(f, held) \in Seq(Said) BY <1>3, <1>7, Parts
  <2>4. Cat(Cat(f, held), <<>>) = Cat(f, held) BY <2>3, CatFacts
  <2>5. held' = b BY <1>1, <1>4, <1>5
  <2> QED BY <1>8, <1>9, <2>1, <2>2, <2>4, <2>5 DEF Inside
<1>11. Inside(out', header', held', buf') = Content(SubSeq(Wire, 1, got))
  BY <1>3, <1>7, <1>10, Parts DEF TInv, Transferred, Balanced
<1>12. Grown
  <2>1. Cat(f, a) = Cat(ReadFrom(out), Cat(Due(header), a)) /\ Cat(Due(header), a) \in Seq(Said)
    BY <1>3, <1>6, <1>7, Parts, CatAssoc, CatFacts
  <2> QED BY <1>8, <2>1 DEF Grown
<1>13. Wire' = Wire /\ Encodable' = Encodable BY <1>2 DEF Wire, Encodable
<1>14. KnownLate' /\ HeldBack' BY <1>2, <1>3 DEF TInv, Transferred, KnownLate, HeldBack
<1>15. InTouch'
  <2>1. InTouch BY DEF TInv, Transferred
  <2> QED BY <1>2, <1>13, <2>1 DEF InTouch, InStep, Wire
<1>16. EncodesEncodable' /\ RawIsUnframed'
  BY <1>2, <1>13 DEF TInv, Transferred, EncodesEncodable, RawIsUnframed
<1>17. Balanced' BY <1>2, <1>11, <1>13 DEF Balanced
<1> QED BY <1>12, <1>14, <1>15, <1>16, <1>17 DEF Transferred

\* The end of the output: all that was inside comes out, and that is all the
\* local server said, or the push after the end fails and nothing moves.
LEMMA OutputEndsTransfers ==
  ASSUME TInv, OutputEnds
  PROVE  /\ Transferred' /\ Grown
         /\ \/ crashed' /\ closed' = closed /\ ReadFrom(out') = ReadFrom(out)
            \/ closed' = TRUE /\ ReadFrom(out') = Content(SubSeq(Wire, 1, got))
<1>1. UNCHANGED <<request, pieces, supported, response, got, mode, parser, buf, injected>>
  BY DEF OutputEnds, requesting
<1>2. CASE parser # NoParser /\ buf # <<>>
  <2>1. crashed' /\ UNCHANGED <<header, held, out, closed>> BY <1>2 DEF OutputEnds
  <2>2. supported # "none" => pieces = 2 BY DEF TInv, Transferred, KnownLate
  <2> QED BY <1>1, <2>1, <2>2, QuietTransfers
<1>3. CASE ~(parser # NoParser /\ buf # <<>>)
  <2>1. /\ closed' = TRUE /\ header' = <<>> /\ held' = <<>>
        /\ out' = IF injected THEN out \o DueHeader \o <<Chunk(held), LastChunk>> ELSE out
    BY <1>3 DEF OutputEnds
  <2>2. IInv /\ held \in Seq(Tokens) /\ injected \in BOOLEAN /\ got \in Nat /\ Wire \in Seq(Tokens)
    BY Parts, WireType DEF TInv, IInv, TypeOK, DataOK
  <2>3. buf = <<>>
    <3>1. CASE mode = "undecided"
      <4>1. buf = SubSeq(Wire, 1, got) /\ (got = 0 <=> parser = NoParser) BY <3>1, UndecidedFacts
      <4>2. \A W : \A s \in Seq(W) : SubSeq(s, 1, 0) = <<>> OBVIOUS
      <4> QED BY <1>3, <2>2, <4>1, <4>2
    <3>2. CASE mode # "undecided" BY <2>2, <3>2 DEF IInv, TypeOK
    <3> QED BY <3>1, <3>2
  <2>4. PICK all \in Seq(Said) :
          /\ all = Cat(Cat(ReadFrom(out), Due(header)), held)
          /\ all = Content(SubSeq(Wire, 1, got))
    BY <2>2, <2>3, Parts DEF TInv, Transferred, Balanced
  <2>5. ReadFrom(out') = all
    <3>1. CASE injected = FALSE
      <4>1. header = <<>> /\ held = <<>> BY <2>2, <3>1 DEF IInv, TypeOK
      <4>2. all = Cat(Cat(ReadFrom(out), <<>>), <<>>) BY <2>4, <4>1 DEF Due
      <4>3. all = ReadFrom(out) BY <2>2, <4>2, Parts, CatFacts
      <4> QED BY <2>1, <3>1, <4>3
    <3>2. CASE injected = TRUE
      <4>1. PICK c \in Records, last \in Records : c = Chunk(held) /\ last = LastChunk
        BY <2>2, RecordTypes
      <4>2. PICK o \in Seq(Records) : o = out \o DueHeader \o <<c>>
        BY <2>2, ReadDue
      <4>3. out' = Add(o, last)
        <5>1. \A W : \A s \in Seq(W), t \in Seq(W), x \in W, y \in W :
                s \o t \o <<x, y>> = Append(s \o t \o <<x>>, y)
          OBVIOUS
        <5>2. out \in Seq(Records) /\ DueHeader \in Seq(Records)
          <6>1. header # <<>> => Header(header) \in Records
            <7>1. header \in Seq(Fields) /\ <<>> \in Seq(Tokens) BY <2>2 DEF IInv, DataOK
            <7> QED BY <7>1 DEF Header, Records
          <6>2. \A W : <<>> \in Seq(W) /\ \A x \in W : <<x>> \in Seq(W) OBVIOUS
          <6> QED BY <2>2, <6>1, <6>2 DEF DueHeader, IInv, DataOK
        <5> QED BY <2>1, <3>2, <4>1, <4>2, <5>1, <5>2 DEF Add
      <4>4. ReadFrom(o) = all BY <2>2, <2>4, <4>1, <4>2, ReadDue, ReadFacts
      <4>5. ReadFrom(Add(o, last)) = Cat(all, <<>>) BY <4>1, <4>4, ReadAdd, ReadFacts
      <4> QED BY <4>3, <4>5, CatFacts
    <3> QED BY <2>2, <3>1, <3>2
  <2>6. Wire' = Wire /\ Encodable' = Encodable BY <1>1 DEF Wire, Encodable
  <2>7. KnownLate' BY <1>1 DEF TInv, Transferred, KnownLate
  <2>8. HeldBack' BY <1>1, <2>6 DEF TInv, Transferred, HeldBack
  <2>9. InTouch'
    <3>1. InTouch BY DEF TInv, Transferred
    <3> QED BY <1>1, <2>6, <3>1 DEF InTouch, InStep, Wire
  <2>10. EncodesEncodable' /\ RawIsUnframed'
    BY <1>1, <2>6 DEF TInv, Transferred, EncodesEncodable, RawIsUnframed
  <2>11. Balanced'
    <3>1. Content(buf') = <<>> /\ Due(header') = <<>> BY <1>1, <2>1, <2>2, <2>3, ContentFacts DEF Due
    <3>2. Inside(out', header', held', buf') = Cat(Cat(Cat(all, <<>>), <<>>), <<>>)
      BY <2>1, <2>5, <3>1 DEF Inside
    <3>3. Cat(Cat(Cat(all, <<>>), <<>>), <<>>) = all BY CatFacts
    <3>4. SubSeq(Wire, 1, got)' = SubSeq(Wire, 1, got) BY <1>1, <2>6
    <3> QED BY <2>4, <2>6, <3>2, <3>3, <3>4, <1>1 DEF Balanced
  <2>12. Grown
    <3>1. PICK more \in Seq(Said) : more = Cat(Due(header), held) BY <2>2, Parts, CatFacts
    <3>2. Cat(Cat(ReadFrom(out), Due(header)), held) = Cat(ReadFrom(out), Cat(Due(header), held))
      BY <2>2, Parts, CatAssoc
    <3> QED BY <2>4, <2>5, <3>1, <3>2 DEF Grown
  <2> QED BY <2>1, <2>4, <2>5, <2>7, <2>8, <2>9, <2>10, <2>11, <2>12 DEF Transferred
<1> QED BY <1>2, <1>3

\* The request goes by, and the local server may end: no data moves.
LEMMA OthersTransfer ==
  ASSUME TInv, RequestPiece \/ LocalEnds \/ UNCHANGED vars
  PROVE  Transferred' /\ Grown
<1>1. UNCHANGED <<response, got, mode, parser, buf, injected, header, held, out>>
  BY DEF RequestPiece, LocalEnds, vars, encoding, requesting
<1>2. (supported # "none" => supported' # "none") /\ (supported' # "none" => pieces' = 2)
  <2>1. supported # "none" => pieces = 2 BY DEF TInv, Transferred, KnownLate
  <2>2. CASE RequestPiece BY <2>1, <2>2 DEF RequestPiece, TInv, IInv, TypeOK
  <2>3. CASE LocalEnds \/ UNCHANGED vars BY <2>1, <2>3 DEF LocalEnds, vars, requesting
  <2> QED BY <2>2, <2>3
<1> QED BY <1>1, <1>2, QuietTransfers

\* Every step keeps the invariant, and what came out stays.
LEMMA NextTInv ==
  ASSUME TInv, EndsWithBody(response), [Next]_vars
  PROVE  TInv' /\ Grown
<1>1. IInv' BY NextIInv DEF TInv
<1>2. CASE ResponseChunk BY <1>1, <1>2, ChunkTransfers DEF TInv
<1>3. CASE Deflate BY <1>1, <1>3, DeflateTransfers DEF TInv
<1>4. CASE OutputEnds BY <1>1, <1>4, OutputEndsTransfers DEF TInv
<1>5. CASE RequestPiece \/ LocalEnds \/ UNCHANGED vars BY <1>1, <1>5, OthersTransfer DEF TInv
<1> QED BY <1>2, <1>3, <1>4, <1>5 DEF Next, Finished

-----------------------------------------------------------------------------
\* What the pipe sees of the state.
SaidSoFar == Content(SubSeq(Wire, 1, got))
Delivered == IsPrefix(ReadFrom(out), SaidSoFar)
PipeStep ==
  [Transfer!Flow \/ Transfer!Close]_<<Content(SubSeq(response.wire, 1, got)), Received, ended, closed>>

\* Prefixes are those of Pipe.
LEMMA SamePrefix == \A s, t : Transfer!IsPrefix(s, t) <=> IsPrefix(s, t)
BY DEF Transfer!IsPrefix, IsPrefix

\* What came out is a prefix of what the local server said.
LEMMA ReadIsPrefix == ASSUME TInv PROVE Delivered /\ SaidSoFar \in Seq(Said)
<1>1. /\ IInv /\ buf \in Seq(Tokens)
      /\ SaidSoFar = Cat(Cat(Cat(ReadFrom(out), Due(header)), held), Content(buf))
  BY DEF TInv, IInv, DataOK, Transferred, Balanced, Inside, SaidSoFar
<1>2. PICK r \in Seq(Said), d \in Seq(Said), h \in Seq(Said), c \in Seq(Said) :
        r = ReadFrom(out) /\ d = Due(header) /\ h = held /\ c = Content(buf)
  BY <1>1, Parts
<1>3. PICK x \in Seq(Said) : x = Cat(d, h) BY CatFacts
<1>4. PICK y \in Seq(Said) : y = Cat(x, c) BY CatFacts
<1>5. Cat(Cat(r, d), h) = Cat(r, x) BY <1>3, CatAssoc
<1>6. Cat(Cat(r, x), c) = Cat(r, y) BY <1>4, CatAssoc
<1>7. Cat(r, y) \in Seq(Said) BY CatFacts
<1>8. SaidSoFar = Cat(r, y) BY <1>1, <1>2, <1>5, <1>6
<1>9. IsPrefix(r, Cat(r, y)) BY PrefixOfCat
<1> QED BY <1>2, <1>7, <1>8, <1>9 DEF Delivered

\* What the local server said stays, and more comes behind it.
LEMMA SaidGrows == ASSUME TInv, [Next]_vars PROVE IsPrefix(SaidSoFar, SaidSoFar')
<1>1. IInv /\ SaidSoFar \in Seq(Said) BY ReadIsPrefix DEF TInv
<1>2. CASE UNCHANGED <<response, got>>
  <2>1. SaidSoFar' = SaidSoFar BY <1>2 DEF SaidSoFar, Wire
  <2>2. <<>> \in Seq(Said) /\ Cat(SaidSoFar, <<>>) = SaidSoFar BY <1>1, TokensAreSaid, CatFacts
  <2>3. IsPrefix(SaidSoFar, Cat(SaidSoFar, <<>>)) BY <1>1, <2>2, PrefixOfCat
  <2> QED BY <2>1, <2>2, <2>3
<1>3. CASE ResponseChunk
  <2>1. PICK n \in (got + 1)..Len(Wire) : got' = n BY <1>3 DEF ResponseChunk, Wire
  <2>2. Wire' = Wire BY <1>3 DEF ResponseChunk, Wire
  <2>3. PICK c \in Seq(Said) : Content(SubSeq(Wire, 1, n)) = Cat(SaidSoFar, c)
    BY <1>1, ChunkContent DEF SaidSoFar
  <2>4. SaidSoFar' = Cat(SaidSoFar, c) BY <2>1, <2>2, <2>3 DEF SaidSoFar
  <2> QED BY <1>1, <2>4, PrefixOfCat
<1>4. ResponseChunk \/ UNCHANGED <<response, got>>
  BY DEF Next, RequestPiece, Deflate, LocalEnds, OutputEnds, Finished, vars
<1> QED BY <1>2, <1>3, <1>4

\* Every step moves what is in the pipe forward, and the end of the output is
\* the end of the pipe.
LEMMA NextFlows == ASSUME TInv, EndsWithBody(response), [Next]_vars, Delivered' PROVE PipeStep
<1>1. Grown BY NextTInv
<1>2. IInv /\ ended \in BOOLEAN /\ closed \in BOOLEAN /\ (closed => ended)
  BY DEF TInv, IInv, TypeOK, WriterKnows
<1> DEFINE sent == Content(SubSeq(response.wire, 1, got))
<1>3. sent = SaidSoFar /\ sent' = SaidSoFar' /\ Received = ReadFrom(out) /\ Received' = ReadFrom(out')
  BY DEF SaidSoFar, Wire, Received, ReadFrom
<1>4. IsPrefix(Received, sent) BY <1>3, ReadIsPrefix DEF Delivered
<1>5. IsPrefix(sent, sent') BY <1>3, SaidGrows
<1>6. IsPrefix(Received', sent')
  <2>1. Delivered' = IsPrefix(Received', sent') BY DEF Delivered, SaidSoFar, Wire, Received, ReadFrom
  <2> QED BY <2>1
<1>7. IsPrefix(Received, Received')
  <2>1. PICK more \in Seq(Said) : ReadFrom(out') = Cat(ReadFrom(out), more) BY <1>1 DEF Grown
  <2> QED BY <1>2, <1>3, <2>1, Parts, PrefixOfCat
<1>8. ended => ended' /\ sent' = sent
  BY DEF Next, RequestPiece, ResponseChunk, Deflate, LocalEnds, OutputEnds, Finished, vars
<1>9. closed => Received' = Received
  <2>1. closed => out' = out
    BY <1>2 DEF Next, RequestPiece, ResponseChunk, Deflate, LocalEnds, OutputEnds, Finished, vars, encoding
  <2> QED BY <1>3, <2>1
<1>10. CASE closed' = closed
  <2> HIDE DEF sent
  <2>1. Transfer!Flow BY <1>4, <1>5, <1>6, <1>7, <1>8, <1>9, <1>10, SamePrefix DEF Transfer!Flow, sent
  <2> QED BY <2>1 DEF PipeStep
<1>11. CASE closed' # closed
  <2>1. OutputEnds BY <1>11 DEF Next, RequestPiece, ResponseChunk, Deflate, LocalEnds, Finished, vars
  <2>2. closed' = TRUE /\ Received' = sent
    BY <1>3, <1>11, <2>1, OutputEndsTransfers DEF SaidSoFar
  <2>3. ended = TRUE /\ ended' = ended BY <1>2, <2>1 DEF OutputEnds
  <2>4. sent' = sent BY <1>8, <2>3
  <2>5. Transfer!Close BY <1>4, <2>2, <2>3, <2>4, SamePrefix DEF Transfer!Close
  <2> QED BY <2>5 DEF PipeStep
<1> QED BY <1>10, <1>11

\* The invariant holds always, if every response ends with its body.
THEOREM TransferInvariance ==
  ASSUME \A r \in Responses : EndsWithBody(r)
  PROVE  Spec => []TInv
<1>1. TInv => EndsWithBody(response) BY Parts DEF TInv
<1>2. TInv /\ [Next]_vars => TInv' BY <1>1, NextTInv
<1> QED BY InitTransferred, <1>2, PTL DEF Spec

\* The gzip stream is a pipe: the receiver reads what the local server said,
\* whole and in order, whichever of the three writers took its chunks, whether
\* the response was encoded or not, and also when it was cut off; and when the
\* output ends, nothing was left behind.
THEOREM OutputIsPipe ==
  ASSUME \A r \in Responses : EndsWithBody(r)
  PROVE  Spec => PipeSpec
<1>1. Init => Transfer!Init
  <2> SUFFICES ASSUME Init PROVE Transfer!Init OBVIOUS
  <2>1. Delivered BY InitTransferred, ReadIsPrefix
  <2>2. closed = FALSE BY DEF Init
  <2> QED BY <2>1, <2>2, SamePrefix DEF Transfer!Init, Delivered, SaidSoFar, Wire, Received, ReadFrom
<1>2. TInv => Delivered BY ReadIsPrefix
<1>3. TInv /\ Delivered' /\ [Next]_vars
        => [Transfer!Flow \/ Transfer!Close]_<<Content(SubSeq(response.wire, 1, got)), Received, ended, closed>>
  <2>1. TInv => EndsWithBody(response) BY Parts DEF TInv
  <2> QED BY <2>1, NextFlows DEF PipeStep
<1> QED BY <1>1, <1>2, <1>3, TransferInvariance, PTL DEF Spec, PipeSpec, Transfer!Spec, Transfer!vars
=============================================================================
