------------------------------- MODULE MCHttp1 -------------------------------
(***************************************************************************)
(* An instance of Http1 for TLC, and what the functions beside it compute  *)
(* for every small input: each of these two is evaluated once, in the    *)
(* initial state Once.                                                     *)
(***************************************************************************)
EXTENDS Http1, HeadReader, BodyReader, StaticFile, Access, Listing, TLC

Number(n) == [text |-> ToString(n), value |-> n]
Fields(lengths, connection) ==
  [hosts |-> <<"good">>, lengths |-> lengths, encodings |-> <<>>,
   connection |-> connection, expect |-> ""]
One == <<<<Number(1)>>>>
Request(words, fields) == [words |-> words, fields |-> fields]
MCRequests == {
  Request(<<"PUT", "/", <<1, 1>>>>, Fields(<<>>, "")),
  Request(<<"PUT", "/", <<1, 1>>>>, Fields(One, "")),
  Request(<<"PUT", "/", <<1, 1>>>>, Fields(<<<<Number(2)>>, <<Number(2)>>>>, "")),
  Request(<<"PUT", "/", <<1, 1>>>>, Fields(<<<<Number(3)>>>>, "")),
  Request(<<"PUT", "/", <<1, 1>>>>, Fields(One, "close")),
  Request(<<"PUT", "/", <<1, 0>>>>, Fields(One, "keep-alive")),
  Request(<<"PUT", "/", <<1, 1>>>>, Fields(<<<<Number(1), Number(2)>>>>, "")),
  Request(<<"PUT", "/", <<2, 0>>>>, Fields(One, "")),
  Request(<<"GET", "/">>, Fields(<<>>, "")),
  Request(<<>>, Fields(<<>>, "")) }

Once == pc = "begin" /\ loop = "servery" /\ ~draining /\ sent = 0 /\ peer = "open"
Texts(letters, n) == UNION {[1..k -> letters] : k \in 0..n}

-----------------------------------------------------------------------------
(* Heads                                                                   *)

HeadTexts ==
  Texts({"x", " ", ":", "!", "CR", "LF"}, 4) \union Texts({"x", ":", "CR", "LF"}, 6)
Cuts(text) == {<<i, j>> \in (0..Len(text)) \X (0..Len(text)) : i <= j}
Fragments(text, cut) ==
  <<Take(text, cut[1]), SubSeq(text, cut[1] + 1, cut[2]), Drop(text, cut[2])>>

\* The lines of a text, each with its end; the length of the lines up to the
\* first blank one.
LineEnds(text) == {i \in DOMAIN text : text[i] = "LF"}
LineAt(text, i) ==
  SubSeq(text, 1 + CHOOSE j \in {0} \union LineEnds(text) :
                     j < i /\ \A k \in LineEnds(text) : k < i => k <= j, i)
BlankEnds(text) == {i \in LineEnds(text) : LineAt(text, i) \in Blank}
HeadLength(text) ==
  IF BlankEnds(text) = {} THEN Len(text) ELSE CHOOSE i \in BlankEnds(text) : \A j \in BlankEnds(text) : i <= j
Short(text) == \A i \in LineEnds(text) : Len(LineAt(text, i)) <= MaxLine

StopsAtHead(text, cut) ==
  LET f == Fragments(text, cut)
      s == [buffered |-> f[1], coming |-> SelectSeq(<<f[2], f[3]>>, LAMBDA g : g # <<>>)]
      read == HeadLines(s)
      first == LineOf(f[1])
  IN /\ read.head \o Everything(read.left) = text
     /\ Short(Take(text, HeadLength(text))) => Len(read.head) = HeadLength(text)
     /\ (BufferedHead(s) # <<>> /\ Short(f[1]) /\ first \notin Blank) => BufferedHead(s) = read.head

Items == {Empty, NotANumber, Number(0), Number(1), Number(2)}
ItemLists == UNION {[1..n -> UNION {[1..m -> Items] : m \in 1..2}] : n \in 0..2}
EncodingLists == {<<>>, <<<<"chunked">>>>, <<<<"chunked", "chunked">>>>, <<<<"">>>>, <<<<"other">>>>}
\* An accepted length is what every field says, and no coding says otherwise.
OneLength(lengths, encodings) ==
  LET result == ParseFraming(lengths, encodings, 1, FALSE)
      said == ToSet(FlattenSeq(lengths))
  IN ~IsError(result) <=> (encodings = <<>> /\ \E n \in 0..1 : said \subseteq {Number(n)})

-----------------------------------------------------------------------------
(* Bodies                                                                  *)

BodyCalls == {<<"read", 1>>, <<"read", 2>>, <<"read", All>>, <<"readline", 1>>, <<"readline", 2>>,
              <<"readline", All>>, <<"drain", 1>>}
Reader(source, size) == [source |-> source, buffer |-> <<>>, remaining |-> size]

\* Whatever a read of the socket gives, a handler sees the lines and octets it
\* would see without a deadline, and nothing behind the body is held back when
\* the body is finished.
SameRead(source, read, plain) ==
  /\ read.data = plain.data /\ read.reader.remaining = plain.reader.remaining
  /\ FlattenSeq(read.data) \o read.reader.buffer \o read.reader.source = source
  /\ read.reader.remaining = 0 => read.reader.buffer = <<>>
SameBody(source, size, grain, calls) ==
  LET By(n) == Calls(Reader(source, size), calls, n)
  IN SameRead(source, By(grain), By(0))

Markers == {<<"a">>, <<"b", "a">>, <<"b", "b", "a">>, <<"b", "a", "b">>}
SplitAt(data, marker, chunk) ==
  LET read == ReadUntil([source |-> data, buffer |-> <<>>], marker, chunk)
      at == Find(data, marker)
  IN IF at = 0 THEN "unterminated" \in DOMAIN read
     ELSE /\ read.written = First(data, at - 1)
          /\ read.left.buffer \o read.left.source = Rest(data, at - 1 + Len(marker))

Names == {"p", "q"}
Old == [octets |-> <<"o">>]
New == [octets |-> <<"n", "n">>]
Directories == [Names -> {NoFile, Old}]
Entry(name, type, outside, content) ==
  [name |-> name, kind |-> type, outside |-> outside, content |-> content]
Entries == {Entry(n, "file", FALSE, c) : n \in Names, c \in {Old, New}}
  \union {Entry("q", "link", FALSE, New), Entry("q", "dir", FALSE, Old), Entry("q", "file", TRUE, New),
          Entry("q", "broken", FALSE, New)}
Archives == [zip : BOOLEAN, size : {1}, entries : UNION {[1..n -> Entries] : n \in 0..2}]
Part(name, safe, ends, content) == [name |-> name, safe |-> safe, ends |-> ends, content |-> content]
PlainParts == {Part(n, TRUE, TRUE, New) : n \in Names} \union
  {Part(NoFile, TRUE, TRUE, New), Part("p", FALSE, TRUE, New), Part("q", TRUE, FALSE, New)}
PartLists == {<<a, b>> : a \in PlainParts, b \in PlainParts} \union
  {<<Part("p", TRUE, TRUE, a)>> \o rest : a \in Archives, rest \in {<<>>, <<Part("q", TRUE, TRUE, New)>>}}

RECURSIVE Octets(_)
Octets(contents) ==   \* how many octets the files of a sequence hold
  IF contents = <<>> THEN 0 ELSE Len(Head(contents).octets) + Octets(Tail(contents))
Extracted(archive, files, after) ==   \* the new files that came from archive
  LET names == {n \in Names : after[n] # NoFile /\ after[n] # files[n] /\ ~IsArchive(after[n])}
  IN Octets(SetToSeq({[octets |-> Append(after[n].octets, n)] : n \in names})) - Cardinality(names)

\* Without leave to overwrite no file that was there changes, none that another
\* writer has locked ever does; an archive expands to no more than its cap; and
\* a success has stored each part under its name, whole, and left no archive
\* that was to be expanded.
Stored(files, parts, overwrite, extract, busy) ==
  LET after == Save(files, parts, overwrite, extract, busy)
      kept == {n \in Names : (files[n] # NoFile /\ ~overwrite) \/ n \in busy}
  IN /\ \A n \in kept : after.files[n] = files[n]
     /\ (Len(parts) = 1 /\ extract /\ IsArchive(parts[1].content)) =>
          Extracted(parts[1].content, files, after.files) <= CapOf(parts[1].content.size)
     /\ (~after.error /\ extract) => \A n \in Names : after.files[n] # NoFile => ~IsArchive(after.files[n])
     /\ ~after.error => \A i \in DOMAIN parts :
          (parts[i].name # NoFile /\ ~IsArchive(parts[i].content)) => after.files[parts[i].name] = New

-----------------------------------------------------------------------------
(* Files                                                                   *)

Files == [size : 0..3, mtime : {<<1, 0>>, <<1, 1>>, <<2, 0>>}, type : {"text", "image"}]
RangeFields == {Missing} \union
  [single : BOOLEAN, first : {NoDigits, BadDigits} \union 0..4, last : {NoDigits, BadDigits} \union 0..4]
Accepted(name, quality) == [name |-> name, quality |-> quality]
AcceptLists == {<<>>} \union
  {<<Accepted(n, q), Accepted(m, r)>> : n, m \in {"gzip", "x-gzip", "zstd", "*"}, q, r \in {0, 1}}
\* One list for each coding that an answer may have had.
OneCoding == {<<>>, <<Accepted("gzip", 1)>>, <<Accepted("zstd", 1)>>}
Wants == {Missing} \union
  {[members |-> <<[name |-> n, preference |-> i], [name |-> m, preference |-> j]>>] :
     n, m \in {"sha-256", "sha-512", "md5"}, i, j \in 0..2}

-----------------------------------------------------------------------------
(* Access                                                                  *)

R == <<"r">>
RX == <<"r", "x">>  \* a name that begins as the root's does
X == <<"x">>
Root == <<R>>

\* The root holds r and x, and r may hold x; beside the root is rx, with a file.
SpotKinds == {[kind |-> "none", to |-> <<>>], [kind |-> "file", to |-> <<>>], [kind |-> "dir", to |-> <<>>]}
  \union {[kind |-> "link", to |-> t] : t \in {<<R>>, <<RX>>, <<RX, X>>, <<R, R>>, <<R, X>>, <<R, R, X>>}}
Dir == [kind |-> "dir", to |-> <<>>]
Node(k) == [kind |-> k, to |-> <<>>]
Spots == {<<R, R>>, <<R, X>>, <<R, R, X>>}
Trees ==
  LET Here(spots) == {p \in Spots : spots[p].kind # "none"}
      tree(spots) == [p \in {<<R>>, <<RX>>, <<RX, X>>} \union Here(spots) |->
                        IF p \in Spots THEN spots[p] ELSE IF p = <<RX, X>> THEN Node("file") ELSE Dir]
  IN {tree(spots) : spots \in {f \in [Spots -> SpotKinds] :
        f[<<R, R>>].kind = "dir" \/ f[<<R, R, X>>].kind = "none"}}
UrlTexts == Texts({"/", ".", "r", "%.", "%/", "?"}, 4)
NameLists == UNION {[1..n -> {R, X, RX}] : n \in 0..3}
UrlOf(names) == FlattenSeq([i \in DOMAIN names |-> <<"/">> \o names[i]])

\* What a path leads to is what is under the root, and nothing there is refused;
\* so is all that an archive of it takes along, and no file of it is left out.
Contained(tree, names) ==
  LET path == SafeJoin(tree, Root, UrlOf(names))
      there == Opened(tree, Root \o names)
      packed == RegularFiles(tree, path)
      children == {p[Len(p)] : p \in {q \in DOMAIN tree : Len(q) = Len(there) + 1 /\ IsPrefix(there, q)}}
  IN /\ there # Nowhere => (path # Nowhere <=> IsPrefix(Root, there))
     /\ path # Nowhere /\ there # Nowhere =>
          /\ \A p \in packed : Opened(tree, p) = p /\ IsPrefix(there, p)
          /\ \A p \in DOMAIN tree :
               IsStrictPrefix(there, p) /\ Opened(tree, p) = p /\ tree[p].kind = "file" => p \in packed
          /\ tree[there].kind = "dir" => Selection(tree, path, children \union {<<"/">> \o RX, <<".", ".">>}) = packed
Segments(url) == \A i \in DOMAIN SafeSegments(url) :
  SafeSegments(url)[i] \notin {<<>>, <<".">>, <<".", ".">>} /\ "/" \notin ToSet(SafeSegments(url)[i])

Secrets == {<<>>, <<"p">>, <<"p", ":">>, <<"sha256">>, <<"sha256", ":">>, <<":", "p">>}
           \union {<<"sha256", ":">> \o Digest(w) : w \in {<<"p">>, <<":">>}}
\* Exactly the password opens, or the one of which the digest is given.
Opens(user, secret, name, word) ==
  LET credential == Credential(user \o <<":">> \o secret)
  IN credential # NoCredential =>
       (CheckHeader(credential, "basic", name \o <<":">> \o word) <=>
          /\ name = user
          /\ secret = IF Partition(secret).found /\ Partition(secret).head = <<"sha256">>
                      THEN <<"sha256", ":">> \o Digest(word) ELSE word)

-----------------------------------------------------------------------------
(* Listings                                                                *)

Listed(word, ext, dir, hidden, size, title, tag) ==
  [id |-> 0, word |-> word, ext |-> ext, dir |-> dir, hidden |-> hidden, size |-> size,
   title |-> title, tag |-> tag]
ListedKinds == {Listed(1, 1, FALSE, FALSE, 1, 0, 1), Listed(2, 2, FALSE, FALSE, 1, 1, 2),
                Listed(1, 2, FALSE, FALSE, 2, 2, 1), Listed(2, 0, TRUE, FALSE, 0, 0, 0),
                Listed(1, 0, TRUE, TRUE, 0, 0, 0)}
Few == {Listed(1, 2, FALSE, FALSE, 2, 2, 1), Listed(2, 0, TRUE, FALSE, 0, 0, 0)}
Numbered(d) == [i \in DOMAIN d |-> [d[i] EXCEPT !.id = i]]
ListedDirs == {Numbered(d) : d \in UNION {[1..n -> ListedKinds] : n \in 0..2}
  \union [1..3 -> Few] \union {[i \in 1..5 |-> CHOOSE k \in Few : k.dir = (i = 4)]}}

\* The parameters that a URL may carry; a default may be there or not.
UrlQueries ==
  LET Without(params, name, value) ==
        [k \in {p \in DOMAIN params : p # name \/ params[p] # value} |-> params[k]]
      all == [C : {"N", "S", "T"}, O : {"A", "D"}, q : {0, 1}, ext : {0, 2},
              meta : {NoQuery, [field |-> "tag", needle |-> 1], [field |-> "", needle |-> 2]}]
  IN {Without(Without(params, "C", "N"), "meta", NoQuery) : params \in {p \in all : p.q = 0 \/ p.ext = 0}}
ListingConfigs == {c \in [hidden : BOOLEAN, perPage : {0, 2}, metadata : BOOLEAN] : ~(c.hidden /\ c.metadata)}
Walked(directory, config, params) == Render(directory, config, RequestOptions(params, "none"))

\* The pages that the links to the next one lead through.
PagesFrom(directory, config, params) ==
  LET first == Walked(directory, config, params)
      pages[n \in 1..first.pages] ==
        IF n = 1 THEN first
        ELSE Walked(directory, config, CHOOSE link \in pages[n - 1].pager.next : TRUE)
  IN pages

\* They show each entry that is wanted once, directories first, sorted, and the
\* links back lead to the same pages.
PagesAgree(pages, directory, config, params, asked) ==
  LET first == pages[1]
      rows == FlattenSeq([n \in DOMAIN pages |-> pages[n].rows])
      wanted == {i \in DOMAIN directory :
                   LET e == directory[i]
                   IN (config.hidden \/ ~e.hidden) /\ (asked.query = 0 \/ e.word = asked.query)
                      /\ (asked.ext = 0 \/ e.dir \/ e.ext = asked.ext)}
      ids == {rows[i].id : i \in DOMAIN rows}
      filtering == config.metadata /\ ~first.limited /\ asked.meta # NoQuery
  IN /\ Cardinality(ids) = Len(rows) /\ Len(rows) = first.total
     /\ ids \subseteq wanted /\ (~first.truncated /\ ~filtering => ids = wanted)
     /\ \A n \in 2..first.pages :
          /\ pages[n].rows # <<>> /\ pages[n].page = n
          /\ \A link \in pages[n].pager.previous : Walked(directory, config, link) = pages[n - 1]
     /\ pages[first.pages].pager.next = {}
     /\ Walked(directory, config, Href(params, {}, [page |-> 9])) = pages[first.pages]
     /\ \A i, j \in DOMAIN rows : i < j =>
          /\ rows[j].dir => rows[i].dir
          /\ (rows[i].dir = rows[j].dir /\ first.sort # "title" /\ ~first.limited) =>
               IF asked.descending THEN SortKey(rows[i], first.sort, <<>>) >= SortKey(rows[j], first.sort, <<>>)
               ELSE SortKey(rows[i], first.sort, <<>>) <= SortKey(rows[j], first.sort, <<>>)
PagesWhole(directory, config, params) ==
  PagesAgree(PagesFrom(directory, config, params), directory, config, params, RequestOptions(params, "none"))

\* A link of a page leads to what it says: a chip to as many files as it
\* counts, if their metadata is read; the head of a column to the same rows;
\* another theme to the same page; the last one to all rows.
LinksFrom(here, directory, config) ==
  LET Follow(link) == Walked(directory, config, link)
      files == {i \in DOMAIN directory : ~directory[i].dir}
  IN /\ \A theme \in Themes : Follow(here.themes[theme]) = here
     /\ \A chip \in here.facets : Follow(chip.link).metrics.files = chip.count /\ Follow(chip.link).page = 1
     /\ \A chip \in here.tags :
          "meta" \in DOMAIN chip.link /\ Cardinality(files) <= MaxMeta =>
            Follow(chip.link).metrics.files >= chip.count
     /\ \A code \in DOMAIN here.heads :
          /\ Follow(here.heads[code]).total = here.total /\ Follow(here.heads[code]).page = 1
          /\ ~here.limited => Follow(here.heads[code]).sort = Codes[code]
     /\ Follow(here.clear).total = Follow(NoParams).total
LinksLead(directory, config, params) == LinksFrom(Walked(directory, config, params), directory, config)

\* A theme that was chosen stays chosen.
ThemeStays(chosen, cookie) ==
  LET asked == RequestOptions([theme |-> chosen], cookie)
      stored == IF asked.setCookie THEN asked.theme ELSE cookie
  IN RequestOptions(NoParams, stored).theme = asked.theme

-----------------------------------------------------------------------------
(* Routing                                                                 *)

Open == [auth |-> FALSE, dav |-> FALSE, davWrite |-> FALSE, upload |-> FALSE,
         metadata |-> FALSE, preview |-> FALSE, spa |-> FALSE, rootIndex |-> FALSE]
ReadConfigs == {[Open EXCEPT !.auth = a, !.metadata = m, !.preview = p, !.spa = s, !.rootIndex = i] :
                  a, m, p, s, i \in BOOLEAN}
WriteConfigs == {[Open EXCEPT !.auth = a, !.dav = d, !.davWrite = w, !.upload = u] : a, d, w, u \in BOOLEAN}
PathKinds == {"none", "outside", "file", "dir"}
Slashes == {"none", "plain", "escaped"}
Reads == [method : {"GET"}, kind : PathKinds, index : BOOLEAN, slash : Slashes, readable : BOOLEAN,
          views : {{}, {"sel"}, {"metadata"}, {"preview"}, {"metadata", "preview"}},
          credential : BOOLEAN, routed : {FALSE}, compressible : BOOLEAN]
Others == [method : {"GET", "POST", "PUT", "OPTIONS", "PROPFIND", "LOCK", "MKCOL", "DELETE", "PATCH"},
           kind : PathKinds, index : {FALSE}, slash : Slashes, readable : {TRUE}, views : {{}},
           credential : BOOLEAN, routed : BOOLEAN, compressible : {FALSE}]
Flags == [generated : BOOLEAN, csp : {"none", "preview"}, vary : BOOLEAN]

\* Without the credential nothing is told of what is there, by any transport;
\* and nothing is written that the configuration does not let be written.
Gated(config, kept, request) ==
  LET got == Respond(config, kept, request)
  IN /\ ~Authorized(config, request) =>
          /\ got.what \in {"challenge", "options"} \/ got.status = 501
          /\ BufferedAnswer(config, request).what = "challenge"
     /\ got.what = "dav" => config.dav /\ (request.method \in DavWrites => config.davWrite)
     /\ got.what = "stored" => config.upload
     /\ got.what = "error" => got.csp = "generated"

\* What a connection answered before tells nothing in the head of an answer:
\* a page of servery's own has the policy that is its own, a file has none; and
\* HTTP/2 and HTTP/3 answer a plain request as HTTP/1.1 does.
Unaffected(config, kept, request) ==
  LET got == Respond(config, kept, request)
      buffered == BufferedAnswer(config, request)
  IN /\ got = Respond(config, Fresh, request)
     /\ got.csp = CASE got.what = "preview" -> "preview"
                    [] got.what \in {"error", "listing", "metadata"} -> "generated"
                    [] OTHER -> "none"
     /\ got.what \in {"preview", "listing", "metadata"} => got.vary
     /\ (request.views = {} /\ ~request.index /\ ~config.spa /\ request.slash # "escaped") =>
          /\ <<got.what, got.status>> = <<buffered.what, buffered.status>>
          /\ got.what \in {"file", "listing"} => <<got.csp, got.vary>> = <<buffered.csp, buffered.vary>>

-----------------------------------------------------------------------------
(* Chunked bodies                                                          *)

Chunks == {[size |-> size, data |-> data] :
             size \in {<<"1">>, <<"0", "1">>, <<" ", "1", ";", "a">>}, data \in {<<"a">>, <<"0">>, <<"LF">>}}
          \union {[size |-> <<"2">>, data |-> <<"CR", "LF">>]}
ChunkLists == UNION {[1..n -> Chunks] : n \in 0..2}
Trailers == {<<>>, <<"a", "CR", "LF">>, <<"a", "CR", "LF", "0", "CR", "LF">>}
Encoded(chunks, final, trailers) ==
  FlattenSeq([i \in DOMAIN chunks |-> chunks[i].size \o Ending \o chunks[i].data \o Ending])
    \o final \o Ending \o trailers \o Ending
\* The body is what the chunks hold and nothing behind them is read; a body
\* that is cut is never taken for a whole one.
ChunksAgree(got, data, trailers, behind, cuts) ==
  /\ got.outcome = IF Len(data) > MaxBody THEN "large"
                   ELSE IF Len(trailers) + 2 > MaxTrailers THEN "trailers" ELSE "whole"
  /\ got.outcome = "whole" => got.body = data /\ got.source = behind
  /\ IsPrefix(got.body, data)
  /\ cuts \subseteq {"disconnect", got.outcome} \ {"whole"}
ChunkedWhole(chunks, final, trailers, behind, piece) ==
  LET text == Encoded(chunks, final, trailers)
      Received(source) == ReceiveAll(ChunkedStart(source), piece, MaxBody)
  IN ChunksAgree(Received(text \o behind), FlattenSeq([i \in DOMAIN chunks |-> chunks[i].data]), trailers, behind,
                 {Received(Take(text, n)).outcome : n \in 0..(Len(text) - 1)})

-----------------------------------------------------------------------------
(* A head that comes in any fragments is parsed as the blocking reader     *)
(* reads it; the reader under a deadline takes the head and not an octet   *)
(* behind it, whatever was buffered; and a body's size is accepted only    *)
(* when all that the head says agrees on it.  A handler gets the same body *)
(* under a deadline as without one and never an octet behind it, and so    *)
(* does an ASGI application of a chunked body, which is whole or an error; *)
(* a part of an upload ends at the first marker wherever the chunks are    *)
(* cut, and what an upload stores is whole, within its limits, and spares  *)
(* the files it may not touch.                                             *)
InputExact ==
  Once =>
    /\ \A text \in HeadTexts : \A cut \in Cuts(text) :
         Parse(Fragments(text, cut)) = ReadHeaders(text) /\ StopsAtHead(text, cut)
    /\ \A lengths \in ItemLists, encodings \in EncodingLists : OneLength(lengths, encodings)
    /\ \A source \in Texts({"a", EOL}, 4), size \in 0..3, grain \in 1..3 :
         \A calls \in [1..2 -> BodyCalls], rest \in {<<>>, <<<<"drain", All>>>>} :
           SameBody(source, size, grain, calls \o rest)
    /\ \A chunks \in ChunkLists, final \in {<<"0">>, <<"0", "0", " ">>}, trailers \in Trailers :
         \A behind \in {<<>>, <<"0", "CR", "LF">>}, piece \in 1..2 :
           ChunkedWhole(chunks, final, trailers, behind, piece)
    /\ \A data \in Texts({"a", "b"}, 6), marker \in Markers, chunk \in 1..3 : SplitAt(data, marker, chunk)
    /\ \A files \in Directories, parts \in PartLists, overwrite, extract \in BOOLEAN, busy \in SUBSET Names :
         Stored(files, parts, overwrite, extract, busy)

(* A range is served exactly, a resumed download and a revalidated cache   *)
(* never mix two versions or two codings, and both transports answer alike.*)
(* A request reaches what is under the root and all of it, through any     *)
(* links; so do archives; a credential opens for its password alone.  The  *)
(* pages of a listing show every entry once and their links lead to what   *)
(* they say.  Without the credential a request learns nothing by any route,*)
(* and no answer carries the policy of an answer before it (security.py:41,*)
(* archive.py:27, auth.py:51, listing.py:947, handler.py:432).             *)
AnswersExact ==
  Once =>
    /\ \A field \in RangeFields, file \in Files, accepted \in AcceptLists :
         RangeServed(field, file, accepted)
    /\ \A old, new \in Files, accepted \in AcceptLists, validator \in {"tag", "date"} :
         ResumesSame(old, new, accepted, validator, 1)
    /\ \A old, new \in Files, accepted \in OneCoding, other \in AcceptLists :
         Revalidates(old, new, accepted, other)
    /\ \A want \in Wants : RanksHighest(want)
    /\ \A tree \in Trees, names \in NameLists : Contained(tree, names)
    /\ \A url \in UrlTexts : Segments(url)
    /\ \A user, name \in {<<>>, <<"u">>, <<"v">>}, secret, word \in Secrets : Opens(user, secret, name, word)
    /\ \A directory \in ListedDirs, config \in ListingConfigs, params \in UrlQueries :
         /\ PagesWhole(directory, config, params)
         /\ LinksLead(directory, config, Href(params, {}, [page |-> 2]))
    /\ \A chosen \in Themes \union {"other"}, cookie \in Themes \union {"none"} : ThemeStays(chosen, cookie)
    /\ \A config \in ReadConfigs, kept \in Flags, request \in Reads :
         Gated(config, kept, request) /\ Unaffected(config, kept, request)
    /\ \A config \in WriteConfigs, kept \in Flags, request \in Others : Gated(config, kept, request)
=============================================================================
