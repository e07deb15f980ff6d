--------------------------------- MODULE Access ---------------------------------
(***************************************************************************)
(* Who may reach what: the credential (auth.py), the resolution of a       *)
(* requested path under the root (security.py), the files that an archive  *)
(* of a directory takes along (archive.py), and which answer a request is  *)
(* given, over HTTP/1.1 and over HTTP/2 or HTTP/3 (handler.py,             *)
(* _response.py).                                                          *)
(*                                                                         *)
(* A text is a sequence of letters; a path is a sequence of names, and a   *)
(* name is a text.  A tree maps the paths that exist to [kind, to], where  *)
(* "to" is the target of a symbolic link.                                  *)
(***************************************************************************)
EXTENDS Integers, Sequences, SequencesExt

CONSTANT MaxLinks  \* links that the system follows for one path

Nowhere == <<"nowhere">>

-----------------------------------------------------------------------------
(* auth.py                                                                 *)

\* str.partition(":"): what is before the first colon, and behind it.
Partition(text) ==
  LET at == SelectInSeq(text, LAMBDA c : c = ":")
  IN IF at = 0 THEN [head |-> text, found |-> FALSE, rest |-> <<>>]
     ELSE [head |-> SubSeq(text, 1, at - 1), found |-> TRUE, rest |-> SubSeq(text, at + 1, Len(text))]

NoCredential == [username |-> <<>>, secret |-> <<>>, hashed |-> FALSE]

\* USER:PASSWORD or USER:sha256:HEX; anything else is refused.
Credential(spec) ==
  LET user == Partition(spec)
      algorithm == Partition(user.rest)
      hashed == algorithm.found /\ algorithm.head = <<"sha256">>
  IN IF ~user.found \/ user.head = <<>> \/ (hashed /\ algorithm.rest = <<>>) THEN NoCredential
     ELSE [username |-> user.head, secret |-> IF hashed THEN algorithm.rest ELSE user.rest,
           hashed |-> hashed]

Digest(text) == <<"digest of", text>>

Verify(credential, username, password) ==
  /\ credential.username = username
  /\ credential.secret = IF credential.hashed THEN Digest(password) ELSE password

\* The fields of "Authorization: Basic ..." once decoded.
CheckHeader(credential, scheme, decoded) ==
  LET pair == Partition(decoded)
  IN scheme = "basic" /\ pair.found /\ Verify(credential, pair.head, pair.rest)

-----------------------------------------------------------------------------
(* security.py                                                             *)

Unquote(letter) == CASE letter = "%." -> "." [] letter = "%/" -> "/" [] OTHER -> letter

Pieces(text) ==
  FoldLeft(LAMBDA names, c : IF c = "/" THEN Append(names, <<>>)
                             ELSE [names EXCEPT ![Len(names)] = Append(@, c)], <<<<>>>>, text)

SafeSegments(urlPath) ==
  LET end == SelectInSeq(urlPath, LAMBDA c : c \in {"?", "#"})
      path == IF end = 0 THEN urlPath ELSE SubSeq(urlPath, 1, end - 1)
  IN SelectSeq(Pieces([i \in DOMAIN path |-> Unquote(path[i])]),
               LAMBDA name : name \notin {<<>>, <<".">>, <<".", ".">>})

Text(path) == FlattenSeq([i \in DOMAIN path |-> <<"/">> \o path[i]])

\* os.path.realpath: links are followed; what does not exist, or goes round in
\* circles, stays as it is.
RECURSIVE Resolve(_, _, _, _)
Resolve(tree, done, rest, links) ==
  IF rest = <<>> THEN done
  ELSE LET next == Append(done, Head(rest))
       IN IF next \notin DOMAIN tree \/ tree[next].kind # "link" THEN Resolve(tree, next, Tail(rest), links)
          ELSE IF links = 0 THEN next \o Tail(rest)
          ELSE Resolve(tree, <<>>, tree[next].to \o Tail(rest), links - 1)
RealPath(tree, path) == Resolve(tree, <<>>, path, MaxLinks)

\* Mutant: the prefix without the separator.
IsContainedLoosely(tree, root, candidate) ==
  LET real == Text(RealPath(tree, candidate))
  IN real = Text(root) \/ IsPrefix(Text(root), real)

IsContained(tree, root, candidate) ==
  LET real == Text(RealPath(tree, candidate))
  IN real = Text(root) \/ IsPrefix(Text(root) \o <<"/">>, real)

SafeJoin(tree, root, urlPath) ==
  LET candidate == root \o SafeSegments(urlPath)
  IN IF IsContained(tree, root, candidate) THEN candidate ELSE Nowhere

\* What the system opens under a path.
Opened(tree, path) ==
  LET real == RealPath(tree, path)
  IN IF real \in DOMAIN tree /\ tree[real].kind # "link" THEN real ELSE Nowhere

-----------------------------------------------------------------------------
(* archive.py                                                              *)

\* os.walk below a directory, which does not follow links; links are left out.
RegularFiles(tree, top) ==
  {p \in DOMAIN tree : IsStrictPrefix(Opened(tree, top), p) /\ tree[p].kind = "file"}

\* The children that a selection names, and what is below them.
Selection(tree, directory, names) ==
  LET Child(name) == Append(RealPath(tree, directory), name)
      taken == {name \in names : /\ name \notin {<<>>, <<".">>, <<".", ".">>}
                                 /\ \A i \in DOMAIN name : name[i] # "/"
                                 /\ Child(name) \in DOMAIN tree /\ tree[Child(name)].kind # "link"}
  IN {Child(n) : n \in {m \in taken : tree[Child(m)].kind = "file"}}
     \union UNION {RegularFiles(tree, Child(n)) : n \in {m \in taken : tree[Child(m)].kind = "dir"}}

-----------------------------------------------------------------------------
(* Which answer a request is given (handler.py).  What a connection keeps  *)
(* from one answer to the next is [generated, csp, vary]: whether it is a  *)
(* page of servery's own, with which policy, and whether it is compressed. *)
(* config is [auth, dav, davWrite, upload, metadata, preview, spa,         *)
(* rootIndex]; a request is [method, kind, index, slash, readable, views,  *)
(* credential, routed, compressible], where kind is what its path names    *)
(* and slash how it ends: "none", "plain" or "escaped".                    *)

Fresh == [generated |-> FALSE, csp |-> "none", vary |-> FALSE]

\* end_headers.
Sent(what, status, kept) ==
  [what |-> what, status |-> status, csp |-> IF ~kept.generated THEN "none"
                                             ELSE IF kept.csp = "none" THEN "generated" ELSE kept.csp,
   vary |-> kept.vary, kept |-> kept]

SendError(kept, status) == Sent("error", status, [kept EXCEPT !.generated = TRUE, !.csp = "none"])
SendGenerated(what, csp) == Sent(what, 200, [generated |-> TRUE, csp |-> csp, vary |-> TRUE])

Authorized(config, request) == config.auth => request.credential
Challenge(kept) == Sent("challenge", 401, kept)

SendFile(request) ==
  IF request.kind = "file" /\ request.readable THEN Sent("file", 200, [Fresh EXCEPT !.vary = request.compressible])
  ELSE SendError(Fresh, 404)
SendIndex == Sent("file", 200, [Fresh EXCEPT !.vary = TRUE])

\* What can be generated, unless the disk refuses.
Generated(request, what, csp) ==
  IF request.readable THEN SendGenerated(what, csp) ELSE SendError(Fresh, 404)

ServeDirectory(config, request) ==
  CASE request.slash = "none" -> Sent("redirect", 301, Fresh)
    [] request.slash # "none" /\ {"archive", "sel"} \intersect request.views # {} -> Sent("archive", 200, Fresh)
    [] OTHER ->
         IF config.metadata /\ "metadata" \in request.views THEN Generated(request, "metadata", "none")
         ELSE IF request.index THEN SendIndex
         ELSE Generated(request, "listing", "none")

\* The views of a file that a query may ask for.
ServeView(config, request) ==
  IF config.metadata /\ "metadata" \in request.views THEN SendGenerated("metadata", "none")
  ELSE Generated(request, "preview", "preview")
Viewed(config, request) ==
  request.kind = "file" /\ \E v \in {"metadata", "preview"} : config[v] /\ v \in request.views

\* A path that leads outside is none that exists.
SendHead(config, kept, request) ==
  IF ~Authorized(config, request) THEN Challenge(Fresh)
  ELSE CASE request.kind = "dir" -> ServeDirectory(config, request)
         [] Viewed(config, request) -> ServeView(config, request)
         [] OTHER -> IF config.spa /\ request.kind \in {"none", "outside"} /\ config.rootIndex
                     THEN SendIndex ELSE SendFile(request)

Forward(config, kept, request) ==
  IF Authorized(config, request) THEN [Sent("upstream", 200, Fresh) EXCEPT !.kept = kept] ELSE Challenge(kept)
Unsupported(kept) == SendError(kept, 501)

DavReads == {"PROPFIND", "LOCK", "UNLOCK"}
DavWrites == {"PROPPATCH", "MKCOL", "COPY", "MOVE", "DELETE", "PUT"}
Dav(config, kept, request) ==
  IF ~config.dav THEN Unsupported(kept)
  ELSE IF ~Authorized(config, request) THEN Challenge(kept)
  ELSE IF request.method \in DavWrites /\ ~config.davWrite THEN SendError(kept, 403)
  ELSE Sent("dav", 207, kept)

\* POST stores in a directory, PUT under the name of a file.
Post(config, kept, request) ==
  IF ~Authorized(config, request) THEN Challenge([kept EXCEPT !.generated = FALSE])
  ELSE IF ~config.upload \/ request.kind # "dir" THEN SendError(kept, 404)
  ELSE Sent("stored", 303, [kept EXCEPT !.generated = FALSE])
Put(config, kept, request) ==
  IF ~Authorized(config, request) THEN Challenge(kept)
  ELSE CASE request.kind = "outside" \/ request.slash = "plain" -> SendError(kept, 403)
         [] request.kind = "dir" /\ request.slash # "plain" -> SendError(kept, 409)
         [] OTHER -> Sent("stored", 201, kept)

\* A preflight succeeds without a credential.
Options(kept) == Sent("options", 204, [kept EXCEPT !.generated = FALSE])

Mounted(config, request) ==
  IF request.method \in {"PUT", "DELETE"} THEN config.dav ELSE request.method \in DavReads \union DavWrites
Respond(config, kept, request) ==
  IF Mounted(config, request) THEN Dav(config, kept, request)
  ELSE IF request.routed THEN Forward(config, kept, request)
  ELSE CASE request.method \in {"GET", "HEAD"} -> SendHead(config, kept, request)
         [] request.method = "POST" -> Post(config, kept, request)
         [] request.method = "PUT" /\ config.upload -> Put(config, kept, request)
         [] request.method = "OPTIONS" -> Options(kept)
         [] OTHER -> Unsupported(kept)

\* Over HTTP/2 and HTTP/3 there are files and listings alone: build_static
\* behind the two checks of the transport.
Plain(what, status, csp, vary) == [what |-> what, status |-> status, csp |-> csp, vary |-> vary]
BuildRoute(request) ==
  CASE request.kind \in {"none", "outside"} -> Plain("error", 404, "none", FALSE)
    [] request.kind = "file" -> IF request.readable THEN Plain("file", 200, "none", request.compressible)
                                ELSE Plain("error", 404, "none", FALSE)
    [] OTHER -> IF request.slash # "plain" THEN Plain("redirect", 301, "none", FALSE)
                ELSE IF ~request.readable THEN Plain("error", 404, "none", FALSE)
                ELSE Plain("listing", 200, "generated", TRUE)
BufferedAnswer(config, request) ==
  IF ~Authorized(config, request) THEN Plain("challenge", 401, "none", FALSE)
  ELSE IF request.method \notin {"GET", "HEAD"} THEN Plain("error", 405, "none", FALSE)
  ELSE BuildRoute(request)
=============================================================================
