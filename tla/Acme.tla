---------------------------------- MODULE Acme ----------------------------------
(***************************************************************************)
(* The certificate of a start of servery: the files that earlier starts    *)
(* have left (_ensure_acme in server.py), the client of the certification  *)
(* authority (_acme.py) with its nonces, its one retry, its polls and the  *)
(* listener that answers the authority's challenges, and the writes of the *)
(* new files.  The process may die at every step; the files stay.          *)
(*                                                                         *)
(* The authority, which may refuse, delay or lose everything, is modelled  *)
(* from what the client expects of it.                                     *)
(***************************************************************************)
EXTENDS Integers, FiniteSets

CONSTANTS Domains,    \* config.acme
          MaxIssues   \* bound: certificates that the authority will issue

ASSUME AcmeAssumption ==
  IsFiniteSet(Domains) /\ Domains # {} /\ MaxIssues \in Nat

VARIABLES acme,      \* where the start stands
          left,      \* the authorizations of the order that are not done
          attempt, nonce,   \* of the POST that is due
          kid,       \* registered in this start
          late,      \* the deadline of the poll has passed
          tokens,    \* domains whose challenge is answered
          httpd,     \* the listener that answers them is there
          files,     \* account, chain and key on the disk, and whether the chain is recent
          torn,      \* a start died between the first and the last octet of a pair
          made,      \* account keys and certificates made so far
          ca         \* the authority: accounts, authz, order

clientVars == <<left, attempt, nonce, kid, late, tokens, httpd>>
acmeVars == <<acme, clientVars, files, torn, made, ca>>

\* A file is missing, empty, or of the n-th key or certificate.
Missing == 0
Empty == -1

AcmeInit ==
  /\ acme = "idle" /\ left = {} /\ attempt = 0 /\ nonce = "none" /\ kid = FALSE
  /\ late = FALSE /\ tokens = {} /\ httpd = FALSE
  /\ files = [account |-> Missing, chain |-> Missing, key |-> Missing, recent |-> FALSE]
  /\ torn = FALSE /\ made = [keys |-> 0, chains |-> 0]
  /\ ca = [accounts |-> {}, authz |-> [d \in Domains |-> "none"], order |-> "none"]

OnDisk == <<files, torn, made>>
Flow(where) == acme' = where

-----------------------------------------------------------------------------
(* The files                                                               *)

\* A chain that is younger than 60 days is used again, with the key beside it.
Reuse ==
  /\ acme = "look" /\ files.chain # Missing /\ files.key # Missing /\ files.recent
  /\ Flow("done") /\ UNCHANGED <<clientVars, OnDisk, ca>>

NeedsOne ==
  /\ acme = "look" /\ ~(files.chain # Missing /\ files.key # Missing /\ files.recent)
  /\ Flow("account") /\ UNCHANGED <<clientVars, OnDisk, ca>>

\* The file is there, and empty, before it is written.
MakeAccount ==
  /\ acme = "account" /\ files.account = Missing
  /\ files' = [files EXCEPT !.account = Empty] /\ Flow("saveAccount")
  /\ UNCHANGED <<clientVars, torn, made, ca>>
SaveAccount ==
  /\ acme = "saveAccount" /\ made' = [made EXCEPT !.keys = @ + 1]
  /\ files' = [files EXCEPT !.account = made'.keys] /\ Flow("listen")
  /\ UNCHANGED <<clientVars, torn, ca>>
LoadAccount ==
  /\ acme = "account" /\ files.account # Missing
  /\ Flow(IF files.account = Empty THEN "failed" ELSE "listen")
  /\ UNCHANGED <<clientVars, OnDisk, ca>>

SaveChain ==
  /\ acme = "saveChain"
  /\ \/ files.chain # Empty /\ files' = [files EXCEPT !.chain = Empty, !.recent = TRUE] /\ UNCHANGED acme
     \/ files.chain = Empty /\ files' = [files EXCEPT !.chain = made.chains] /\ Flow("saveKey")
  /\ torn' = TRUE /\ UNCHANGED <<clientVars, made, ca>>

\* Mutant: a key that is there already is not written again.
SaveKeyOnce ==
  /\ acme = "saveKey" /\ Flow("done") /\ torn' = FALSE
  /\ files' = [files EXCEPT !.key = IF @ = Missing THEN made.chains ELSE @]
  /\ UNCHANGED <<clientVars, made, ca>>
SaveKey ==
  /\ acme = "saveKey"
  /\ \/ files.key # Empty /\ files' = [files EXCEPT !.key = Empty] /\ UNCHANGED <<acme, torn>>
     \/ /\ files.key = Empty /\ files' = [files EXCEPT !.key = made.chains]
        /\ Flow("done") /\ torn' = FALSE
  /\ UNCHANGED <<clientVars, made, ca>>

-----------------------------------------------------------------------------
(* The client                                                              *)

NoClient == [left |-> {}, kid |-> FALSE, tokens |-> {}, httpd |-> FALSE]
Client == [left |-> left, kid |-> kid, tokens |-> tokens, httpd |-> httpd]
Becomes(c) == left' = c.left /\ kid' = c.kid /\ tokens' = c.tokens /\ httpd' = c.httpd

\* obtain: the listener first, then the directory.
Listening ==
  /\ acme = "listen" /\ UNCHANGED <<left, attempt, tokens, OnDisk, ca>>
  /\ \/ Flow("directory") /\ httpd' = TRUE
     \/ Flow("failed") /\ UNCHANGED httpd
  /\ nonce' = "none" /\ kid' = FALSE /\ late' = FALSE

Directory ==
  /\ acme = "directory" /\ Flow("register") /\ nonce' \in {"none", "fresh"}
  /\ UNCHANGED <<left, attempt, kid, late, tokens, httpd, OnDisk, ca>>

Posts == {"register", "order", "authz", "challenge", "pollAuthz", "finalize", "pollOrder", "download"}

\* Whatever goes wrong is raised through the finally clauses.
Fails ==
  /\ acme \in Posts \union {"directory"}
  /\ Flow("failed") /\ attempt' = 0 /\ nonce' = "none" /\ late' = FALSE
  /\ Becomes(NoClient)
  /\ UNCHANGED <<OnDisk, ca>>

NewNonce ==
  /\ acme \in Posts /\ nonce = "none" /\ nonce' = "fresh"
  /\ UNCHANGED <<acme, left, attempt, kid, late, tokens, httpd, OnDisk, ca>>

Renewed == nonce' \in {"fresh", "none"}

\* A POST is answered: with the flow's next place, what becomes of the client,
\* and what the authority has done.
Answered(where, c, authority) ==
  /\ nonce # "none" /\ Renewed /\ attempt' = 0 /\ Flow(where) /\ Becomes(c) /\ ca' = authority
  /\ UNCHANGED OnDisk

BadNonce ==
  /\ acme \in Posts /\ nonce # "none" /\ attempt = 0
  /\ Renewed /\ attempt' = 1
  /\ UNCHANGED <<acme, left, kid, late, tokens, httpd, OnDisk, ca>>

\* The authorizations are done in the order of the authority's answer.
Current == CHOOSE d \in left : TRUE

\* The authority may have done its part when the client gets no answer.
Lost ==
  /\ acme \in {"register", "challenge"} /\ nonce # "none"
  /\ ca' = IF acme = "register" THEN [ca EXCEPT !.accounts = @ \union {made.keys}]
           ELSE [ca EXCEPT !.authz[Current] = "processing"]
  /\ Flow("failed") /\ attempt' = 0 /\ nonce' = "none" /\ late' = FALSE
  /\ Becomes(NoClient)
  /\ UNCHANGED OnDisk

Register ==
  /\ acme = "register"
  /\ Answered("order", [Client EXCEPT !.kid = TRUE], [ca EXCEPT !.accounts = @ \union {made.keys}])
  /\ UNCHANGED late

\* An authorization that is valid from before stays valid for a new order.
Order ==
  /\ acme = "order" /\ UNCHANGED late
  /\ Answered("authz", [Client EXCEPT !.left = Domains],
       [ca EXCEPT !.order = "pending",
                  !.authz = [e \in Domains |-> IF @[e] = "valid" THEN "valid" ELSE "pending"]])

Authorized(c) ==
  LET rest == left \ {Current}
  IN Answered(IF rest = {} THEN "finalize" ELSE "authz",
              [c EXCEPT !.left = rest, !.tokens = @ \ {Current}], ca)

Authz ==
  /\ acme = "authz" /\ UNCHANGED late
  /\ IF ca.authz[Current] = "valid" THEN Authorized(Client)
     ELSE Answered("challenge", [Client EXCEPT !.tokens = @ \union {Current}], ca)

Challenge ==
  /\ acme = "challenge" /\ late' = FALSE
  /\ Answered("pollAuthz", Client, [ca EXCEPT !.authz[Current] = "processing"])

\* Mutant: a poll goes on as long as the authority wants.
PollUnbounded(where) == acme = where /\ Answered(where, Client, ca) /\ UNCHANGED late

\* A poll that finds no decision, and is not too late, is repeated.
PollAgain(where) == acme = where /\ ~late /\ Answered(where, Client, ca) /\ UNCHANGED late
PollLate == acme \in {"pollAuthz", "pollOrder"} /\ ~late /\ late' = TRUE
            /\ UNCHANGED <<acme, left, attempt, nonce, kid, tokens, httpd, OnDisk, ca>>

PollAuthz ==
  /\ acme = "pollAuthz"
  /\ \/ ca.authz[Current] = "processing" /\ PollAgain("pollAuthz")
     \/ ca.authz[Current] = "valid" /\ Authorized(Client) /\ UNCHANGED late

Finalize ==
  /\ acme = "finalize" /\ late' = FALSE
  /\ Answered("pollOrder", Client, [ca EXCEPT !.order = "processing"])

PollOrder ==
  \/ ca.order = "processing" /\ PollAgain("pollOrder")
  \/ acme = "pollOrder" /\ ca.order = "valid" /\ Answered("download", Client, ca) /\ UNCHANGED late

\* The listener has gone when the chain is written.
Download ==
  /\ acme = "download" /\ UNCHANGED <<files, torn>>
  /\ Flow("saveChain") /\ nonce # "none" /\ nonce' = "none" /\ attempt' = 0 /\ late' = FALSE
  /\ Becomes(NoClient)
  /\ made' = [made EXCEPT !.chains = @ + 1] /\ ca' = [ca EXCEPT !.order = "none"]

Obtain ==
  \/ Reuse \/ NeedsOne \/ MakeAccount \/ SaveAccount \/ LoadAccount \/ Listening \/ Directory
  \/ NewNonce \/ BadNonce \/ Register \/ Order \/ Authz \/ Challenge \/ PollAuthz
  \/ Finalize \/ PollOrder \/ Download \/ SaveChain \/ SaveKey

-----------------------------------------------------------------------------
(* The authority, and time                                                 *)

\* It validates by a request to the listener of the client.
\* The listener answers with the key authorization of the token, or with 404.
Served(d) == httpd /\ d \in tokens

Validate(d) ==
  /\ ca.authz[d] = "processing"
  /\ \E verdict \in {"invalid"} \union (IF Served(d) THEN {"valid"} ELSE {}) :
       ca' = [ca EXCEPT !.authz[d] = verdict]
  /\ UNCHANGED <<acme, clientVars, OnDisk>>
Issue ==
  /\ ca.order = "processing" /\ made.chains < MaxIssues
  /\ \E verdict \in {"invalid", "valid"} : ca' = [ca EXCEPT !.order = verdict]
  /\ UNCHANGED <<acme, clientVars, OnDisk>>

\* Sixty days go by, in which the authority forgets what it has validated.
Months ==
  /\ acme \in {"idle", "failed"} /\ files.recent
  /\ files' = [files EXCEPT !.recent = FALSE]
  /\ ca' = [ca EXCEPT !.authz = [d \in Domains |-> "none"]]
  /\ UNCHANGED <<acme, clientVars, torn, made>>

Authority == Issue \/ Months \/ \E d \in Domains : Validate(d)

-----------------------------------------------------------------------------
(* Properties                                                              *)

(* The certificate that a start uses is the one of the key beside it, also *)
(* when it was renewed, unless a start died while it wrote the pair; and   *)
(* however often a start fails or dies, the authority knows one account    *)
(* (server.py:504-528, "so restarts don't re-register").                   *)
CertificateSound ==
  /\ files.account \in Empty..1 /\ files.chain \in Empty..MaxIssues /\ files.key \in Empty..MaxIssues
  /\ acme = "done" => torn \/ (files.chain = files.key /\ files.chain > 0)
  /\ Cardinality(ca.accounts) <= 1
  /\ ca.accounts \subseteq {files.account}

(* As long as the authority may ask for the answer to a challenge, the     *)
(* start that still wants the certificate answers it, for each domain in   *)
(* turn; and no listener is left when the start has ended, however it went *)
(* (_acme.py:193, :258).                                                   *)
ChallengeServed ==
  /\ \A d \in left : ca.authz[d] = "processing" => Served(d)
  /\ acme \notin Posts \union {"directory"} => ~httpd /\ tokens = {}

(* A start that ends well has what it asked for, and has kept its part of  *)
(* the exchange (server.py:504-528, _acme.py:193).                         *)
AcmeSound == CertificateSound /\ ChallengeServed
=============================================================================
