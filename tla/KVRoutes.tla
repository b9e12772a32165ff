------------------------------ MODULE KVRoutes ------------------------------
(***************************************************************************)
(* The requests of the key-value interface: how kvserver finds the handler *)
(* of one, how the load balancer finds the key that it routes by, and what *)
(* the command-line client asks.                                           *)
(*                                                                         *)
(* A text is a sequence of pieces: a run of characters that \w matches, or *)
(* one other character.  A request is a record [method, path, body]: path  *)
(* is the target, a text, and body the sequence of the words in the body,  *)
(* texts as well.  There are no escapes of word characters (%61) in it.    *)
(***************************************************************************)
EXTENDS Naturals, Sequences

(* The other characters; "-" stands for all those without a meaning here.  *)
Signs == {"/", "?", "#", "-"}

IsWord(piece) == piece \notin Signs

(* "(\w+)" in a pattern.                                                   *)
Word == "(w+)"

Methods == {"GET", "POST", "PUT", "DELETE"}

(* RegexMatcher::match: regex_match matches all of the path.               *)
match(pattern, path) ==
    /\ Len(pattern) = Len(path)
    /\ \A i \in DOMAIN path :
          pattern[i] = path[i] \/ (pattern[i] = Word /\ IsWord(path[i]))

(* Server::parse_request_line cuts the query and the fragment off.         *)
PathOf(target) ==
    LET cuts == {i \in DOMAIN target : target[i] \in {"?", "#"}} IN
    IF cuts = {} THEN target
    ELSE SubSeq(target, 1, (CHOOSE i \in cuts : \A j \in cuts : i <= j) - 1)

Route(method, pattern, handler) ==
    [method |-> method, pattern |-> pattern, handler |-> handler]

(* Server::Get, Post, Put and Delete keep a list per method; the patterns  *)
(* and their order are those of main.                                      *)
Create == <<"/", "kvstore", "/", "create">>
KeyPath(key) == <<"/", "kvstore", "/">> \o key

Routes == <<
    Route("POST",   Create,                                   "handle_create"),
    Route("PUT",    KeyPath(<<Word>>),                        "handle_update"),
    Route("DELETE", KeyPath(<<Word>>),                        "handle_delete"),
    Route("GET",    KeyPath(<<"allkeys">>),                   "handle_all_keys"),
    Route("GET",    KeyPath(<<Word>>),                        "handle_read"),
    Route("GET",    <<"/", "health">>,                        "health"),
    Route("POST",   <<"/", "kvstore", "/", "sync", "/", Word>>, "handle_sync") >>

Matching(r) ==
    {i \in DOMAIN Routes :
        Routes[i].method = r.method /\ match(Routes[i].pattern, PathOf(r.path))}

Routed(r) == Matching(r) # {}

(* dispatch_request: the first of the method's handlers that matches.      *)
Handler(r) ==
    Routes[CHOOSE i \in Matching(r) : \A j \in Matching(r) : i <= j].handler

(* Every handler but that of /health sets Connection: close.               *)
SetsClose(r) == Handler(r) # "health"

(* The key a handler works on: the first word of the body in               *)
(* handle_create, req.matches[1], the end of the path, in the others.      *)
HandlerKey(r) ==
    LET path == PathOf(r.path) IN
    IF Handler(r) = "handle_create" THEN r.body[1] ELSE <<path[Len(path)]>>

(* What follows the last slash, or all when nothing does.                  *)
LastSegment(path) ==
    LET slashes == {i \in DOMAIN path : path[i] = "/"}
        last == CHOOSE i \in slashes : \A j \in slashes : j <= i
    IN  IF slashes # {} /\ last < Len(path) THEN SubSeq(path, last + 1, Len(path)) ELSE path

PathKey(r) ==  \* bug: the body of a create is not looked at
    LastSegment(r.path)

(* HttpRequest::getKey.                                                    *)
getKey(r) ==
    IF r.path = Create /\ r.body # <<>> THEN r.body[1] ELSE LastSegment(r.path)

-----------------------------------------------------------------------------
(* kvclient: a line is a command, a key and the words of a value, of which *)
(* the last two may be missing.  One that is not understood asks nothing.  *)
Line(cmd, key, value) == [cmd |-> cmd, key |-> key, value |-> value]

HasKey(line) == line.key # <<>>
HasValue(line) == line.value # <<>>

IsCommand(line) ==
    \/ line.cmd \in {"create", "update"} /\ HasKey(line) /\ HasValue(line)
    \/ line.cmd \in {"delete", "read"} /\ HasKey(line)

Ask(method, path, body) == [method |-> method, path |-> path, body |-> body]

CommandRequest(line) ==
    CASE line.cmd = "create" -> Ask("POST", Create, <<line.key>> \o line.value)
      [] line.cmd = "update" -> Ask("PUT", KeyPath(line.key), line.value)
      [] line.cmd = "delete" -> Ask("DELETE", KeyPath(line.key), <<>>)
      [] line.cmd = "read"   -> Ask("GET", KeyPath(line.key), <<>>)

(* What the health checker and the recovery manager ask.                   *)
HealthRequest == Ask("GET", <<"/", "health">>, <<>>)

AllKeysRequest == Ask("GET", KeyPath(<<"allkeys">>), <<>>)

SyncRequest(key, value) == Ask("POST", <<"/", "kvstore", "/", "sync", "/">> \o key, value)
=============================================================================
