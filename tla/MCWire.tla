------------------------------- MODULE MCWire -------------------------------
(***************************************************************************)
(* A small instance of Wire.                                               *)
(***************************************************************************)
EXTENDS Wire, TLC

CONSTANTS k1, n1, n2

Value == << <<"v">> >>

(* A key that is a word and one that is not; the third line asks nothing.  *)
Lines == {Line("update", <<"a">>, Value), Line("read", <<"foo", "-", "bar">>, <<>>),
          Line("read", <<>>, <<>>)}

Asked(lines) == k1 :> {CommandRequest(line) : line \in {x \in lines : IsCommand(x)}}

MCRequests == Asked(Lines)

(* Lines by which kvclient asks for what the code does not do.             *)
UpdateOfCreate == Asked({Line("update", <<"create">>, Value)})
CreateOfNoWord == Asked({Line("create", <<"foo", "-", "bar">>, Value)})

MCMaxCalls == k1 :> 2

(* The commands that k1 does not give.                                     *)
MCRawAsks == <<CommandRequest(Line("create", <<"b">>, Value)),
               CommandRequest(Line("delete", <<"create">>, <<>>))>>

MCCandidateLists ==
    [k \in {getKey(r) : r \in Asks} \union {<<"create">>} |-> {<<>>, <<n1, n2>>}]
=============================================================================
