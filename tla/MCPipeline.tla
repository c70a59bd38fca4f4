---------------------------- MODULE MCPipeline -----------------------------
(***************************************************************************)
(* An instance of Pipeline for TLC: a trusted platform, one named by a     *)
(* policy and one unknown; roots that differ in issuer, signature, depth   *)
(* and grant; foreign elements with every fault a step looks for.          *)
(***************************************************************************)
EXTENDS Pipeline

Uri(path) == [authority |-> "tool", path |-> path]

Cap(can, path, constraints) ==
    [can |-> can, with |-> Uri(path), constraints |-> constraints]

Window(from, to) == [type |-> "time_window", start |-> from, end |-> to]
Only(actions) == [type |-> "action_restrict", actions |-> actions]
Below(path) == [type |-> "resource_restrict", resource |-> Uri(path)]
AtMost(n) == [type |-> "param_limit", field |-> "amount", max |-> n]
DepthOf(n) == [type |-> "delegation_depth", max |-> n]
Region == [type |-> "geo_fence"]
Calls == [type |-> "max_calls", limit |-> 1]
Methods(ms) == [type |-> "method_restrict", methods |-> ms]

Delegation(n) == Cap("agent/delegate", <<"*">>, <<DepthOf(n)>>)
Read == Cap("resource/read", <<"doc", "*">>, <<>>)
ReadEarly == Cap("resource/read", <<"doc", "a">>, <<Window(0, 3)>>)
Write == Cap("resource/write", <<"doc", "a">>, <<AtMost(1)>>)
Unknown == Cap("resource/erase", <<"doc", "a">>, <<>>)

Token(iss, signer, nbf, exp, att) ==
    [kind |-> "ucan", iss |-> iss, aud |-> "alice", signer |-> signer,
     nbf |-> nbf, exp |-> exp, att |-> att, proofs |-> 0]

MCRoots ==
    {Token("platform", "platform", 2, 4, <<Delegation(2), ReadEarly, Write, Read>>),
     Token("platform", "platform", 0, 4, <<Read>>),
     Token("platform", "bob", 2, 4, <<Delegation(1), Read>>),
     Token("platform", "platform", 2, 4, <<Delegation(1), Unknown, Read>>),
     Token("partner", "partner", 2, 4, <<Delegation(2), Read, Write>>),
     Token("stranger", "stranger", 2, 4, <<Delegation(1), Read>>)}

ForeignBlock(iss, signer, dl, nbf, exp, cav) ==
    [kind |-> "block", iss |-> iss, aud |-> "bob", signer |-> signer,
     nbf |-> nbf, exp |-> exp, dl |-> dl, cav |-> cav, crit |-> {}]

MCForeign ==
    {ForeignBlock(i, s, dl, nbf, exp, cav) :
        i \in {"alice", "bob"}, s \in {"alice", "bob"}, dl \in -1..1,
        nbf \in {0, 2}, exp \in {0, 4, 5}, cav \in {<<Only({"resource/read"})>>}}
    \cup {[ForeignBlock("alice", "alice", 0, 2, 4, <<c>>) EXCEPT !.crit = x] :
            c \in {Region, Calls, Methods({"GET"}), Below(<<"doc", "b">>)},
            x \in {{}, {"ext"}}}
    \cup {ForeignBlock("alice", "alice", 0, 2, 4, <<>>)}
    \cup {[Token("alice", "alice", 2, 4, <<Write>>) EXCEPT !.proofs = 1]}

MCCaveatLists ==
    {<<>>, <<AtMost(-1)>>, <<Window(3, 5)>>, <<Only({"resource/read"}), Below(<<"doc", "*">>)>>,
     <<AtMost(0), Methods({"GET"})>>, <<Region, Region, Region>>}

MCInvocations ==
    {[action |-> a, resource |-> r, method |-> "GET", params |-> p, now |-> t, sender |-> s] :
        a \in {"resource/read", "resource/write"},
        r \in {Uri(<<"doc", "a">>), Uri(<<"doc", "*">>), Uri(<<"doc", "a", "b">>), NoURI},
        p \in {<<>>},
        t \in {1, 3, 6}, s \in {"alice", "bob"}}
    \cup
    {[action |-> "resource/write", resource |-> Uri(<<"doc", "a">>), method |-> "PUT",
      params |-> [amount |-> [integral |-> b, n |-> n]], now |-> 2, sender |-> "alice"] :
        b \in BOOLEAN, n \in {0, 2}}

MCTrustPolicies ==
    <<[platforms |-> {"partner"}, maxDepth |-> 1], [platforms |-> {"partner"}, maxDepth |-> 0]>>
=============================================================================
