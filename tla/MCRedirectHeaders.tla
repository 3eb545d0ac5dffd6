-------------------------- MODULE MCRedirectHeaders ---------------------------
(***************************************************************************)
(* A small instance of RedirectHeaders: one http and two https origins,    *)
(* two spellings of Cookie, every policy alone, and lists that mix them.   *)
(***************************************************************************)
EXTENDS RedirectHeaders

MCKeyOf == [n \in Names |-> CASE n = "Referer" -> "referer"
                              [] n \in {"Cookie", "cookie"} -> "cookie"
                              [] n = "Content-Type" -> "content-type"]
MCPolicyLists ==
    {<<p>> : p \in Policies}
    \cup {<<>>, <<"unknown">>, <<"unsafe-url", "same-origin">>, <<"no-referrer", "unknown">>}
MCDefaults == {<<>>, << <<"Content-Type", "v">>, <<"Content-Type", "w">> >>}
=============================================================================
