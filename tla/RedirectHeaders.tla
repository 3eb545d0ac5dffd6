---------------------------- MODULE RedirectHeaders ----------------------------
(***************************************************************************)
(* The headers of one call along its redirects: the program and its hooks  *)
(* edit them, and every redirect copies them, strips what belongs to the   *)
(* old request and rewrites the Referer (src/http/pipeline/redirects.ts,   *)
(* src/http/fetch.ts).  A URL is its origin; a Referer is its origin and   *)
(* how much else it shows.                                                 *)
(***************************************************************************)
EXTENDS Headers

CONSTANTS
    Secure, Insecure,   \* the https and the http origins
    Values,             \* the values of the other headers
    PolicyLists,        \* what Referrer-Policy headers list
    Defaults,           \* headers of the client
    MaxHops,            \* bound: redirects
    MaxEntries          \* bound: tuples

\* "Referer" is the spelling the code uses; a policy list and the client's headers are lists.
ASSUME RedirectAssumption ==
    /\ Secure \cap Insecure = {}
    /\ "Referer" \in Names /\ KeyOf["Referer"] = "referer"
    /\ PolicyLists \subseteq Seq(STRING)
    /\ \A d \in Defaults :
          /\ d \in Seq({d[i] : i \in DOMAIN d})
          /\ \A i \in DOMAIN d : d[i][1] \in Names /\ d[i] = <<d[i][1], d[i][2]>>

VARIABLES
    headers,        \* request.headers
    at,             \* the origin of request.url
    policy,         \* referrerPolicy
    hops,           \* redirectChain.length
    known,          \* the policy the responses have set, by the standard
    due             \* the Referer the standard asks for

vars == <<headers, at, policy, hops, known, due>>

Origins == Secure \cup Insecure
Policies == {"no-referrer", "no-referrer-when-downgrade", "same-origin", "origin",
             "strict-origin", "origin-when-cross-origin",
             "strict-origin-when-cross-origin", "unsafe-url"}
Credentials == {"authorization", "cookie", "cookie2", "proxy-authorization"}

\* What a Referer shows: nothing (there is none, or it is no http URL), its origin, path and
\* query as well, user, password or fragment as well; or it is longer than 4096.
NoReferer == [origin |-> "", shows |-> "nothing"]
Given == [origin |-> "", shows |-> "as given"]
Referers == {NoReferer} \cup
            [origin : Origins, shows : {"origin", "path", "private", "long"}]

\* A credential is named by the origin it is meant for.
ValuesOf(name) ==
    IF KeyOf[name] = "referer" THEN Referers
    ELSE IF KeyOf[name] \in Credentials THEN {at}
    ELSE Values

Init ==
    /\ at \in Origins
    /\ \E d \in Defaults, n \in Names : \E v \in ValuesOf(n) :
          /\ \A i \in DOMAIN d : d[i][2] \in ValuesOf(d[i][1])
          /\ headers = MergeHeaders(d, << <<n, v>> >>)
    /\ policy = "strict-origin-when-cross-origin"
    /\ hops = 0
    /\ known = policy /\ due = Given

-----------------------------------------------------------------------------
(* The program, before the call, and its hooks.                            *)

Edited(name) ==
    /\ due' = IF KeyOf[name] = "referer" THEN Given ELSE due
    /\ UNCHANGED <<at, policy, hops, known>>

AppendHeader(name, value) ==
    /\ Len(headers.entriesList) < MaxEntries
    /\ headers' = AppendTo(headers, name, value)
    /\ Edited(name)

SetHeader(name, value) ==
    /\ headers' = SetIn(headers, name, value)
    /\ Len(headers'.entriesList) <= MaxEntries
    /\ Edited(name)

DeleteHeader(name) ==
    /\ headers' = DeleteFrom(headers, {KeyOf[name]})
    /\ Edited(name)

-----------------------------------------------------------------------------
(* Redirects.                                                              *)

\* Defect: credentials go only when the connection is downgraded.
StripOnDowngrade(h, from, to, bodyDropped) ==
    DeleteFrom(h, {"host", "content-length"}
                  \cup (IF bodyDropped THEN {"content-type"} ELSE {})
                  \cup (IF from \in Secure /\ to \in Insecure THEN Credentials ELSE {}))

StripRedirectSensitiveHeaders(h, from, to, bodyDropped) ==
    DeleteFrom(h, {"host", "content-length"}
                  \cup (IF bodyDropped THEN {"content-type"} ELSE {})
                  \cup (IF from # to THEN Credentials ELSE {}))

\* The last token that is a policy; none means the policy stays.
ResponseReferrerPolicy(tokens, current) ==
    LET policyBy[i \in 0..Len(tokens)] ==
            IF i = 0 THEN current
            ELSE IF tokens[i] \in Policies THEN tokens[i] ELSE policyBy[i - 1]
    IN policyBy[Len(tokens)]

\* get() joins the values of a repeated header with commas: they end up in the path.
ParseReferrer(h) ==
    LET values == Get(h, "referer") IN
    IF values = <<>> \/ Head(values) = NoReferer THEN NoReferer
    ELSE [origin |-> Head(values).origin,
          shows |-> IF Head(values).shows = "long" THEN "origin"
                    ELSE IF Head(values).shows = "origin" /\ Len(values) = 1 THEN "origin"
                    ELSE "path"]

ApplyRedirectReferrerPolicy(h, to, p) ==
    LET referrer == ParseReferrer(h)
        sameOrigin == referrer.origin = to
        downgrade == referrer.origin \in Secure /\ to \in Insecure
        dropped == CASE p = "no-referrer" -> TRUE
                     [] p \in {"no-referrer-when-downgrade", "strict-origin"} -> downgrade
                     [] p = "same-origin" -> ~sameOrigin
                     [] p = "strict-origin-when-cross-origin" -> ~sameOrigin /\ downgrade
                     [] OTHER -> FALSE
        stripToOrigin == CASE p \in {"origin", "strict-origin"} -> TRUE
                           [] p \in {"origin-when-cross-origin",
                                     "strict-origin-when-cross-origin"} -> ~sameOrigin
                           [] OTHER -> FALSE
    IN IF referrer = NoReferer \/ dropped THEN DeleteFrom(h, {"referer"})
       ELSE SetIn(h, "Referer",
                  IF stripToOrigin THEN [referrer EXCEPT !.shows = "origin"] ELSE referrer)

\* The standard's answer, for a referrer of origin `from`: how much a request to `to` may
\* show of it.
Discloses(p, from, to) ==
    LET downgrade == from \in Secure /\ to \in Insecure
        nothing == {"no-referrer"}
                   \cup (IF from # to THEN {"same-origin"} ELSE {})
                   \cup (IF downgrade THEN {"no-referrer-when-downgrade", "strict-origin",
                                           "strict-origin-when-cross-origin"} ELSE {})
        everything == {"unsafe-url", "no-referrer-when-downgrade"}
                      \cup (IF from = to THEN {"same-origin", "origin-when-cross-origin",
                                              "strict-origin-when-cross-origin"} ELSE {})
    IN IF p \in nothing THEN "nothing" ELSE IF p \in everything THEN "path" ELSE "origin"

\* The last policy a response has named.
Known(tokens) ==
    LET named == {i \in DOMAIN tokens : tokens[i] \in Policies} IN
    IF named = {} THEN known ELSE tokens[CHOOSE i \in named : \A j \in named : j <= i]

\* The Referer of the request, cut down to what may be shown.
Due(p, to) ==
    LET r == IF due = Given THEN ParseReferrer(headers) ELSE due
        may == Discloses(p, r.origin, to)
    IN IF r = NoReferer \/ may = "nothing" THEN NoReferer
       ELSE [r EXCEPT !.shows = IF may = "origin" THEN "origin" ELSE @]

\* fetch(): _replace copies the headers of the request, the copy is stripped and rewritten.
Redirect(to, bodyDropped, tokens) ==
    /\ hops < MaxHops
    /\ hops' = hops + 1
    /\ at' = to
    /\ policy' = ResponseReferrerPolicy(tokens, policy)
    /\ headers' = ApplyRedirectReferrerPolicy(
                     StripRedirectSensitiveHeaders(CopyOf(headers), at, to, bodyDropped),
                     to, policy')
    /\ known' = Known(tokens)
    /\ due' = Due(known', to)

Next ==
    \/ \E n \in Names :
          \/ \E v \in ValuesOf(n) : AppendHeader(n, v) \/ SetHeader(n, v)
          \/ DeleteHeader(n)
    \/ \E to \in Origins, bodyDropped \in BOOLEAN, tokens \in PolicyLists :
          Redirect(to, bodyDropped, tokens)

Spec == Init /\ [][Next]_vars

-----------------------------------------------------------------------------
(* What get() tells a hook is what goes to the wire: after any edits, merges and redirects
   both representations of the headers agree, and a copy of them is the same again. *)
RepresentationsAgree == Agree(headers) /\ CopyOf(headers) = headers

(* No redirect carries a credential to an origin it was not meant for, in any spelling or
   repetition; and the Referer shows what the Referrer Policy standard allows after all the
   redirects since it was set, no more and no less. *)
RedirectsRevealNoMore ==
    /\ \A i \in DOMAIN headers.entriesList :
          KeyAt(headers, i) \in Credentials => headers.entriesList[i][2] = at
    /\ due # Given => Get(headers, "referer") = IF due = NoReferer THEN <<>> ELSE <<due>>
=============================================================================
