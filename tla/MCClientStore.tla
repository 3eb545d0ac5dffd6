---------------------------- MODULE MCClientStore ----------------------------
(***************************************************************************)
(* ClientStore for TLC, with the keys and configurations that the options  *)
(* of its calls have (ClientOptions).  The first of two owners has two     *)
(* fetches that race for one key, each with a timeout of its own and one   *)
(* with a retry, and a WebSocket with the same options; the second owner   *)
(* has a fetch like the first's.  All ask for a random browser, which is   *)
(* one of two that are alike.                                              *)
(***************************************************************************)
EXTENDS ClientStore, ClientOptions, TLC

CONSTANTS o1, o2, c1, c2, c3, c4, b1, b2

MCOwnerOf == [c \in Calls |-> IF c = c4 THEN o2 ELSE o1]

MCDispatches == [c \in Calls |-> IF c = c1 THEN 2 ELSE 1]

NotGiven == [f \in {"http1Options", "http2Options", "timeout", "connectTimeout",
                    "poolMaxIdlePerHost", "poolMaxSize", "tlsSessionCacheCapacity",
                    "httpOnly", "localAddress", "interface", "tlsIdentity", "tlsDanger"} |-> Undefined]

\* Options that are normalised, on the side that is easy to get wrong.  None of them sets a
\* fetch apart from a WebSocket, except the timeout.
Options(c) ==
    [proxy |-> Off,
     browser |-> [profile |-> Undefined, mode |-> "random", platform |-> Undefined,
                  http2 |-> FALSE, headers |-> Undefined],
     tlsOptions |-> "sessions",
     dns |-> [doh |-> Undefined, dot |-> Undefined, servers |-> {}, hosts |-> {"internal"}],
     localAddresses |-> [ipv4 |-> Undefined, ipv6 |-> Undefined],
     ca |-> [certs |-> <<"root">>, includeDefaultRoots |-> Undefined],
     tlsDebug |-> [peerCertificates |-> FALSE, keylog |-> Undefined],
     poolIdleTimeout |-> 15,
     tcpLinger |-> 0]
    @@ [NotGiven EXCEPT !.timeout = CASE c = c1 -> 15 [] c = c2 -> 0 [] OTHER -> Undefined]

MCNative == [c \in Calls |-> NativeOptions(IF c = c3 THEN "websocket" ELSE "fetch", Options(c))]

MCKeyOf == [c \in Calls |-> CacheKey(MCNative[c])]

MCKeys == {CacheKey(MCNative[c]) : c \in Calls}

MCConfigsOf == [c \in Calls |-> ClientConfigs(MCNative[c])]

MCDrawn == [mode \in {"random"} |-> {b1, b2}]

MCSymmetry == Permutations({b1, b2})
=============================================================================
