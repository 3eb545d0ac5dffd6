---------------------------- MODULE ClientOptions -----------------------------
(***************************************************************************)
(* What the options of a call make of its native client.  fetch and the    *)
(* WebSocket class normalise them (src/http/pipeline/options.ts,           *)
(* src/websocket/index.ts, src/config/), createNativeClientCacheKey draws  *)
(* the key of CLIENTS from the result (src/native/client-cache.ts), and    *)
(* the binding turns the same result into the ClientConfig it builds a     *)
(* client from (rust/src/napi/convert.rs, rust/src/transport/client.rs).   *)
(*                                                                         *)
(* Undefined is an option that is not given, Off is `false`.  Durations    *)
(* are given in fractions of a millisecond, Unit of them to one; options   *)
(* the code refuses are left out, and what it only hands on is any value.  *)
(***************************************************************************)
EXTENDS Naturals

CONSTANTS
    Undefined, Off, Unit,
    Drawn          \* the browsers that the library draws from, for each random mode

ASSUME OptionsAssumption ==
    /\ Unit \in Nat \ {0}
    /\ Undefined \notin Nat
    /\ Off \notin Nat \cup {Undefined}

Or(value, default) == IF value = Undefined THEN default ELSE value

\* resolveNativeTimeout, resolveNativeDuration, normalizeTcpLinger: part of a millisecond
\* counts as one, and nothing but zero becomes zero.
Millis(d) == IF d = Undefined THEN Undefined ELSE (d + Unit - 1) \div Unit

\* Zero means no timeout to the binding.
Limit(millis, default) == IF Or(millis, default) = 0 THEN Undefined ELSE Or(millis, default)

\* normalizeProxyOptions: `false` keeps the system's proxy out too.
Proxy(proxy) ==
    [proxy |-> IF proxy = Off THEN Undefined ELSE proxy,
     disableSystemProxy |-> proxy = Off]

\* normalizeBrowserEmulation: a profile alone is a fixed one.
Browser(browser) ==
    IF browser = Undefined
      THEN [f \in {"profile", "mode", "platform", "http2", "headers"} |-> Undefined]
      ELSE [browser EXCEPT !.mode = Or(browser.mode, "fixed")]

\* What is given with nothing in it is not given.
Given(value, fields) ==
    IF value = Undefined \/ \A f \in fields : value[f] = Undefined THEN Undefined ELSE value

\* serializeEmulationOptions
EmulationJson(init) ==
    Given([tls |-> init.tlsOptions, http1 |-> init.http1Options, http2 |-> init.http2Options],
          {"tls", "http1", "http2"})

\* normalizeDnsOptions: an empty list of servers is none, `hosts` counts even without a name.
Dns(dns) ==
    IF dns # Undefined /\ dns.servers = {} THEN Given(dns, {"doh", "dot", "hosts"})
    ELSE Given(dns, {"doh", "dot", "servers", "hosts"})

\* normalizeLocalBindOptions
LocalAddresses(addresses) == Given(addresses, {"ipv4", "ipv6"})

\* normalizeCertificateAuthority
Authority(ca) ==
    IF ca = Undefined THEN Undefined
    ELSE [ca EXCEPT !.includeDefaultRoots = Or(ca.includeDefaultRoots, FALSE)]

\* normalizeTlsDebug, normalizeTlsDanger
TlsDebug(debug) == Given(debug, {"peerCertificates", "keylog"})
TlsDanger(danger) == Given(danger, {"certVerification", "verifyHostname", "sni"})

\* buildNativeRequest and #connect, as far as the client goes.
NativeOptions(kind, init) ==
    LET browser == Browser(init.browser)
        proxy == Proxy(init.proxy)
    IN
    [websocket |-> kind = "websocket",
     browser |-> browser.profile,
     browserMode |-> browser.mode,
     browserPlatform |-> browser.platform,
     browserHttp2 |-> browser.http2,
     browserHeaders |-> browser.headers,
     emulationJson |-> EmulationJson(init),
     proxy |-> proxy.proxy,
     disableSystemProxy |-> proxy.disableSystemProxy,
     dns |-> Dns(init.dns),
     timeout |-> IF kind = "websocket" THEN Or(Millis(init.timeout), 30000)
                                       ELSE Millis(init.timeout),
     connectTimeout |-> Millis(init.connectTimeout),
     tcpLinger |-> Millis(init.tcpLinger),
     poolIdleTimeout |-> init.poolIdleTimeout,
     poolMaxIdlePerHost |-> init.poolMaxIdlePerHost,
     poolMaxSize |-> init.poolMaxSize,
     tlsSessionCacheCapacity |-> init.tlsSessionCacheCapacity,
     httpOnly |-> init.httpOnly,
     localAddress |-> init.localAddress,
     localAddresses |-> LocalAddresses(init.localAddresses),
     interface |-> init.interface,
     tlsIdentity |-> init.tlsIdentity,
     ca |-> Authority(init.ca),
     tlsDebug |-> TlsDebug(init.tlsDebug),
     tlsDanger |-> TlsDanger(init.tlsDanger)]

\* Defect: the timeout is left out of every key.
KeyedTimeoutOfNone(options) == Undefined

\* A timeout is one of the client for a WebSocket only.
KeyedTimeout(options) == IF options.websocket THEN options.timeout ELSE Undefined

\* A connect timeout is no option of a WebSocket, and neither are http1Only and http2Only
\* (here: httpOnly).
CacheKey(options) ==
    [browser |-> options.browser,
     browserMode |-> options.browserMode,
     browserPlatform |-> options.browserPlatform,
     browserHttp2 |-> options.browserHttp2,
     browserHeaders |-> options.browserHeaders,
     emulationJson |-> options.emulationJson,
     proxy |-> options.proxy,
     disableSystemProxy |-> options.disableSystemProxy,
     dns |-> options.dns,
     timeout |-> KeyedTimeout(options),
     connectTimeout |-> IF options.websocket THEN Undefined ELSE options.connectTimeout,
     tcpLinger |-> options.tcpLinger,
     poolIdleTimeout |-> options.poolIdleTimeout,
     poolMaxIdlePerHost |-> options.poolMaxIdlePerHost,
     poolMaxSize |-> options.poolMaxSize,
     tlsSessionCacheCapacity |-> options.tlsSessionCacheCapacity,
     httpOnly |-> IF options.websocket THEN Undefined ELSE options.httpOnly,
     localAddress |-> options.localAddress,
     localAddresses |-> options.localAddresses,
     interface |-> options.interface,
     tlsIdentity |-> options.tlsIdentity,
     ca |-> options.ca,
     tlsDebug |-> options.tlsDebug,
     tlsDanger |-> options.tlsDanger]

-----------------------------------------------------------------------------
(* The binding.                                                            *)

Mode(options) == Or(options.browserMode, "fixed")

\* The modes "random" and "weighted-random" draw a browser in every conversion of the options.
Draws(options) == IF Mode(options) = "fixed" THEN {Undefined} ELSE Drawn[Mode(options)]

\* resolve_emulation: one that is drawn asks for no browser and no platform.
Emulation(options, drawn) ==
    [profile |-> IF Mode(options) = "fixed"
                   THEN <<Or(options.browser, "chrome_149"), Or(options.browserPlatform, "macos")>>
                   ELSE drawn,
     http2 |-> options.browserHttp2 # Off,
     headers |-> options.browserHeaders # Off,
     payload |-> options.emulationJson]

\* configure_client_builder of dns.rs: DoH, else DoT, else the servers; without servers the
\* system.  `hosts` overrides them, and the servers also find the host of the other two.
Resolver(dns) ==
    IF dns = Undefined THEN Undefined
    ELSE [by |-> IF dns.doh # Undefined THEN <<"doh", dns.doh>>
                 ELSE IF dns.dot # Undefined THEN <<"dot", dns.dot>>
                 ELSE IF Or(dns.servers, {}) # {} THEN <<"servers", dns.servers>>
                 ELSE <<"system">>,
          bootstrap |-> Or(dns.servers, {}),
          overrides |-> Or(dns.hosts, {})]

\* js_object_to_pool_idle_timeout: only here is a fraction rounded up.
PoolIdleTimeout(timeout) == IF timeout = Off THEN Off ELSE Millis(timeout)

\* js_object_to_local_bind_options
LocalBind(options) ==
    Given([address |-> options.localAddress, addresses |-> options.localAddresses,
           interface |-> options.interface],
          {"address", "addresses", "interface"})

\* js_object_to_tls_debug_options: to ask for no certificates is to ask for nothing.
TlsInfo(debug) ==
    IF debug = Undefined THEN Undefined
    ELSE Given([debug EXCEPT !.peerCertificates = IF @ = TRUE THEN TRUE ELSE Undefined],
               {"peerCertificates", "keylog"})

\* ClientConfig::from and what build_client makes of it.
ClientConfig(options, drawn) ==
    [emulation |-> Emulation(options, drawn),
     proxy |-> IF options.disableSystemProxy THEN Off ELSE options.proxy,
     resolver |-> Resolver(options.dns),
     timeout |-> IF options.websocket THEN Limit(options.timeout, 30000) ELSE Undefined,
     connectTimeout |-> IF options.websocket THEN Undefined
                                             ELSE Limit(options.connectTimeout, 0),
     tcpLinger |-> options.tcpLinger,
     poolIdleTimeout |-> PoolIdleTimeout(options.poolIdleTimeout),
     poolSize |-> <<options.poolMaxIdlePerHost, options.poolMaxSize>>,
     tlsSessionCacheCapacity |-> options.tlsSessionCacheCapacity,
     httpOnly |-> IF options.websocket THEN Undefined ELSE options.httpOnly,
     localBind |-> LocalBind(options),
     tls |-> <<options.tlsIdentity, options.ca, TlsInfo(options.tlsDebug), options.tlsDanger>>]

\* What the options of a call may ask the binding for.
ClientConfigs(options) == {ClientConfig(options, drawn) : drawn \in Draws(options)}
=============================================================================
