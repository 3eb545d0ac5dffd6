-------------------------- MODULE ClientStore_proofs --------------------------
(***************************************************************************)
(* Proofs about ClientStore for any sets of owners, keys and calls and any *)
(* number of dispatches, and about the options that make keys of calls.    *)
(* IInv strengthens the invariants of the runs.                            *)
(***************************************************************************)
EXTENDS ClientStore, ClientOptions, TLAPS

Released == closed \cup collected

UnderWay(c) == call[c] \notin {"idle", "over"}

(* An owner is released at most once, by close() or by its finalizer. *)
ReleasedOnce ==
    \A o \in Owners : releases[o] = IF o \in Released THEN 1 ELSE 0

(* A call under way on a released owner was under way at the release. *)
LateCallsKnown ==
    \A c \in Calls : OwnerOf[c] \in Released /\ UnderWay(c) => c \in lateCalls

(* A client waiting to be inserted was built by the call that inserts it. *)
BuiltByCall ==
    \A c \in Calls : call[c] = "inserting" => built[c] # NoClient /\ built[c].builder = c

(* No client was given at a release that has not happened. *)
GivenInThePast == \A c \in Calls : givenAt[c] <= releases[OwnerOf[c]]

(* ClientsIsolated, without what it says of configurations. *)
KeysIsolated ==
    /\ \A c \in Calls :
          using[c] # NoClient =>
              OwnerOf[using[c].builder] = OwnerOf[c] /\ KeyOf[using[c].builder] = KeyOf[c]
    /\ \A o \in Owners, k \in Keys :
          clients[o][k] # NoClient =>
              OwnerOf[clients[o][k].builder] = o /\ KeyOf[clients[o][k].builder] = k

(* The key covers what a client is built from: CacheKeyCoversConfig shows  *)
(* it of the key the code uses.                                            *)
KeyCoversConfig ==
    \A c, d \in Calls : KeyOf[c] = KeyOf[d] => ConfigsOf[c] = ConfigsOf[d]

IInv ==
    /\ TypeOK
    /\ ReleasedOnce
    /\ LateCallsKnown
    /\ BuiltByCall
    /\ GivenInThePast
    /\ KeysIsolated
    /\ OnePool
    /\ LeftBehindByLateCalls

-----------------------------------------------------------------------------

(* The invariant holds when the program starts. *)
LEMMA InitInv == Init => IInv
<1> USE ClientStoreAssumption
<1> SUFFICES ASSUME Init PROVE IInv
  OBVIOUS
<1>1. TypeOK
  BY DEF Init, TypeOK
<1>2. ReleasedOnce /\ LateCallsKnown /\ BuiltByCall /\ GivenInThePast
  BY DEF Init, ReleasedOnce, LateCallsKnown, BuiltByCall, GivenInThePast, UnderWay, Released
<1>3. KeysIsolated /\ OnePool /\ LeftBehindByLateCalls
  BY DEF Init, KeysIsolated, OnePool, LeftBehindByLateCalls
<1> QED
  BY <1>1, <1>2, <1>3 DEF IInv

(* A step of a call that moves it on and touches no client. *)
LEMMA MoveStep ==
    ASSUME IInv, NEW c \in Calls,
           Fetch(c) \/ Dispatch(c) \/ Finish(c) \/ LookupMiss(c) \/ BuildFails(c)
    PROVE  IInv'
<1> USE ClientStoreAssumption
<1>1. TypeOK'
  <2>1. call' \in [Calls -> {"idle", "running", "lookup", "building", "inserting", "over"}]
    BY DEF IInv, TypeOK, Fetch, Dispatch, Finish, LookupMiss, BuildFails
  <2>2. dispatches' \in [Calls -> Nat]
    BY DEF IInv, TypeOK, Fetch, Dispatch, Finish, LookupMiss, BuildFails
  <2>3. UNCHANGED <<closed, collected, lateCalls, clients, releases, using, givenAt, built>>
    BY DEF Fetch, Dispatch, Finish, LookupMiss, BuildFails, jsVars
  <2> QED
    BY <2>1, <2>2, <2>3 DEF IInv, TypeOK
<1>2. ReleasedOnce' /\ GivenInThePast'
  BY DEF IInv, ReleasedOnce, GivenInThePast, Released, Fetch, Dispatch, Finish, LookupMiss,
         BuildFails, jsVars
<1>3. LateCallsKnown'
  BY DEF IInv, TypeOK, LateCallsKnown, UnderWay, Released, Fetch, Dispatch, Finish, LookupMiss,
         BuildFails, jsVars
<1>4. BuiltByCall'
  BY DEF IInv, TypeOK, BuiltByCall, Fetch, Dispatch, Finish, LookupMiss, BuildFails, jsVars
<1>5. KeysIsolated' /\ OnePool' /\ LeftBehindByLateCalls'
  BY DEF IInv, KeysIsolated, OnePool, LeftBehindByLateCalls, Fetch, Dispatch, Finish,
         LookupMiss, BuildFails, jsVars
<1> QED
  BY <1>1, <1>2, <1>3, <1>4, <1>5 DEF IInv

(* close() and the finalizer empty the owner's variants. *)
LEMMA ReleaseStep ==
    ASSUME IInv, NEW o \in Owners, CloseClient(o) \/ Collect(o)
    PROVE  IInv'
<1> USE ClientStoreAssumption
<1>0. /\ Released' = Released \cup {o}
      /\ o \notin Released
      /\ RemoveClients(o)
  BY DEF CloseClient, Collect, Released
<1>r. /\ releases[o] = 0
      /\ releases' = [releases EXCEPT ![o] = 1]
  <2>1. releases[o] = 0
    BY <1>0 DEF IInv, ReleasedOnce
  <2> QED
    BY <1>0, <2>1 DEF RemoveClients
<1>1. TypeOK'
  <2>1. clients' \in [Owners -> [Keys -> Clients \cup {NoClient}]]
    BY <1>0 DEF IInv, TypeOK, RemoveClients
  <2>2. releases' \in [Owners -> 0..1]
    BY <1>r DEF IInv, TypeOK
  <2>3. closed' \subseteq Owners /\ collected' \subseteq Owners
    BY DEF IInv, TypeOK, CloseClient, Collect
  <2> QED
    BY <1>0, <2>1, <2>2, <2>3 DEF IInv, TypeOK, RemoveClients
<1>2. ReleasedOnce'
  BY <1>0, <1>r DEF IInv, TypeOK, ReleasedOnce
<1>3. LateCallsKnown'
  BY <1>0 DEF IInv, LateCallsKnown, UnderWay, RemoveClients
<1>4. BuiltByCall'
  BY <1>0 DEF IInv, BuiltByCall, RemoveClients
<1>5. GivenInThePast'
  BY <1>0, <1>r DEF IInv, TypeOK, GivenInThePast, RemoveClients
<1>6. KeysIsolated'
  BY <1>0 DEF IInv, TypeOK, KeysIsolated, RemoveClients
<1>7. OnePool'
  <2> SUFFICES ASSUME NEW c \in Calls, using[c] # NoClient, givenAt[c] = releases'[OwnerOf[c]]
               PROVE  clients'[OwnerOf[c]][KeyOf[c]] = using[c]
    BY <1>0 DEF OnePool, RemoveClients
  <2>1. OwnerOf[c] # o
    BY <1>r DEF IInv, TypeOK, GivenInThePast
  <2> QED
    BY <1>0, <1>r, <2>1 DEF IInv, TypeOK, OnePool, RemoveClients
<1>8. LeftBehindByLateCalls'
  <2> SUFFICES ASSUME NEW p \in Released \cup {o}, NEW k \in Keys, clients'[p][k] # NoClient
               PROVE  \E c \in lateCalls' : OwnerOf[c] = p /\ KeyOf[c] = k
    BY <1>0 DEF LeftBehindByLateCalls, Released
  <2>1. p # o /\ p \in Released /\ p \in Owners
    BY <1>0 DEF IInv, TypeOK, RemoveClients, Released
  <2>2. clients[p][k] # NoClient
    BY <1>0, <2>1 DEF IInv, TypeOK, RemoveClients
  <2>3. \E c \in lateCalls : OwnerOf[c] = p /\ KeyOf[c] = k
    BY <2>1, <2>2 DEF IInv, LeftBehindByLateCalls, Released
  <2> QED
    BY <1>0, <2>3 DEF RemoveClients
<1> QED
  BY <1>1, <1>2, <1>3, <1>4, <1>5, <1>6, <1>7, <1>8 DEF IInv

(* get_client hands out what the store holds. *)
LEMMA LookupStep ==
    ASSUME IInv, NEW c \in Calls, LookupHit(c)
    PROVE  IInv'
<1> USE ClientStoreAssumption
<1> DEFINE client == clients[OwnerOf[c]][KeyOf[c]]
<1>k. /\ call[c] = "lookup"
      /\ client # NoClient
      /\ call' = [call EXCEPT ![c] = "running"]
      /\ using' = [using EXCEPT ![c] = client]
      /\ givenAt' = [givenAt EXCEPT ![c] = releases[OwnerOf[c]]]
      /\ UNCHANGED <<closed, collected, lateCalls, clients, releases, dispatches, built>>
  BY DEF LookupHit, Give, jsVars
<1>t. /\ OwnerOf[c] \in Owners /\ KeyOf[c] \in Keys
      /\ client \in Clients
      /\ releases[OwnerOf[c]] \in Nat
  BY <1>k DEF IInv, TypeOK
<1>o. OwnerOf[client.builder] = OwnerOf[c] /\ KeyOf[client.builder] = KeyOf[c]
  BY <1>k, <1>t DEF IInv, KeysIsolated
<1>1. TypeOK'
  <2> HIDE DEF client
  <2> QED
    BY <1>k, <1>t DEF IInv, TypeOK
<1>2. ReleasedOnce' /\ LateCallsKnown'
  BY <1>k DEF IInv, TypeOK, ReleasedOnce, LateCallsKnown, UnderWay, Released
<1>3. BuiltByCall' /\ GivenInThePast'
  BY <1>k, <1>t DEF IInv, TypeOK, BuiltByCall, GivenInThePast
<1>4. KeysIsolated'
  BY <1>k, <1>o DEF IInv, TypeOK, KeysIsolated
<1>5. OnePool'
  BY <1>k DEF IInv, TypeOK, OnePool
<1>6. LeftBehindByLateCalls'
  BY <1>k DEF IInv, LeftBehindByLateCalls
<1> QED
  BY <1>1, <1>2, <1>3, <1>4, <1>5, <1>6 DEF IInv

(* A call that found no client builds one, and keeps it out of CLIENTS for now. *)
LEMMA BuildStep ==
    ASSUME IInv, NEW c \in Calls, Build(c)
    PROVE  IInv'
<1> USE ClientStoreAssumption
<1>0. PICK config \in ConfigsOf[c] :
         built' = [built EXCEPT ![c] =
                      [builder |-> c, dispatch |-> dispatches[c], config |-> config]]
  BY DEF Build
<1> DEFINE client == [builder |-> c, dispatch |-> dispatches[c], config |-> config]
<1>c. client \in Clients /\ client.builder = c
  BY DEF IInv, TypeOK, Clients
<1> HIDE DEF client
<1>b. built' = [built EXCEPT ![c] = client] /\ client # NoClient
  BY <1>0, <1>c DEF client
<1>1. TypeOK'
  BY <1>b, <1>c DEF IInv, TypeOK, Build, jsVars
<1>2. ReleasedOnce' /\ LateCallsKnown' /\ BuiltByCall' /\ GivenInThePast'
  BY <1>b, <1>c DEF IInv, TypeOK, ReleasedOnce, LateCallsKnown, BuiltByCall, GivenInThePast,
         UnderWay, Released, Build, jsVars
<1>3. KeysIsolated' /\ OnePool' /\ LeftBehindByLateCalls'
  BY DEF IInv, KeysIsolated, OnePool, LeftBehindByLateCalls, Build, jsVars
<1> QED
  BY <1>1, <1>2, <1>3 DEF IInv

(* insert_client keeps the client that is there: the call that lost the    *)
(* race takes it over and no call that holds it is left with another.      *)
LEMMA InsertStep ==
    ASSUME IInv, NEW c \in Calls, Insert(c)
    PROVE  IInv'
<1> USE ClientStoreAssumption
<1> DEFINE o == OwnerOf[c]
           k == KeyOf[c]
           kept == IF clients[o][k] = NoClient THEN built[c] ELSE clients[o][k]
<1>k. /\ call[c] = "inserting"
      /\ clients' = [clients EXCEPT ![o][k] = kept]
      /\ call' = [call EXCEPT ![c] = "running"]
      /\ using' = [using EXCEPT ![c] = kept]
      /\ givenAt' = [givenAt EXCEPT ![c] = releases[o]]
      /\ built' = [built EXCEPT ![c] = NoClient]
      /\ UNCHANGED <<closed, collected, lateCalls, releases, dispatches>>
  BY DEF Insert, Give, jsVars
<1>t. /\ o \in Owners /\ k \in Keys
      /\ kept \in Clients
      /\ releases[o] \in Nat
      /\ OwnerOf[kept.builder] = o /\ KeyOf[kept.builder] = k
  BY <1>k DEF IInv, TypeOK, BuiltByCall, KeysIsolated
<1>c. /\ clients'[o][k] = kept
      /\ \A p \in Owners, j \in Keys : p # o \/ j # k => clients'[p][j] = clients[p][j]
  BY <1>k, <1>t DEF IInv, TypeOK
<1> HIDE DEF o, k, kept
<1>1. TypeOK'
  <2>1. clients' \in [Owners -> [Keys -> Clients \cup {NoClient}]]
    BY <1>k, <1>t DEF IInv, TypeOK
  <2> QED
    BY <1>k, <1>t, <2>1 DEF IInv, TypeOK
<1>2. ReleasedOnce' /\ LateCallsKnown'
  BY <1>k DEF IInv, TypeOK, ReleasedOnce, LateCallsKnown, UnderWay, Released
<1>6. BuiltByCall' /\ GivenInThePast'
  BY <1>k, <1>t DEF IInv, TypeOK, BuiltByCall, GivenInThePast, o
<1>3. KeysIsolated'
  BY <1>k, <1>t, <1>c DEF IInv, TypeOK, KeysIsolated, o, k
<1>4. OnePool'
  <2> SUFFICES ASSUME NEW d \in Calls, using'[d] # NoClient, givenAt'[d] = releases[OwnerOf[d]]
               PROVE  clients'[OwnerOf[d]][KeyOf[d]] = using'[d]
    BY <1>k DEF OnePool
  <2>1. CASE d = c
    BY <1>k, <1>c, <2>1 DEF IInv, TypeOK, o, k
  <2>2. CASE d # c
    <3>1. using[d] # NoClient /\ clients[OwnerOf[d]][KeyOf[d]] = using[d] /\ using'[d] = using[d]
      BY <1>k, <2>2 DEF IInv, TypeOK, OnePool
    <3>2. CASE OwnerOf[d] = o /\ KeyOf[d] = k
      BY <1>c, <3>1, <3>2 DEF kept
    <3>3. CASE ~(OwnerOf[d] = o /\ KeyOf[d] = k)
      BY <1>c, <3>1, <3>3
    <3> QED
      BY <3>2, <3>3
  <2> QED
    BY <2>1, <2>2
<1>5. LeftBehindByLateCalls'
  <2> SUFFICES ASSUME NEW p \in Released, NEW j \in Keys, clients'[p][j] # NoClient
               PROVE  \E d \in lateCalls : OwnerOf[d] = p /\ KeyOf[d] = j
    BY <1>k DEF LeftBehindByLateCalls, Released
  <2>0. p \in Owners
    BY DEF IInv, TypeOK, Released
  <2>1. CASE p = o /\ j = k
    BY <1>k, <2>1 DEF IInv, LateCallsKnown, UnderWay, o, k
  <2>2. CASE ~(p = o /\ j = k)
    BY <1>c, <2>0, <2>2 DEF IInv, LeftBehindByLateCalls, Released
  <2> QED
    BY <2>1, <2>2
<1> QED
  BY <1>1, <1>2, <1>3, <1>4, <1>5, <1>6 DEF IInv

-----------------------------------------------------------------------------

(* Every step keeps the invariant. *)
LEMMA NextStep == IInv /\ [Next]_vars => IInv'
<1> SUFFICES ASSUME IInv, [Next]_vars PROVE IInv'
  OBVIOUS
<1>1. ASSUME NEW c \in Calls, CallStep(c) PROVE IInv'
  <2>1. CASE Fetch(c) \/ Dispatch(c) \/ Finish(c) \/ LookupMiss(c) \/ BuildFails(c)
    BY <2>1, MoveStep
  <2>2. CASE LookupHit(c)
    BY <2>2, LookupStep
  <2>3. CASE Build(c)
    BY <2>3, BuildStep
  <2>4. CASE Insert(c)
    BY <2>4, InsertStep
  <2> QED
    BY <1>1, <2>1, <2>2, <2>3, <2>4 DEF CallStep
<1>2. ASSUME NEW o \in Owners, CloseClient(o) \/ Collect(o) PROVE IInv'
  BY <1>2, ReleaseStep
<1>3. CASE UNCHANGED vars
  BY <1>3 DEF vars, jsVars, IInv, TypeOK, ReleasedOnce, LateCallsKnown, BuiltByCall,
              GivenInThePast, KeysIsolated, OnePool, LeftBehindByLateCalls, UnderWay, Released
<1> QED
  BY <1>1, <1>2, <1>3 DEF Next

(* The inductive invariant holds in every behaviour of the client store. *)
THEOREM Invariance == Spec => []IInv
<1> QED
  BY InitInv, NextStep, PTL DEF Spec

(* The variables keep their types; an owner's clients are released at most *)
(* once, although close() and the finalizer both can.                      *)
THEOREM TypeCorrect == Spec => []TypeOK
<1>1. IInv => TypeOK
  BY DEF IInv
<1> QED
  BY <1>1, Invariance, PTL

(* resolve_client never crosses owners or cache keys, and gives no call a  *)
(* configuration it could not have asked for, when the key covers what it  *)
(* may ask for.                                                            *)
THEOREM Isolation ==
    ASSUME KeyCoversConfig
    PROVE  Spec => []ClientsIsolated
<1>1. IInv => ClientsIsolated
  <2> SUFFICES ASSUME IInv PROVE ClientsIsolated
    OBVIOUS
  <2>1. ASSUME NEW c \in Calls, using[c] # NoClient
        PROVE  using[c].config \in ConfigsOf[c]
    <3>1. using[c].builder \in Calls /\ using[c].config \in ConfigsOf[using[c].builder]
      BY <2>1 DEF IInv, TypeOK, Clients
    <3>2. KeyOf[using[c].builder] = KeyOf[c]
      BY <2>1 DEF IInv, KeysIsolated
    <3> QED
      BY <3>1, <3>2 DEF KeyCoversConfig
  <2> QED
    BY <2>1 DEF IInv, KeysIsolated, ClientsIsolated
<1> QED
  BY <1>1, Invariance, PTL

(* Racing builds of one owner and key settle on one client. *)
THEOREM SinglePool == Spec => []OnePool
<1>1. IInv => OnePool
  BY DEF IInv
<1> QED
  BY <1>1, Invariance, PTL

(* What a release leaves behind comes from calls it overtook. *)
THEOREM OnlyLateCallsLeak == Spec => []LeftBehindByLateCalls
<1>1. IInv => LeftBehindByLateCalls
  BY DEF IInv
<1> QED
  BY <1>1, Invariance, PTL

-----------------------------------------------------------------------------
(* The key and the configuration of a call, for all options.               *)

Kinds == {"fetch", "websocket"}

\* A duration that the normalisation accepts.
IsDuration(d) == d \in Nat \cup {Undefined}

(* A duration, however short, never becomes the zero that means "none",    *)
(* and is never cut short: options.ts rounds it up.                        *)
THEOREM DurationsRoundUp ==
    ASSUME NEW d \in Nat
    PROVE  /\ Millis(d) \in Nat
           /\ Millis(d) * Unit >= d
           /\ (Millis(d) = 0) <=> (d = 0)
<1> USE OptionsAssumption
<1> DEFINE m == (d + Unit - 1) \div Unit
<1>1. m \in Nat /\ m * Unit >= d /\ m * Unit < d + Unit
  OBVIOUS
<1>2. Millis(d) = m
  BY DEF Millis
<1>3. d = 0 => m = 0
  <2> SUFFICES ASSUME d = 0, m > 0 PROVE FALSE
    BY <1>1
  <2> QED
    BY <1>1
<1>4. m = 0 => d = 0
  BY <1>1
<1> QED
  BY <1>1, <1>2, <1>3, <1>4

(* The timeout in the key, whatever the options are. *)
LEMMA TimeoutOfKey ==
    ASSUME NEW options
    PROVE  CacheKey(options).timeout = IF options.websocket THEN options.timeout ELSE Undefined
BY DEF CacheKey, KeyedTimeout

(* The timeout of a WebSocket goes into its key, with the default when     *)
(* none is given; a fetch leaves it out.                                   *)
LEMMA NativeTimeout ==
    ASSUME NEW init
    PROVE  /\ NativeOptions("websocket", init).websocket
           /\ NativeOptions("websocket", init).timeout = Or(Millis(init.timeout), 30000)
           /\ ~NativeOptions("fetch", init).websocket
<1>1. NativeOptions("websocket", init).websocket = ("websocket" = "websocket")
  BY DEF NativeOptions
<1>2. NativeOptions("websocket", init).timeout = Or(Millis(init.timeout), 30000)
  BY DEF NativeOptions
<1>3. NativeOptions("fetch", init).websocket = ("fetch" = "websocket")
  BY DEF NativeOptions
<1>4. NativeOptions("websocket", init).websocket
  BY <1>1
<1>5. ~NativeOptions("fetch", init).websocket
  <2>1. "fetch" # "websocket"
    OBVIOUS
  <2> QED
    BY <1>3, <2>1
<1> QED
  BY <1>2, <1>4, <1>5

(* A WebSocket always has a timeout, if only the default, so that its key  *)
(* is never the key of a fetch.                                            *)
LEMMA KindsHaveTheirKeys ==
    ASSUME NEW k \in Kinds, NEW l \in Kinds, NEW x, NEW y,
           IsDuration(x.timeout), IsDuration(y.timeout),
           CacheKey(NativeOptions(k, x)) = CacheKey(NativeOptions(l, y))
    PROVE  k = l
<1> USE OptionsAssumption
<1>1. ASSUME NEW z, IsDuration(z.timeout)
      PROVE  /\ CacheKey(NativeOptions("websocket", z)).timeout \in Nat
             /\ CacheKey(NativeOptions("fetch", z)).timeout = Undefined
  <2>1. Or(Millis(z.timeout), 30000) \in Nat
    <3>1. CASE z.timeout = Undefined
      BY <3>1 DEF Or, Millis
    <3>2. CASE z.timeout \in Nat
      BY <3>2, DurationsRoundUp DEF Or
    <3> QED
      BY <1>1, <3>1, <3>2 DEF IsDuration
  <2>2. /\ CacheKey(NativeOptions("websocket", z)).timeout = Or(Millis(z.timeout), 30000)
        /\ CacheKey(NativeOptions("fetch", z)).timeout = Undefined
    BY TimeoutOfKey, NativeTimeout
  <2> QED
    BY <2>1, <2>2
<1> QED
  BY <1>1 DEF Kinds

(* Calls with the same cache key may ask the binding for the same clients, *)
(* one for each browser that a random mode can draw and just one without   *)
(* it: createNativeClientCacheKey leaves out no option that                *)
(* ClientConfig::from and build_client read, in either kind of call.       *)
THEOREM CacheKeyCoversConfig ==
    ASSUME NEW k \in Kinds, NEW l \in Kinds, NEW x, NEW y,
           IsDuration(x.timeout), IsDuration(y.timeout),
           CacheKey(NativeOptions(k, x)) = CacheKey(NativeOptions(l, y))
    PROVE  ClientConfigs(NativeOptions(k, x)) = ClientConfigs(NativeOptions(l, y))
<1> DEFINE a == NativeOptions(k, x)
           b == NativeOptions(l, y)
<1>k. k = l
  BY KindsHaveTheirKeys
<1>1. a.websocket = b.websocket
  BY <1>k DEF NativeOptions
<1>2. CacheKey(a) = CacheKey(b)
  OBVIOUS
<1> HIDE DEF a, b
<1>3. /\ a.browser = b.browser
      /\ a.browserMode = b.browserMode
      /\ a.browserPlatform = b.browserPlatform
      /\ a.browserHttp2 = b.browserHttp2
      /\ a.browserHeaders = b.browserHeaders
      /\ a.emulationJson = b.emulationJson
  BY <1>2 DEF CacheKey
<1>4. /\ a.proxy = b.proxy
      /\ a.disableSystemProxy = b.disableSystemProxy
      /\ a.dns = b.dns
      /\ a.tcpLinger = b.tcpLinger
      /\ a.poolIdleTimeout = b.poolIdleTimeout
      /\ a.poolMaxIdlePerHost = b.poolMaxIdlePerHost
      /\ a.poolMaxSize = b.poolMaxSize
      /\ a.tlsSessionCacheCapacity = b.tlsSessionCacheCapacity
  BY <1>2 DEF CacheKey
<1>5. /\ a.localAddress = b.localAddress
      /\ a.localAddresses = b.localAddresses
      /\ a.interface = b.interface
      /\ a.tlsIdentity = b.tlsIdentity
      /\ a.ca = b.ca
      /\ a.tlsDebug = b.tlsDebug
      /\ a.tlsDanger = b.tlsDanger
  BY <1>2 DEF CacheKey
<1>6. /\ a.websocket => a.timeout = b.timeout
      /\ ~a.websocket => a.connectTimeout = b.connectTimeout /\ a.httpOnly = b.httpOnly
  BY <1>1, <1>2 DEF CacheKey, KeyedTimeout
<1>7. Mode(a) = Mode(b) /\ Draws(a) = Draws(b)
  BY <1>3 DEF Mode, Draws
<1>8. ASSUME NEW drawn PROVE ClientConfig(a, drawn) = ClientConfig(b, drawn)
  <2>1. Emulation(a, drawn) = Emulation(b, drawn)
    BY <1>3, <1>7 DEF Emulation
  <2> QED
    BY <1>1, <1>4, <1>5, <1>6, <2>1 DEF ClientConfig, LocalBind
<1>9. ClientConfigs(a) = ClientConfigs(b)
  BY <1>7, <1>8 DEF ClientConfigs
<1> QED
  BY <1>9 DEF a, b

(* Hence Isolation needs no premise for the calls of the code, whose key   *)
(* and configurations both come from their options: whatever options       *)
(* fetches and WebSockets of any clients are given, none gets a native     *)
(* client of another owner or key, or of a configuration that its own      *)
(* options, with some draw of the browser, do not describe.  With a random *)
(* browser that may well be the draw of another call with the same key.    *)
THEOREM IsolationByOptions ==
    ASSUME NEW kind \in [Calls -> Kinds], NEW options,
           \A c \in Calls : IsDuration(options[c].timeout),
           KeyOf = [c \in Calls |-> CacheKey(NativeOptions(kind[c], options[c]))],
           ConfigsOf = [c \in Calls |-> ClientConfigs(NativeOptions(kind[c], options[c]))]
    PROVE  Spec => []ClientsIsolated
<1>1. KeyCoversConfig
  <2> SUFFICES ASSUME NEW c \in Calls, NEW d \in Calls, KeyOf[c] = KeyOf[d]
               PROVE  ConfigsOf[c] = ConfigsOf[d]
    BY DEF KeyCoversConfig
  <2>1. CacheKey(NativeOptions(kind[c], options[c])) = CacheKey(NativeOptions(kind[d], options[d]))
    OBVIOUS
  <2>2. kind[c] \in Kinds /\ kind[d] \in Kinds
    OBVIOUS
  <2>3. ClientConfigs(NativeOptions(kind[c], options[c]))
          = ClientConfigs(NativeOptions(kind[d], options[d]))
    BY <2>1, <2>2, CacheKeyCoversConfig
  <2> QED
    BY <2>3
<1> QED
  BY <1>1, Isolation
=============================================================================
