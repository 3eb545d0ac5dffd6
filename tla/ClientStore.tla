----------------------------- MODULE ClientStore -----------------------------
(***************************************************************************)
(* The native clients behind createClient: WreqClient in                   *)
(* src/client/index.ts, resolve_client in rust/src/transport/client.rs and *)
(* CLIENTS in rust/src/store/client_store.rs.                              *)
(*                                                                         *)
(* Each element of Calls is one call of fetch or websocket on a WreqClient *)
(* (its owner), with options that give one cache key.  It dispatches once  *)
(* for each attempt and redirect.  A native client is known by the call    *)
(* and the dispatch that built it, hence by that call's owner and key, and *)
(* by the configuration it was built from.                                 *)
(***************************************************************************)
EXTENDS Naturals, FiniteSets

CONSTANTS
    Owners,        \* WreqClient objects, by #nativeClientId
    Keys,          \* values of createNativeClientCacheKey
    Calls,
    OwnerOf,
    KeyOf,
    ConfigsOf,     \* what build_client may be asked for, from the options of the call:
                   \* a random browser is drawn anew for every dispatch
    NoClient,
    Dispatches     \* bound: the attempts and redirects of each call

\* The native clients that calls can build.
Clients ==
    {client \in [builder : Calls, dispatch : Nat, config : UNION {ConfigsOf[c] : c \in Calls}] :
        client.config \in ConfigsOf[client.builder]}

ASSUME ClientStoreAssumption ==
    /\ OwnerOf \in [Calls -> Owners]
    /\ KeyOf \in [Calls -> Keys]
    /\ Dispatches \in [Calls -> Nat]
    /\ NoClient \notin Clients

VARIABLES
    closed,        \* the owners whose close() has run
    collected,     \* the owners whose finalizer has run
    clients,       \* CLIENTS
    releases,      \* how often remove_clients has run for an owner
    call,          \* where a call is in resolve_client
    dispatches,    \* native dispatches of a call
    using,         \* the client a call was given
    givenAt,       \* the value of releases when it was given
    built,         \* the client a call has built and not yet inserted
    lateCalls      \* the calls that were under way when their owner was released

jsVars == <<closed, collected, lateCalls>>
vars   == <<jsVars, clients, releases, call, dispatches, using, givenAt, built>>

TypeOK ==
    /\ closed \subseteq Owners /\ collected \subseteq Owners
    /\ clients \in [Owners -> [Keys -> Clients \cup {NoClient}]]
    /\ releases \in [Owners -> 0..1]
    /\ call \in [Calls -> {"idle", "running", "lookup", "building", "inserting", "over"}]
    /\ dispatches \in [Calls -> Nat]
    /\ using \in [Calls -> Clients \cup {NoClient}]
    /\ givenAt \in [Calls -> Nat]
    /\ built \in [Calls -> Clients \cup {NoClient}]
    /\ lateCalls \subseteq Calls

Init ==
    /\ closed = {}
    /\ collected = {}
    /\ clients = [o \in Owners |-> [k \in Keys |-> NoClient]]
    /\ releases = [o \in Owners |-> 0]
    /\ call = [c \in Calls |-> "idle"]
    /\ dispatches = [c \in Calls |-> 0]
    /\ using = [c \in Calls |-> NoClient]
    /\ givenAt = [c \in Calls |-> 0]
    /\ built = [c \in Calls |-> NoClient]
    /\ lateCalls = {}

-----------------------------------------------------------------------------
(* The JS thread. *)

(* Defect: fetch does not ask whether the client is closed. *)
FetchUnchecked(c) ==
    /\ call[c] = "idle"
    /\ OwnerOf[c] \notin collected
    /\ call' = [call EXCEPT ![c] = "running"]
    /\ UNCHANGED <<jsVars, clients, releases, dispatches, using, givenAt, built>>

(* fetch or websocket on an owner that is open, hence still reachable. *)
Fetch(c) ==
    /\ call[c] = "idle"
    /\ OwnerOf[c] \notin closed \cup collected
    /\ call' = [call EXCEPT ![c] = "running"]
    /\ UNCHANGED <<jsVars, clients, releases, dispatches, using, givenAt, built>>

(* The binding's request or websocketConnect, for the first attempt and    *)
(* for every retry and redirect.  The call holds the owner's number, not   *)
(* the owner: nothing asks again whether it is closed.                     *)
Dispatch(c) ==
    /\ call[c] = "running"
    /\ dispatches[c] < Dispatches[c]
    /\ call' = [call EXCEPT ![c] = "lookup"]
    /\ dispatches' = [dispatches EXCEPT ![c] = @ + 1]
    /\ UNCHANGED <<jsVars, clients, releases, using, givenAt, built>>

Finish(c) ==
    /\ call[c] = "running"
    /\ call' = [call EXCEPT ![c] = "over"]
    /\ UNCHANGED <<jsVars, clients, releases, dispatches, using, givenAt, built>>

(* remove_clients *)
RemoveClients(o) ==
    /\ clients' = [clients EXCEPT ![o] = [k \in Keys |-> NoClient]]
    /\ releases' = [releases EXCEPT ![o] = @ + 1]
    /\ lateCalls' = lateCalls
         \cup {c \in Calls : OwnerOf[c] = o /\ call[c] \notin {"idle", "over"}}
    /\ UNCHANGED <<call, dispatches, using, givenAt, built>>

(* close(): unregisters the finalizer; a second call returns early. *)
CloseClient(o) ==
    /\ o \notin closed \cup collected
    /\ closed' = closed \cup {o}
    /\ RemoveClients(o)
    /\ UNCHANGED collected

(* Defect: close() leaves the finalizer registered. *)
CollectAfterClose(o) ==
    /\ o \notin collected
    /\ collected' = collected \cup {o}
    /\ RemoveClients(o)
    /\ UNCHANGED closed

(* The owner is unreachable and its finalizer runs; calls under way do not *)
(* keep it alive.                                                          *)
Collect(o) ==
    /\ o \notin closed \cup collected
    /\ collected' = collected \cup {o}
    /\ RemoveClients(o)
    /\ UNCHANGED closed

-----------------------------------------------------------------------------
(* resolve_client, in the native task of the dispatch. *)

Give(c, client) ==
    /\ call' = [call EXCEPT ![c] = "running"]
    /\ using' = [using EXCEPT ![c] = client]
    /\ givenAt' = [givenAt EXCEPT ![c] = releases[OwnerOf[c]]]

(* get_client finds one, *)
LookupHit(c) ==
    /\ call[c] = "lookup"
    /\ clients[OwnerOf[c]][KeyOf[c]] # NoClient
    /\ Give(c, clients[OwnerOf[c]][KeyOf[c]])
    /\ UNCHANGED <<jsVars, clients, releases, dispatches, built>>

(* or the read lock is let go and build_client awaits. *)
LookupMiss(c) ==
    /\ call[c] = "lookup"
    /\ clients[OwnerOf[c]][KeyOf[c]] = NoClient
    /\ call' = [call EXCEPT ![c] = "building"]
    /\ UNCHANGED <<jsVars, clients, releases, dispatches, using, givenAt, built>>

(* The browser of a random mode was drawn when the options of this         *)
(* dispatch were converted: a draw shows only in a client that is built.   *)
Build(c) ==
    /\ call[c] = "building"
    /\ call' = [call EXCEPT ![c] = "inserting"]
    /\ \E config \in ConfigsOf[c] :
          built' = [built EXCEPT ![c] =
                       [builder |-> c, dispatch |-> dispatches[c], config |-> config]]
    /\ UNCHANGED <<jsVars, clients, releases, dispatches, using, givenAt>>

(* The build fails, or the call is cancelled while it awaits: the fetch    *)
(* may retry.                                                              *)
BuildFails(c) ==
    /\ call[c] = "building"
    /\ call' = [call EXCEPT ![c] = "running"]
    /\ UNCHANGED <<jsVars, clients, releases, dispatches, using, givenAt, built>>

(* Defect: the client that was there is replaced. *)
InsertReplacing(c) ==
    /\ call[c] = "inserting"
    /\ clients' = [clients EXCEPT ![OwnerOf[c]][KeyOf[c]] = built[c]]
    /\ Give(c, built[c])
    /\ built' = [built EXCEPT ![c] = NoClient]
    /\ UNCHANGED <<jsVars, releases, dispatches>>

(* insert_client: entry(key).or_insert(client) under the write lock. *)
Insert(c) ==
    /\ call[c] = "inserting"
    /\ LET there == clients[OwnerOf[c]][KeyOf[c]]
           kept  == IF there = NoClient THEN built[c] ELSE there
       IN  /\ clients' = [clients EXCEPT ![OwnerOf[c]][KeyOf[c]] = kept]
           /\ Give(c, kept)
    /\ built' = [built EXCEPT ![c] = NoClient]
    /\ UNCHANGED <<jsVars, releases, dispatches>>

-----------------------------------------------------------------------------

CallStep(c) ==
    \/ Fetch(c) \/ Dispatch(c) \/ Finish(c)
    \/ LookupHit(c) \/ LookupMiss(c) \/ Build(c) \/ BuildFails(c) \/ Insert(c)

Next ==
    \/ \E c \in Calls : CallStep(c)
    \/ \E o \in Owners : CloseClient(o) \/ Collect(o)

Spec == Init /\ [][Next]_vars

-----------------------------------------------------------------------------
(* Properties. *)

(* A call only ever gets a client built for its own owner and key, from a  *)
(* configuration that its own options could have asked for: no connection, *)
(* session or identity is shared across clients or options.                *)
ClientsIsolated ==
    /\ \A c \in Calls :
          using[c] # NoClient =>
              /\ OwnerOf[using[c].builder] = OwnerOf[c]
              /\ KeyOf[using[c].builder] = KeyOf[c]
              /\ using[c].config \in ConfigsOf[c]
    /\ \A o \in Owners, k \in Keys :
          clients[o][k] # NoClient =>
              OwnerOf[clients[o][k].builder] = o /\ KeyOf[clients[o][k].builder] = k

(* Calls that race to build the client of one owner and key end up with    *)
(* the same one: what a call was given since the last release is what the  *)
(* store holds.                                                            *)
OnePool ==
    \A c \in Calls :
        using[c] # NoClient /\ givenAt[c] = releases[OwnerOf[c]] =>
            clients[OwnerOf[c]][KeyOf[c]] = using[c]

(* Only a call that was already under way when its owner was released can  *)
(* leave a client behind, and only under its own key.                      *)
LeftBehindByLateCalls ==
    \A o \in closed \cup collected : \A k \in Keys :
        clients[o][k] # NoClient =>
            \E c \in lateCalls : OwnerOf[c] = o /\ KeyOf[c] = k

(* Client.close in src/types/client.ts "releases pooled native connections *)
(* owned by this client": none is left once its calls are over.            *)
ClosedClientHoldsNothing ==
    \A o \in closed :
        (\A c \in Calls : OwnerOf[c] = o => call[c] \in {"idle", "over"}) =>
            \A k \in Keys : clients[o][k] = NoClient
=============================================================================
