------------------------------- MODULE Setup -------------------------------
(***************************************************************************)
(* How a connection object comes to life and ends: ServerConfig and        *)
(* ServerConnection::accept(), ClientConfig and Connection::__construct(), *)
(* the TLS session either sets up, and free_obj.  Every stage may fail;    *)
(* the question is who owns what then.                                     *)
(*                                                                         *)
(* heap counts the live allocations and references of each kind; held are  *)
(* the strings a call of accept() holds in its local variables; obj is the *)
(* object with the pointers it has that are not NULL.  An address is       *)
(* "good", "bad" (to_sockaddr refuses it: an empty host, a port out of     *)
(* range, a name that does not resolve) or "null"; a string is "null",     *)
(* "empty", "text", or "nul" when its first byte is NUL.                   *)
(***************************************************************************)
EXTENDS Integers

CONSTANT MaxLost    \* bound: losses of each kind

ASSUME SetupAssumption == MaxLost \in Nat

Strings  == {"cert", "key", "alpn"}
Pointers == {"conn", "session", "cred", "remote", "local"}
Kinds    == Strings \cup Pointers

Addresses == {"null", "good", "bad"}
Texts     == {"null", "empty", "text"}
Alpns     == Texts \cup {"nul"}

VARIABLES
  server,        \* the ServerConfig
  client,        \* the ClientConfig
  obj,           \* the connection object: its class, and its pointers
  heap,          \* live allocations, by kind
  held,          \* strings that accept() has copied
  pc,            \* the next stage of the call, or "idle"
  arg,           \* the arguments of the call
  outcome,       \* how the last accept() or __construct() ended
  earlyThrows,   \* history: accept() calls that threw before [address]
  overwritten    \* history: __construct() calls that replaced connection->conn

configs == <<server, client>>
memory  == <<obj, heap, held>>
losses  == <<earlyThrows, overwritten>>
vars    == <<configs, memory, pc, arg, outcome, losses>>

NoObject == [class |-> "none", has |-> {}]
NoArg    == [remote |-> "null", local |-> "null", payload |-> "none"]

Init ==
  /\ server = [local |-> "null", cert |-> "null", key |-> "null", alpn |-> "null"]
  /\ client = [local |-> "null", name |-> "null", alpn |-> "null"]
  /\ obj = NoObject
  /\ heap = [k \in Kinds |-> 0]
  /\ held = {}
  /\ pc = "idle"
  /\ arg = NoArg
  /\ outcome = "none"
  /\ earlyThrows = 0 /\ overwritten = 0

----------------------------------------------------------------------------
(* Ownership                                                               *)

Allocated(h, ks) == [k \in Kinds |-> IF k \in ks THEN h[k] + 1 ELSE h[k]]
Freed(h, ks)     == [k \in Kinds |-> IF k \in ks THEN h[k] - 1 ELSE h[k]]

(* The object's pointers ks are set                                        *)
Gain(ks) == /\ heap' = Allocated(heap, ks)
            /\ obj' = [obj EXCEPT !.has = @ \cup ks]

Tls == {"session", "cred"}

(* Fault: the pointers are freed and not cleared                           *)
CleanedUp_KeepsPointers(o) == o

(* php_quic_tls_gnutls_cleanup: the session, then the credentials, when    *)
(* they are there, and the pointers are cleared                            *)
CleanedUp(o) == [o EXCEPT !.has = @ \ Tls]

(* What freeing the object with the last reference to it releases          *)
FreeObject(o) == o.has

Throw == pc' = "idle" /\ outcome' = "threw" /\ arg' = NoArg

Goto(stage) == pc' = stage /\ UNCHANGED <<outcome, arg>>

Return == pc' = "idle" /\ outcome' = "returned" /\ arg' = NoArg

----------------------------------------------------------------------------
(* The configurations.  with*() changes the object it is called on and     *)
(* returns it; an empty string is refused and nothing changes.             *)

BetweenCalls == pc = "idle" /\ UNCHANGED <<memory, pc, arg, outcome, losses>>

(* Fault: withCertificate() looks at its first argument only               *)
Refused_FirstOnly(a, b) == a = "empty"

Refused(a, b) == a = "empty" \/ b = "empty"

ServerConfigConstruct(local, cert, key, alpn) ==
  /\ BetweenCalls
  /\ IF Refused(cert, key) \/ alpn = "empty" THEN UNCHANGED configs
     ELSE /\ server' = [local |-> local, cert |-> cert, key |-> key, alpn |-> alpn]
          /\ UNCHANGED client

ServerWithLocalAddress(local) ==
  /\ BetweenCalls /\ server' = [server EXCEPT !.local = local]
  /\ UNCHANGED client

ServerWithCertificate(cert, key) ==
  /\ BetweenCalls /\ cert # "null" /\ key # "null"
  /\ IF Refused(cert, key) THEN UNCHANGED configs
     ELSE /\ server' = [server EXCEPT !.cert = cert, !.key = key]
          /\ UNCHANGED client

ServerWithAlpn(alpn) ==
  /\ BetweenCalls
  /\ IF alpn = "empty" THEN UNCHANGED configs
     ELSE /\ server' = [server EXCEPT !.alpn = alpn]
          /\ UNCHANGED client

ClientConfigConstruct(local, name, alpn) ==
  /\ BetweenCalls
  /\ IF Refused(name, alpn) THEN UNCHANGED configs
     ELSE /\ client' = [local |-> local, name |-> name, alpn |-> alpn]
          /\ UNCHANGED server

ClientWithLocalAddress(local) ==
  /\ BetweenCalls /\ client' = [client EXCEPT !.local = local]
  /\ UNCHANGED server

ClientWithServerName(name) ==
  /\ BetweenCalls
  /\ IF name = "empty" THEN UNCHANGED configs
     ELSE /\ client' = [client EXCEPT !.name = name]
          /\ UNCHANGED server

ClientWithAlpn(alpn) ==
  /\ BetweenCalls
  /\ IF alpn = "empty" THEN UNCHANGED configs
     ELSE /\ client' = [client EXCEPT !.alpn = alpn]
          /\ UNCHANGED server

----------------------------------------------------------------------------
(* ServerConnection::accept().  Until the object exists only the strings   *)
(* are at stake.                                                           *)

Release == heap' = Freed(heap, held) /\ held' = {}

(* a throw of the stages after the object exists: the strings are released *)
(* and the object is freed                                                 *)
Abandon(o) == /\ heap' = Freed(heap, held \cup FreeObject(o))
              /\ held' = {} /\ obj' = NoObject
              /\ Throw

Unchanged == UNCHANGED <<configs, losses>>

(* [config] *)
AcceptBegin(remote, local, payload) ==
  /\ pc = "idle" /\ obj = NoObject
  /\ payload # "initial" => earlyThrows < MaxLost
  /\ IF server.cert = "null" \/ server.key = "null"
     THEN Throw /\ UNCHANGED memory
     ELSE /\ heap' = Allocated(heap, Strings) /\ held' = Strings
          /\ arg' = [remote |-> remote, payload |-> payload,
                     local |-> IF server.local # "null" THEN server.local ELSE local]
          /\ pc' = "decode"
          /\ UNCHANGED <<obj, outcome>>
  /\ Unchanged

(* [initial] and [decode] throw and release nothing                        *)
AcceptDecode ==
  /\ pc = "decode"
  /\ IF arg.payload = "initial" THEN Goto("address") /\ UNCHANGED <<held, earlyThrows>>
     ELSE /\ earlyThrows' = earlyThrows + 1 /\ held' = {} /\ Throw
  /\ UNCHANGED <<configs, obj, heap, overwritten>>

(* [address]: localAddress may be missing, a default takes its place       *)
AcceptAddress ==
  /\ pc = "address"
  /\ IF "bad" \in {arg.remote, arg.local} THEN Release /\ Throw /\ UNCHANGED obj
     ELSE /\ heap' = Allocated(heap, {"remote", "local"})
          /\ obj' = [class |-> "server", has |-> {"remote", "local"}]
          /\ Goto("cred") /\ UNCHANGED held
  /\ Unchanged

(* [cid], [transport] and the forced failure of [ngtcp2:new]               *)
AcceptIds ==
  /\ pc = "ids" /\ obj.class = "server"
  /\ \/ Goto("new") /\ UNCHANGED memory
     \/ Abandon(obj)
  /\ Unchanged

(* [ngtcp2:new] *)
AcceptNew ==
  /\ pc = "new" /\ obj.class = "server"
  /\ \/ Gain({"conn"}) /\ Goto("read") /\ UNCHANGED held
     \/ Abandon(obj)
  /\ Unchanged

(* Fault: a connection that failed on its first packet is left alive       *)
AcceptRead_KeepsObject ==
  /\ pc = "read"
  /\ Release /\ UNCHANGED obj
  /\ Return \/ Throw
  /\ Unchanged

(* [ngtcp2:read_initial], and the return *)
AcceptRead ==
  /\ pc = "read"
  /\ \/ Release /\ Return /\ UNCHANGED obj
     \/ Abandon(obj)
  /\ Unchanged

----------------------------------------------------------------------------
(* php_quic_tls_gnutls_init_server and _init_client.  A failure undoes what *)
(* was set up, and the caller throws.                                      *)

TlsFails(o, h) ==
  IF o.class = "server"
  THEN /\ heap' = Freed(h, held \cup FreeObject(o)) /\ held' = {} /\ obj' = NoObject /\ Throw
  ELSE heap' = h /\ obj' = o /\ UNCHANGED held /\ Throw

(* Fault: the credentials survive the session                              *)
TlsUndone_SessionOnly ==
  TlsFails([obj EXCEPT !.has = @ \ {"session"}], Freed(heap, {"session"} \cap obj.has))

TlsUndone == TlsFails(CleanedUp(obj), Freed(heap, Tls \cap obj.has))

(* The credentials; before them, on the server, the test of the arguments  *)
TlsCredentials ==
  /\ pc = "cred"
  /\ \/ TlsFails(obj, heap)
     \/ /\ obj.class = "server" => server.alpn # "nul"
        /\ Gain({"cred"}) /\ Goto("session") /\ UNCHANGED held
  /\ Unchanged

(* The key file (of the server) and gnutls_init                            *)
TlsSession ==
  /\ pc = "session"
  /\ \/ TlsUndone
     \/ Gain({"session"}) /\ Goto("settings") /\ UNCHANGED held
  /\ Unchanged

(* The priorities, ngtcp2's configuration, the credentials of the session  *)
(* and the ALPN protocol                                                   *)
TlsSettings ==
  /\ pc = "settings"
  /\ \/ TlsUndone
     \/ Goto(IF obj.class = "server" THEN "ids" ELSE "sni") /\ UNCHANGED memory
  /\ Unchanged

----------------------------------------------------------------------------
(* Connection::create_object and __construct().  The object outlives a     *)
(* constructor that throws when the application holds it already; the      *)
(* constructor may be called again.                                        *)

CreateObject ==
  /\ pc = "idle" /\ obj = NoObject
  /\ obj' = [class |-> "client", has |-> {}]
  /\ UNCHANGED <<configs, heap, held, pc, arg, outcome, losses>>

(* the addresses of an earlier call are released, then those of this one   *)
(* are kept, before they are looked at                                     *)
ConstructBegin(remote) ==
  LET kept == {"remote"} \cup (IF client.local = "null" THEN {} ELSE {"local"})
      old  == {"remote", "local"} \cap obj.has IN
  /\ pc = "idle" /\ obj.class = "client"
  /\ "conn" \in obj.has => overwritten < MaxLost
  /\ obj' = [obj EXCEPT !.has = (@ \ old) \cup kept]
  /\ heap' = Allocated(Freed(heap, old), kept)
  /\ IF "bad" \in {remote, client.local} THEN Throw
     ELSE Goto(IF "session" \in obj.has THEN "sni" ELSE "cred")
  /\ UNCHANGED <<configs, held, losses>>

(* gnutls_server_name_set, unless the name is empty                        *)
ConstructSni ==
  /\ pc = "sni"
  /\ Goto("native") \/ Throw
  /\ UNCHANGED <<configs, memory, losses>>

(* php_quic_connection_init_native: connection->conn is overwritten        *)
ConstructNative ==
  /\ pc = "native"
  /\ \/ Throw /\ UNCHANGED <<memory, overwritten>>
     \/ /\ Gain({"conn"}) /\ Return /\ UNCHANGED held
        /\ overwritten' = IF "conn" \in obj.has THEN overwritten + 1 ELSE overwritten
  /\ UNCHANGED <<configs, earlyThrows>>

(* php_quic_connection_free_object, with the last reference                *)
Destroy ==
  /\ pc = "idle" /\ obj # NoObject
  /\ heap' = Freed(heap, FreeObject(obj))
  /\ obj' = NoObject
  /\ UNCHANGED <<configs, held, pc, arg, outcome, losses>>

----------------------------------------------------------------------------
ConfigCall ==
  \/ \E a, b \in Texts :
       \/ \E local \in Addresses :
            \/ \E alpn \in Alpns : ServerConfigConstruct(local, a, b, alpn)
            \/ ClientConfigConstruct(local, a, b)
       \/ ServerWithCertificate(a, b)
  \/ \E alpn \in Alpns : ServerWithAlpn(alpn)
  \/ \E a \in Texts : ClientWithServerName(a) \/ ClientWithAlpn(a)
  \/ \E local \in Addresses : ServerWithLocalAddress(local) \/ ClientWithLocalAddress(local)

AcceptCall ==
  \/ \E remote \in {"good", "bad"}, local \in Addresses,
       payload \in {"empty", "garbage", "initial"} : AcceptBegin(remote, local, payload)
  \/ AcceptDecode \/ AcceptAddress \/ AcceptIds \/ AcceptNew \/ AcceptRead

TlsCall == TlsCredentials \/ TlsSession \/ TlsSettings

ConstructCall ==
  \/ CreateObject
  \/ \E remote \in {"good", "bad"} : ConstructBegin(remote)
  \/ ConstructSni \/ ConstructNative

Next == ConfigCall \/ AcceptCall \/ TlsCall \/ ConstructCall \/ Destroy

Spec == Init /\ [][Next]_vars
----------------------------------------------------------------------------
(* Every pointer has its type; no configuration ever holds an empty string, *)
(* which the GnuTLS calls would take for a missing one.                    *)
TypeOK ==
  /\ server \in [local : Addresses, cert : Texts \ {"empty"}, key : Texts \ {"empty"},
                 alpn : Alpns \ {"empty"}]
  /\ client \in [local : Addresses, name : Texts \ {"empty"}, alpn : Texts \ {"empty"}]
  /\ obj \in [class : {"none", "client", "server"}, has : SUBSET Pointers]
  /\ heap \in [Kinds -> Nat] /\ held \subseteq Strings
  /\ outcome \in {"none", "returned", "threw"}

Owned(k) == IF k \in obj.has \cup held THEN 1 ELSE 0

(* What nobody owns and nobody freed: the strings of accept() calls that   *)
(* threw at [initial] or [decode], and the ngtcp2 connections a second     *)
(* __construct() has overwritten.                                          *)
Lost(k) == CASE k \in Strings -> earlyThrows
             [] k = "conn" -> overwritten
             [] OTHER -> 0

(* Every pointer of the object and every string held points to something   *)
(* alive (no double free, no use after free), and everything alive has an  *)
(* owner, whichever stage of the setup failed; but for the two losses.     *)
Ownership == \A k \in Kinds : heap[k] = Owned(k) + Lost(k)

(* accept() is all or nothing: it returns a connection with everything it  *)
(* needs, or throws and leaves no object and no string behind.             *)
AllOrNothing ==
  pc = "idle" => /\ held = {}
                 /\ obj.class = "server" => obj.has = Pointers /\ outcome # "threw"

(* A ngtcp2 connection never stands without the TLS session it was given,  *)
(* nor the session without its credentials: ngtcp2 calls into them.        *)
SessionOutlives ==
  pc \notin {"session"} =>
    /\ "conn" \in obj.has => "session" \in obj.has
    /\ "session" \in obj.has <=> "cred" \in obj.has

(* What makes them inductive: how far the object is built, and who holds   *)
(* the strings, at each stage of the calls.                                *)
Addressed == {"remote", "local"} \subseteq obj.has

StageInv ==
  /\ pc \in {"idle", "decode", "address", "cred", "session", "settings",
             "ids", "new", "read", "sni", "native"}
  /\ earlyThrows \in Nat /\ overwritten \in Nat
  /\ obj.class = "none" => obj.has = {}
  /\ obj.class = "client" => held = {}
  /\ obj.class = "server" /\ pc # "idle" => Addressed
  /\ pc \in {"decode", "address"} => obj = NoObject /\ held = Strings
  /\ pc \in {"cred", "session", "settings"} => obj.class # "none" /\ "conn" \notin obj.has
  /\ pc \in {"cred", "session"} => "session" \notin obj.has
  /\ pc = "session" => "cred" \in obj.has
  /\ pc \in {"settings", "ids", "new", "sni", "native"} => "session" \in obj.has
  /\ pc \in {"ids", "new", "read"} => obj.class = "server"
  /\ pc \in {"ids", "new"} => "conn" \notin obj.has
  /\ pc = "read" => obj.has = Pointers
  /\ pc \in {"sni", "native"} => obj.class = "client"

SetupInv == TypeOK /\ StageInv /\ Ownership /\ AllOrNothing /\ SessionOutlives
============================================================================
