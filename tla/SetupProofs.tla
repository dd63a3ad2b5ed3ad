---------------------------- MODULE SetupProofs ----------------------------
(***************************************************************************)
(* Theorems about the modules of MCSetup.                                  *)
(*                                                                         *)
(* Setup: ownership is put as a balance: what is alive of each kind is     *)
(* what the owners hold plus what was lost; allocating and freeing keep    *)
(* the balance when the owners change with the heap.                       *)
(*                                                                         *)
(* Address: what the parser returns and what it reads back is shown of     *)
(* every text over every set of characters, and that a key tells its       *)
(* address of every host and every port; the bounds are for TLC only.      *)
(***************************************************************************)
EXTENDS MCSetup, OperatorProofs, SequenceTheorems

(***************************************************************************)
(* Setup                                                                   *)
(***************************************************************************)

LostTo(e, w) == [k \in Kinds |-> IF k \in Strings THEN e ELSE IF k = "conn" THEN w ELSE 0]

Balanced(h, own, lost) ==
  /\ h \in [Kinds -> Nat] /\ own \subseteq Kinds
  /\ \A k \in Kinds : h[k] = (IF k \in own THEN 1 ELSE 0) + lost[k]

(* Allocating what nobody owns yet                                         *)
LEMMA AllocatedBalanced ==
  ASSUME NEW h, NEW own, NEW lost \in [Kinds -> Nat], Balanced(h, own, lost),
         NEW ks \in SUBSET Kinds, ks \cap own = {}
  PROVE  Balanced(Allocated(h, ks), own \cup ks, lost)
  BY DEF Balanced, Allocated

(* Freeing what is owned                                                   *)
LEMMA FreedBalanced ==
  ASSUME NEW h, NEW own, NEW lost \in [Kinds -> Nat], Balanced(h, own, lost),
         NEW ks \in SUBSET own
  PROVE  Balanced(Freed(h, ks), own \ ks, lost)
  <1>1. \A k \in Kinds : Freed(h, ks)[k] = (IF k \in own \ ks THEN 1 ELSE 0) + lost[k]
    BY DEF Balanced, Freed
  <1>2. \A k \in Kinds : Freed(h, ks)[k] \in Nat
    BY <1>1
  <1>3. Freed(h, ks) \in [Kinds -> Nat]
    BY <1>2 DEF Freed
  <1>4. QED
    BY <1>1, <1>3 DEF Balanced

(* Losing what is owned: the first lines of accept() throw                 *)
LEMMA LostBalanced ==
  ASSUME NEW h, NEW own, NEW e \in Nat, NEW w \in Nat,
         Balanced(h, own \cup Strings, LostTo(e, w)), own \cap Strings = {}
  PROVE  Balanced(h, own, LostTo(e + 1, w))
  BY DEF Balanced, LostTo

(* Replacing what is owned: __construct() overwrites connection->conn      *)
LEMMA OverwrittenBalanced ==
  ASSUME NEW h, NEW own, NEW e \in Nat, NEW w \in Nat,
         Balanced(h, own, LostTo(e, w)), "conn" \in own
  PROVE  Balanced(Allocated(h, {"conn"}), own, LostTo(e, w + 1))
  BY DEF Balanced, LostTo, Allocated, Kinds, Strings, Pointers

Lose == LostTo(earlyThrows, overwritten)

Balance == Balanced(heap, obj.has \cup held, Lose)

(* The two counters give a count of losses for every kind of memory.       *)
LEMMA LoseType == StageInv => Lose \in [Kinds -> Nat]
  BY DEF StageInv, Lose, LostTo

(* Ownership says that the heap is the owners and the losses, kind by kind. *)
LEMMA OwnershipIsBalance ==
  ASSUME TypeOK, StageInv PROVE Ownership <=> Balance
  <1>1. heap \in [Kinds -> Nat] /\ obj.has \cup held \subseteq Kinds
    BY DEF TypeOK, Kinds
  <1>2. ASSUME NEW k \in Kinds PROVE Lost(k) = Lose[k]
    <2>1. CASE k \in Strings
      BY <2>1 DEF Lost, Lose, LostTo, Strings
    <2>2. CASE k = "conn"
      BY <2>2 DEF Lost, Lose, LostTo, Strings, Kinds, Pointers
    <2>3. CASE k \notin Strings /\ k # "conn"
      BY <2>3 DEF Lost, Lose, LostTo
    <2>4. QED
      BY <2>1, <2>2, <2>3
  <1>3. QED
    BY <1>1, <1>2 DEF Ownership, Balance, Balanced, Owned

ConfigsTyped ==
  /\ server \in [local : Addresses, cert : Texts \ {"empty"}, key : Texts \ {"empty"},
                 alpn : Alpns \ {"empty"}]
  /\ client \in [local : Addresses, name : Texts \ {"empty"}, alpn : Texts \ {"empty"}]

(* Everything but the heap                                                 *)
Control ==
  /\ ConfigsTyped
  /\ obj \in [class : {"none", "client", "server"}, has : SUBSET Pointers]
  /\ held \subseteq Strings
  /\ outcome \in {"none", "returned", "threw"}
  /\ StageInv /\ AllOrNothing /\ SessionOutlives

(* The invariant is a part about the stages and a part about the heap.     *)
LEMMA SplitInv == SetupInv <=> Control /\ Balance
  BY OwnershipIsBalance DEF SetupInv, Control, ConfigsTyped, TypeOK, Balance, Balanced

(* The same split in the next state.                                       *)
LEMMA SplitInvNext == SetupInv' <=> Control' /\ Balance'
  BY SplitInv, PTL

(* The strings and the pointers are different kinds.                       *)
LEMMA KindsApart ==
  /\ Strings \cap Pointers = {} /\ Kinds = Strings \cup Pointers
  /\ Tls \subseteq Pointers /\ "conn" \in Pointers /\ "conn" \notin Tls
  BY DEF Kinds, Strings, Pointers, Tls


(* The owners change with the heap, and nothing is lost                    *)
LEMMA GainStep ==
  ASSUME Control, Balance, NEW ks \in SUBSET Kinds, ks \cap (obj.has \cup held) = {},
         heap' = Allocated(heap, ks), obj'.has \cup held' = (obj.has \cup held) \cup ks,
         UNCHANGED losses
  PROVE  Balance'
  <1>1. Balanced(heap', (obj.has \cup held) \cup ks, Lose)
    BY AllocatedBalanced, LoseType DEF Control, Balance
  <1>2. QED
    BY <1>1 DEF Balance, Lose, losses

(* A free takes its kinds from the heap and from the owners.               *)
LEMMA FreeStep ==
  ASSUME Control, Balance, NEW ks \in SUBSET (obj.has \cup held),
         heap' = Freed(heap, ks), obj'.has \cup held' = (obj.has \cup held) \ ks,
         UNCHANGED losses
  PROVE  Balance'
  <1>1. Balanced(heap', (obj.has \cup held) \ ks, Lose)
    BY FreedBalanced, LoseType DEF Control, Balance
  <1>2. QED
    BY <1>1 DEF Balance, Lose, losses

(* A step that moves no pointer keeps the balance.                         *)
LEMMA SameStep ==
  ASSUME Balance, UNCHANGED <<heap, losses>>, obj'.has \cup held' = obj.has \cup held
  PROVE  Balance'
  BY DEF Balance, Lose, losses

(* What a throw after the object exists does                               *)
LEMMA AbandonStep ==
  ASSUME Control, Balance, Abandon(obj), UNCHANGED <<configs, losses>>
  PROVE  Control' /\ Balance'
  <1>1. obj' = NoObject /\ held' = {} /\ pc' = "idle" /\ outcome' = "threw"
    BY DEF Abandon, Throw
  <1>2. heap' = Freed(heap, obj.has \cup held)
    BY DEF Abandon, FreeObject
  <1>3. Balance'
    BY <1>1, <1>2, FreeStep DEF NoObject
  <1>4. QED
    BY <1>1, <1>3
       DEF Control, ConfigsTyped, StageInv, AllOrNothing, SessionOutlives, NoObject, configs, losses

----------------------------------------------------------------------------
(* The configurations: only their types are at stake.                      *)
LEMMA ConfigStep == Control /\ Balance /\ ConfigCall => Control' /\ Balance'
  <1> SUFFICES ASSUME Control, Balance, ConfigCall PROVE Control' /\ Balance'
    OBVIOUS
  <1>1. UNCHANGED <<obj, heap, held, pc, outcome, losses>>
    BY DEF ConfigCall, ServerConfigConstruct, ServerWithLocalAddress, ServerWithCertificate,
       ServerWithAlpn, ClientConfigConstruct, ClientWithLocalAddress, ClientWithServerName,
       ClientWithAlpn, BetweenCalls, memory, losses
  <1>2. Balance'
    BY <1>1, SameStep
  <1>3. ASSUME NEW a \in Texts, NEW b \in Texts, NEW local \in Addresses, NEW alpn \in Alpns,
               \/ ServerConfigConstruct(local, a, b, alpn)
               \/ ServerWithCertificate(a, b)
               \/ ServerWithAlpn(alpn)
               \/ ServerWithLocalAddress(local)
        PROVE  ConfigsTyped'
    <2>1. CASE UNCHANGED configs
      BY <2>1 DEF Control, ConfigsTyped, configs
    <2>2. CASE ServerConfigConstruct(local, a, b, alpn) /\ ~UNCHANGED configs
      BY <2>2 DEF Control, ConfigsTyped, ServerConfigConstruct, Refused
    <2>3. CASE ServerWithCertificate(a, b) /\ ~UNCHANGED configs
      BY <2>3 DEF Control, ConfigsTyped, ServerWithCertificate, Refused
    <2>4. CASE ServerWithAlpn(alpn) /\ ~UNCHANGED configs
      BY <2>4 DEF Control, ConfigsTyped, ServerWithAlpn
    <2>5. CASE ServerWithLocalAddress(local)
      BY <2>5 DEF Control, ConfigsTyped, ServerWithLocalAddress
    <2>6. QED
      BY <1>3, <2>1, <2>2, <2>3, <2>4, <2>5
  <1>4. ASSUME NEW a \in Texts, NEW b \in Texts, NEW local \in Addresses,
               \/ ClientConfigConstruct(local, a, b)
               \/ ClientWithServerName(a)
               \/ ClientWithAlpn(a)
               \/ ClientWithLocalAddress(local)
        PROVE  ConfigsTyped'
    <2>1. CASE UNCHANGED configs
      BY <2>1 DEF Control, ConfigsTyped, configs
    <2>2. CASE ClientConfigConstruct(local, a, b) /\ ~UNCHANGED configs
      BY <2>2 DEF Control, ConfigsTyped, ClientConfigConstruct, Refused
    <2>3. CASE ClientWithServerName(a) /\ ~UNCHANGED configs
      BY <2>3 DEF Control, ConfigsTyped, ClientWithServerName
    <2>4. CASE ClientWithAlpn(a) /\ ~UNCHANGED configs
      BY <2>4 DEF Control, ConfigsTyped, ClientWithAlpn
    <2>5. CASE ClientWithLocalAddress(local)
      BY <2>5 DEF Control, ConfigsTyped, ClientWithLocalAddress
    <2>6. QED
      BY <1>4, <2>1, <2>2, <2>3, <2>4, <2>5
  <1>5. ConfigsTyped'
    <2>1. "text" \in Texts /\ "null" \in Alpns /\ "null" \in Addresses
      BY DEF Texts, Alpns, Addresses
    <2>2. QED
      BY <1>3, <1>4, <2>1 DEF ConfigCall
  <1>6. QED
    BY <1>1, <1>2, <1>5
       DEF Control, StageInv, AllOrNothing, SessionOutlives, Addressed, losses

(* accept(), stage by stage                                                *)
LEMMA AcceptStep == Control /\ Balance /\ AcceptCall => Control' /\ Balance'
  <1> SUFFICES ASSUME Control, Balance, AcceptCall PROVE Control' /\ Balance'
    OBVIOUS
  <1> USE DEF Unchanged, configs, memory, ConfigsTyped
  <1>1. ASSUME NEW remote \in {"good", "bad"}, NEW local \in Addresses,
               NEW payload \in {"empty", "garbage", "initial"},
               AcceptBegin(remote, local, payload)
        PROVE  Control' /\ Balance'
    <2>1. obj' = NoObject /\ obj.has = {} /\ obj'.has = {} /\ held = {}
      BY <1>1 DEF AcceptBegin, Control, AllOrNothing, NoObject
    <2>2. CASE Throw /\ UNCHANGED memory
      <3>1. Balance'
        BY <1>1, <2>1, <2>2, SameStep DEF AcceptBegin, losses
      <3>2. QED
        BY <1>1, <2>1, <2>2, <3>1 DEF AcceptBegin, Control, StageInv, AllOrNothing,
           SessionOutlives, Throw, NoObject, losses
    <2>3. CASE heap' = Allocated(heap, Strings) /\ held' = Strings /\ pc' = "decode"
               /\ UNCHANGED outcome
      <3>1. Balance'
        BY <1>1, <2>1, <2>3, GainStep, KindsApart DEF AcceptBegin
      <3>2. QED
        BY <1>1, <2>1, <2>3, <3>1 DEF AcceptBegin, Control, StageInv, AllOrNothing,
           SessionOutlives, NoObject, losses
    <2>4. QED
      BY <1>1, <2>2, <2>3 DEF AcceptBegin
  <1>2. ASSUME AcceptDecode PROVE Control' /\ Balance'
    <2>1. obj' = NoObject /\ obj = NoObject /\ obj.has = {} /\ held = Strings
      BY <1>2 DEF AcceptDecode, Control, StageInv, NoObject
    <2>2. CASE Goto("address") /\ UNCHANGED <<held, earlyThrows>>
      <3>1. Balance'
        BY <1>2, <2>1, <2>2, SameStep DEF AcceptDecode, losses
      <3>2. QED
        BY <1>2, <2>1, <2>2, <3>1 DEF AcceptDecode, Control, StageInv, AllOrNothing,
           SessionOutlives, Goto, NoObject
    <2>3. CASE earlyThrows' = earlyThrows + 1 /\ held' = {} /\ Throw
      <3>1. Balance'
        BY <1>2, <2>1, <2>3, LostBalanced DEF AcceptDecode, Balance, Lose, Control, StageInv
      <3>2. QED
        BY <1>2, <2>1, <2>3, <3>1 DEF AcceptDecode, Control, StageInv, AllOrNothing,
           SessionOutlives, Throw, NoObject
    <2>4. QED
      BY <1>2, <2>2, <2>3 DEF AcceptDecode
  <1>3. ASSUME AcceptAddress PROVE Control' /\ Balance'
    <2>1. obj = NoObject /\ obj.has = {} /\ held = Strings
      BY <1>3 DEF AcceptAddress, Control, StageInv, NoObject
    <2>2. CASE Release /\ Throw /\ UNCHANGED obj
      <3>1. Balance'
        BY <1>3, <2>1, <2>2, FreeStep DEF AcceptAddress, Release
      <3>2. QED
        BY <1>3, <2>1, <2>2, <3>1 DEF AcceptAddress, Control, StageInv, AllOrNothing,
           SessionOutlives, Throw, Release, NoObject, losses
    <2>3. CASE /\ heap' = Allocated(heap, {"remote", "local"})
               /\ obj' = [class |-> "server", has |-> {"remote", "local"}]
               /\ Goto("cred") /\ UNCHANGED held
      <3>1. Balance'
        BY <1>3, <2>1, <2>3, GainStep DEF AcceptAddress, Kinds, Strings, Pointers
      <3>2. QED
        BY <1>3, <2>1, <2>3, <3>1 DEF AcceptAddress, Control, StageInv, AllOrNothing,
           SessionOutlives, Goto, Addressed, Pointers, losses
    <2>4. QED
      BY <1>3, <2>2, <2>3 DEF AcceptAddress
  <1>4. ASSUME AcceptIds PROVE Control' /\ Balance'
    <2>1. CASE Goto("new") /\ UNCHANGED memory
      <3>1. Balance'
        BY <1>4, <2>1, SameStep DEF AcceptIds
      <3>2. QED
        BY <1>4, <2>1, <3>1 DEF AcceptIds, Control, StageInv, AllOrNothing,
           SessionOutlives, Goto, Addressed, losses
    <2>2. QED
      BY <1>4, <2>1, AbandonStep DEF AcceptIds
  <1>5. ASSUME AcceptNew PROVE Control' /\ Balance'
    <2>1. CASE Gain({"conn"}) /\ Goto("read") /\ UNCHANGED held
      <3>1. /\ obj.class = "server" /\ "conn" \notin obj.has
            /\ {"remote", "local", "session", "cred"} \subseteq obj.has
        BY <1>5 DEF AcceptNew, Control, StageInv, SessionOutlives, Addressed
      <3>2. obj'.has = obj.has \cup {"conn"} /\ obj'.class = "server" /\ obj'.has = Pointers
            /\ obj' \in [class : {"none", "client", "server"}, has : SUBSET Pointers]
        BY <2>1, <3>1 DEF Gain, Control, Pointers
      <3>3. Balance'
        BY <1>5, <2>1, <3>1, <3>2, GainStep DEF AcceptNew, Gain, Control, Kinds, Strings, Pointers
      <3>4. QED
        BY <1>5, <2>1, <3>1, <3>2, <3>3 DEF AcceptNew, Control, StageInv, AllOrNothing,
           SessionOutlives, Goto, Addressed, Pointers, losses
    <2>2. QED
      BY <1>5, <2>1, AbandonStep DEF AcceptNew
  <1>6. ASSUME AcceptRead PROVE Control' /\ Balance'
    <2>1. CASE Release /\ Return /\ UNCHANGED obj
      <3>1. obj.class = "server" /\ obj.has = Pointers
        BY <1>6 DEF AcceptRead, Control, StageInv
      <3>2. Balance'
        BY <1>6, <2>1, <3>1, FreeStep, KindsApart DEF AcceptRead, Release, Control
      <3>3. QED
        BY <1>6, <2>1, <3>1, <3>2 DEF AcceptRead, Control, StageInv, AllOrNothing,
           SessionOutlives, Return, Release, Addressed, losses
    <2>2. QED
      BY <1>6, <2>1, AbandonStep DEF AcceptRead
  <1>7. QED
    BY <1>1, <1>2, <1>3, <1>4, <1>5, <1>6 DEF AcceptCall

(* A TLS stage that fails, with nothing set up or with its undoing         *)
LEMMA TlsFailsStep ==
  ASSUME Control, Balance, pc \in {"cred", "session", "settings"},
         NEW ks, ks = Tls \cap obj.has,
         NEW o, o \in [class : {"none", "client", "server"}, has : SUBSET Pointers],
         o.class = obj.class, o.has = obj.has \ ks,
         TlsFails(o, Freed(heap, ks)), UNCHANGED <<configs, losses>>
  PROVE  Control' /\ Balance'
  <1>1. /\ Balanced(Freed(heap, ks), (obj.has \cup held) \ ks, Lose)
        /\ (obj.has \cup held) \ ks = o.has \cup held
    <2>1. ks \subseteq obj.has \cup held
      OBVIOUS
    <2>2. Balanced(Freed(heap, ks), (obj.has \cup held) \ ks, Lose)
      BY <2>1, FreedBalanced, LoseType DEF Control, Balance
    <2>3. held \cap ks = {}
      BY KindsApart DEF Control
    <2>4. QED
      BY <2>2, <2>3
  <1>2. pc' = "idle" /\ outcome' = "threw" /\ obj.class # "none"
    BY DEF TlsFails, Throw, Control, StageInv
  <1>3. "conn" \notin o.has /\ "session" \notin o.has /\ "cred" \notin o.has
    BY DEF Control, StageInv, Tls
  <1>4. CASE o.class = "server"
    <2>1. heap' = Freed(Freed(heap, ks), o.has \cup held) /\ held' = {} /\ obj' = NoObject
      BY <1>4 DEF TlsFails, FreeObject
    <2>2. Balanced(heap', (o.has \cup held) \ (o.has \cup held), Lose)
      BY <1>1, <2>1, FreedBalanced, LoseType DEF Control
    <2>3. Balance'
      BY <2>1, <2>2 DEF Balance, Lose, losses, NoObject
    <2>4. QED
      BY <1>2, <2>1, <2>3 DEF Control, ConfigsTyped, StageInv, AllOrNothing,
         SessionOutlives, NoObject, configs, losses
  <1>5. CASE o.class # "server"
    <2>1. heap' = Freed(heap, ks) /\ obj' = o /\ UNCHANGED held
      BY <1>5 DEF TlsFails
    <2>2. Balance'
      BY <1>1, <2>1 DEF Balance, Lose, losses
    <2>3. obj'.class = "client" /\ held = {}
      BY <1>2, <1>5, <2>1 DEF Control, StageInv
    <2>4. QED
      BY <1>2, <1>3, <2>1, <2>2, <2>3 DEF Control, ConfigsTyped, StageInv, AllOrNothing,
         SessionOutlives, configs, losses
  <1>6. QED
    BY <1>4, <1>5

(* The TLS session, stage by stage                                         *)
LEMMA TlsStep == Control /\ Balance /\ TlsCall => Control' /\ Balance'
  <1> SUFFICES ASSUME Control, Balance, TlsCall PROVE Control' /\ Balance'
    OBVIOUS
  <1> USE DEF Unchanged, ConfigsTyped
  <1>1. ASSUME pc \in {"cred", "session", "settings"}, TlsUndone,
               UNCHANGED <<configs, losses>>
        PROVE  Control' /\ Balance'
    <2>1. /\ CleanedUp(obj) \in [class : {"none", "client", "server"}, has : SUBSET Pointers]
          /\ CleanedUp(obj).class = obj.class
          /\ CleanedUp(obj).has = obj.has \ (Tls \cap obj.has)
      BY DEF CleanedUp, Control
    <2>2. QED
      BY <1>1, <2>1, TlsFailsStep DEF TlsUndone
  <1>2. ASSUME NEW p \in {"cred", "session"}, p \notin obj.has, "conn" \notin obj.has,
               obj.class # "none", Gain({p}), UNCHANGED <<held, losses>>
        PROVE  /\ Balance' /\ obj'.has = obj.has \cup {p} /\ obj'.class = obj.class
               /\ obj' \in [class : {"none", "client", "server"}, has : SUBSET Pointers]
    <2>1. /\ obj'.has = obj.has \cup {p} /\ obj'.class = obj.class
          /\ obj' \in [class : {"none", "client", "server"}, has : SUBSET Pointers]
      BY <1>2 DEF Gain, Control, Pointers
    <2>2. {p} \in SUBSET Kinds /\ {p} \cap (obj.has \cup held) = {}
      BY <1>2 DEF Control, Kinds, Strings, Pointers
    <2>3. Balance'
      BY <1>2, <2>1, <2>2, GainStep DEF Gain
    <2>4. QED
      BY <2>1, <2>3
  <1>3. ASSUME TlsCredentials PROVE Control' /\ Balance'
    <2>1. "session" \notin obj.has /\ "cred" \notin obj.has /\ "conn" \notin obj.has
          /\ obj.class # "none"
      BY <1>3 DEF TlsCredentials, Control, StageInv, SessionOutlives
    <2>2. CASE TlsFails(obj, heap)
      <3>1. Tls \cap obj.has = {}
        BY <2>1 DEF Tls
      <3>2. Freed(heap, {}) = heap
        BY DEF Freed, Balance, Balanced
      <3>3. QED
        BY <1>3, <2>2, <3>1, <3>2, TlsFailsStep DEF TlsCredentials, Control
    <2>3. CASE Gain({"cred"}) /\ Goto("session") /\ UNCHANGED held
      <3>1. /\ Balance' /\ obj'.has = obj.has \cup {"cred"} /\ obj'.class = obj.class
            /\ obj' \in [class : {"none", "client", "server"}, has : SUBSET Pointers]
        BY <1>2, <1>3, <2>1, <2>3 DEF TlsCredentials
      <3>2. QED
        BY <1>3, <2>1, <2>3, <3>1 DEF TlsCredentials, Goto, Control, StageInv, AllOrNothing,
           SessionOutlives, Addressed, configs, losses
    <2>4. QED
      BY <1>3, <2>2, <2>3 DEF TlsCredentials
  <1>4. ASSUME TlsSession PROVE Control' /\ Balance'
    <2>1. "session" \notin obj.has /\ "cred" \in obj.has /\ "conn" \notin obj.has
          /\ obj.class # "none"
      BY <1>4 DEF TlsSession, Control, StageInv
    <2>2. CASE Gain({"session"}) /\ Goto("settings") /\ UNCHANGED held
      <3>1. /\ Balance' /\ obj'.has = obj.has \cup {"session"} /\ obj'.class = obj.class
            /\ obj' \in [class : {"none", "client", "server"}, has : SUBSET Pointers]
        BY <1>2, <1>4, <2>1, <2>2 DEF TlsSession
      <3>2. QED
        BY <1>4, <2>1, <2>2, <3>1 DEF TlsSession, Goto, Control, StageInv, AllOrNothing,
           SessionOutlives, Addressed, configs, losses
    <2>3. QED
      BY <1>1, <1>4, <2>2 DEF TlsSession
  <1>5. ASSUME TlsSettings PROVE Control' /\ Balance'
    <2>1. CASE Goto(IF obj.class = "server" THEN "ids" ELSE "sni") /\ UNCHANGED memory
      <3>1. Balance'
        BY <1>5, <2>1, SameStep DEF TlsSettings, memory
      <3>2. obj.class \in {"client", "server"} /\ "session" \in obj.has /\ "conn" \notin obj.has
        BY <1>5 DEF TlsSettings, Control, StageInv
      <3>3. QED
        BY <1>5, <2>1, <3>1, <3>2 DEF TlsSettings, Goto, Control, StageInv, AllOrNothing,
           SessionOutlives, Addressed, configs, losses, memory
    <2>2. QED
      BY <1>1, <1>5, <2>1 DEF TlsSettings
  <1>6. QED
    BY <1>3, <1>4, <1>5 DEF TlsCall

(* The client's constructor                                                *)
LEMMA ConstructStep == Control /\ Balance /\ ConstructCall => Control' /\ Balance'
  <1> SUFFICES ASSUME Control, Balance, ConstructCall PROVE Control' /\ Balance'
    OBVIOUS
  <1> USE DEF ConfigsTyped, configs, memory
  <1>1. ASSUME CreateObject PROVE Control' /\ Balance'
    <2>1. obj.has = {} /\ obj'.has = {} /\ obj'.class = "client" /\ held = {}
      BY <1>1 DEF CreateObject, NoObject, Control, AllOrNothing
    <2>2. Balance'
      BY <1>1, <2>1, SameStep DEF CreateObject
    <2>3. QED
      BY <1>1, <2>1, <2>2 DEF CreateObject, Control, StageInv, AllOrNothing,
         SessionOutlives, losses
  <1>2. ASSUME NEW remote \in {"good", "bad"}, ConstructBegin(remote)
        PROVE  Control' /\ Balance'
    <2> DEFINE kept == {"remote"} \cup (IF client.local = "null" THEN {} ELSE {"local"})
               old  == {"remote", "local"} \cap obj.has
    <2>1. obj.class = "client" /\ pc = "idle" /\ held = {}
      BY <1>2 DEF ConstructBegin, Control, AllOrNothing
    <2>2. /\ obj'.has = (obj.has \ old) \cup kept /\ obj'.class = "client"
          /\ obj' \in [class : {"none", "client", "server"}, has : SUBSET Pointers]
          /\ heap' = Allocated(Freed(heap, old), kept)
      BY <1>2, <2>1 DEF ConstructBegin, Control, Pointers
    <2>3. Balanced(Freed(heap, old), obj.has \ old, Lose)
      BY <2>1, FreedBalanced, LoseType DEF Control, Balance
    <2>4. kept \in SUBSET Kinds /\ kept \cap (obj.has \ old) = {}
      BY DEF Kinds, Pointers
    <2>5. Balanced(heap', (obj.has \ old) \cup kept, Lose)
      <3> HIDE DEF kept, old
      <3> QED
        BY <2>2, <2>3, <2>4, AllocatedBalanced, LoseType DEF Control
    <2>6. Balance'
      BY <1>2, <2>1, <2>2, <2>5 DEF ConstructBegin, Balance, Lose, losses
    <2>7. \A p \in {"conn", "session", "cred"} : p \in obj'.has <=> p \in obj.has
      BY <2>2
    <2> HIDE DEF kept, old
    <2>8. CASE Throw
      BY <1>2, <2>1, <2>2, <2>6, <2>7, <2>8 DEF ConstructBegin, Throw, Control, StageInv,
         AllOrNothing, SessionOutlives, losses
    <2>9. CASE Goto(IF "session" \in obj.has THEN "sni" ELSE "cred")
      BY <1>2, <2>1, <2>2, <2>6, <2>7, <2>9 DEF ConstructBegin, Goto, Control, StageInv,
         AllOrNothing, SessionOutlives, losses
    <2>10. QED
      BY <1>2, <2>8, <2>9 DEF ConstructBegin
  <1>3. ASSUME ConstructSni PROVE Control' /\ Balance'
    <2>1. Balance'
      BY <1>3, SameStep DEF ConstructSni
    <2>2. QED
      BY <1>3, <2>1 DEF ConstructSni, Goto, Throw, Control, StageInv, AllOrNothing,
         SessionOutlives, Addressed, losses
  <1>4. ASSUME ConstructNative PROVE Control' /\ Balance'
    <2>1. obj.class = "client" /\ held = {} /\ "session" \in obj.has
      BY <1>4 DEF ConstructNative, Control, StageInv
    <2>2. CASE Throw /\ UNCHANGED <<memory, overwritten>>
      <3>1. Balance'
        BY <1>4, <2>2, SameStep DEF ConstructNative, losses
      <3>2. QED
        BY <1>4, <2>1, <2>2, <3>1 DEF ConstructNative, Throw, Control, StageInv, AllOrNothing,
           SessionOutlives
    <2>3. CASE /\ Gain({"conn"}) /\ Return /\ UNCHANGED held
               /\ overwritten' = IF "conn" \in obj.has THEN overwritten + 1 ELSE overwritten
      <3>1. /\ obj'.has = obj.has \cup {"conn"} /\ obj'.class = "client"
            /\ obj' \in [class : {"none", "client", "server"}, has : SUBSET Pointers]
        BY <2>1, <2>3 DEF Gain, Control, Pointers
      <3>2. ASSUME "conn" \in obj.has PROVE Balance'
        <4>1. /\ obj'.has \cup held' = obj.has \cup held
              /\ overwritten' = overwritten + 1 /\ earlyThrows' = earlyThrows
              /\ heap' = Allocated(heap, {"conn"})
          BY <1>4, <2>3, <3>1, <3>2 DEF ConstructNative, Gain
        <4>2. QED
          BY <3>2, <4>1, OverwrittenBalanced DEF Balance, Lose, Control, StageInv
      <3>3. ASSUME "conn" \notin obj.has PROVE Balance'
        <4>1. UNCHANGED losses
          BY <1>4, <2>3, <3>3 DEF ConstructNative, losses
        <4>2. {"conn"} \in SUBSET Kinds /\ {"conn"} \cap (obj.has \cup held) = {}
          BY <2>1, <3>3 DEF Kinds, Pointers
        <4>3. QED
          BY <2>3, <3>1, <4>1, <4>2, GainStep DEF Gain
      <3>4. QED
        BY <1>4, <2>1, <2>3, <3>1, <3>2, <3>3 DEF ConstructNative, Return, Control, StageInv,
           AllOrNothing, SessionOutlives
    <2>4. QED
      BY <1>4, <2>2, <2>3 DEF ConstructNative
  <1>5. QED
    BY <1>1, <1>2, <1>3, <1>4 DEF ConstructCall

(* The last reference to the object goes.                                  *)
LEMMA DestroyStep == Control /\ Balance /\ Destroy => Control' /\ Balance'
  <1> SUFFICES ASSUME Control, Balance, Destroy PROVE Control' /\ Balance'
    OBVIOUS
  <1>1. held = {} /\ obj' = NoObject /\ heap' = Freed(heap, obj.has)
    BY DEF Destroy, Control, AllOrNothing, FreeObject
  <1>2. Balance'
    BY <1>1, FreeStep DEF Destroy, NoObject
  <1>3. QED
    BY <1>1, <1>2 DEF Destroy, Control, ConfigsTyped, StageInv, AllOrNothing,
       SessionOutlives, NoObject, configs, losses

----------------------------------------------------------------------------
(* The inductive invariant: whatever stage fails, and however often the    *)
(* calls are repeated, what is alive is what is owned and what was lost.   *)
THEOREM SetupInvariant == Spec => []SetupInv
  <1>1. Init => SetupInv
    <2> SUFFICES ASSUME Init PROVE SetupInv
      OBVIOUS
    <2>1. Control
      BY DEF Init, Control, ConfigsTyped, StageInv, AllOrNothing, SessionOutlives, NoObject,
         Addresses, Texts, Alpns
    <2>2. Balance
      BY DEF Init, Balance, Balanced, Lose, LostTo, NoObject
    <2>3. QED
      BY <2>1, <2>2, SplitInv
  <1>2. SetupInv /\ [Next]_vars => SetupInv'
    <2> SUFFICES ASSUME Control, Balance, [Next]_vars PROVE Control' /\ Balance'
      BY SplitInv, SplitInvNext
    <2>1. CASE UNCHANGED vars
      BY <2>1 DEF Control, ConfigsTyped, StageInv, AllOrNothing, SessionOutlives, Addressed,
         Balance, Lose, vars, configs, memory, losses
    <2>2. QED
      BY <2>1, ConfigStep, AcceptStep, TlsStep, ConstructStep, DestroyStep DEF Next
  <1>3. QED
    BY <1>1, <1>2, PTL DEF Spec

(* Every pointer of the object and every string a call holds is alive, and *)
(* everything alive is owned, but for the two counted losses.              *)
THEOREM SetupOwnership == Spec => []Ownership
  <1>1. SetupInv => Ownership
    BY DEF SetupInv
  <1>2. QED
    BY <1>1, SetupInvariant, PTL

(* accept() returns a whole connection or leaves nothing behind.           *)
THEOREM SetupWhole == Spec => []AllOrNothing
  <1>1. SetupInv => AllOrNothing
    BY DEF SetupInv
  <1>2. QED
    BY <1>1, SetupInvariant, PTL

(* A ngtcp2 connection always has its TLS session, and the session its     *)
(* credentials, except between the two stages that make them.              *)
THEOREM SetupSession == Spec => []SessionOutlives
  <1>1. SetupInv => SessionOutlives
    BY DEF SetupInv
  <1>2. QED
    BY <1>1, SetupInvariant, PTL

(* No configuration ever keeps an empty string, and no count goes below    *)
(* zero.                                                                   *)
THEOREM SetupTypeCorrect == Spec => []TypeOK
  <1>1. SetupInv => TypeOK
    BY DEF SetupInv
  <1>2. QED
    BY <1>1, SetupInvariant, PTL

(***************************************************************************)
(* Address: strchr and strrchr                                             *)
(***************************************************************************)

(* A set of numbers that is not empty has a least element.                 *)
LEMMA LeastNumber ==
  ASSUME NEW T \in SUBSET Nat, T # {}
  PROVE  \E n \in T : \A m \in T : n <= m
  <1> DEFINE R == {ss \in Nat \X Nat : ss[1] < ss[2]}
  <1>1. IsWellFoundedOn(R, Nat)
    BY NatLessThanWellFounded DEF OpToRel
  <1> HIDE DEF R
  <1>2. PICK n \in T : \A m \in T : ~ (<<m, n>> \in R)
    BY <1>1, WFMin
  <1>3. \A m \in T : ~ (m < n)
    BY <1>2 DEF R
  <1>4. QED
    BY <1>3

(* A set of numbers up to n that is not empty has a greatest element.      *)
LEMMA GreatestNumber ==
  ASSUME NEW n \in Nat, NEW T \in SUBSET (0..n), T # {}
  PROVE  \E k \in T : \A m \in T : m <= k
  <1> DEFINE D == {n - m : m \in T}
  <1>1. \A m \in T : m \in Nat /\ n - m \in Nat
    OBVIOUS
  <1>2. D \in SUBSET Nat /\ D # {}
    BY <1>1
  <1>3. PICK d \in D : \A e \in D : d <= e
    BY <1>2, LeastNumber
  <1>4. PICK k \in T : d = n - k
    BY <1>3
  <1>5. ASSUME NEW m \in T PROVE m <= k
    <2>1. d <= n - m
      BY <1>3
    <2>2. QED
      BY <1>1, <1>4, <2>1
  <1>6. QED
    BY <1>5

(* strchr finds the first place of a character.                            *)
LEMMA StrChrIs ==
  ASSUME NEW t, Len(t) \in Nat, NEW ch
  PROVE  /\ StrChr(t, ch) \in 0..Len(t)
         /\ StrChr(t, ch) = 0 => \A i \in 1..Len(t) : t[i] # ch
         /\ StrChr(t, ch) # 0 => /\ t[StrChr(t, ch)] = ch
                                 /\ \A i \in 1..(StrChr(t, ch) - 1) : t[i] # ch
  <1> DEFINE I == {i \in 1..Len(t) : t[i] = ch}
  <1>1. StrChr(t, ch) = IF I # {} THEN Min(I) ELSE 0
    BY DEF StrChr, SelectInSeq
  <1>2. I \in SUBSET Nat /\ \A i : i \in I <=> i \in 1..Len(t) /\ t[i] = ch
    OBVIOUS
  <1> HIDE DEF I
  <1>3. ASSUME I # {} PROVE Min(I) \in I /\ \A i \in I : Min(I) <= i
    BY <1>2, <1>3, LeastNumber DEF Min
  <1>4. CASE I = {}
    BY <1>1, <1>2, <1>4
  <1>5. CASE I # {}
    <2> DEFINE f == StrChr(t, ch)
    <2>1. f \in I /\ \A i \in I : f <= i
      BY <1>1, <1>3, <1>5
    <2> HIDE DEF f
    <2>2. f \in 1..Len(t) /\ t[f] = ch /\ \A i \in 1..(f - 1) : i \notin I /\ i \in 1..Len(t)
      BY <1>2, <2>1
    <2>3. \A i \in 1..(f - 1) : t[i] # ch
      BY <1>2, <2>2
    <2>4. QED
      BY <2>2, <2>3 DEF f
  <1>6. QED
    BY <1>4, <1>5

(* strrchr finds the last one.                                             *)
LEMMA StrRChrIs ==
  ASSUME NEW t, Len(t) \in Nat, NEW ch
  PROVE  /\ StrRChr(t, ch) \in 0..Len(t)
         /\ StrRChr(t, ch) = 0 => \A i \in 1..Len(t) : t[i] # ch
         /\ StrRChr(t, ch) # 0 => /\ t[StrRChr(t, ch)] = ch
                                  /\ \A i \in (StrRChr(t, ch) + 1)..Len(t) : t[i] # ch
  <1> DEFINE I == {i \in 1..Len(t) : t[i] = ch}
  <1>1. StrRChr(t, ch) = IF I # {} THEN Max(I) ELSE 0
    BY DEF StrRChr, SelectLastInSeq
  <1>2. I \in SUBSET (0..Len(t)) /\ \A i : i \in I <=> i \in 1..Len(t) /\ t[i] = ch
    OBVIOUS
  <1> HIDE DEF I
  <1>3. ASSUME I # {} PROVE Max(I) \in I /\ \A i \in I : i <= Max(I)
    BY <1>2, <1>3, GreatestNumber DEF Max
  <1>4. QED
    BY <1>1, <1>2, <1>3

(* The place is determined by what is there and what is before.            *)
LEMMA StrChrAt ==
  ASSUME NEW t, Len(t) \in Nat, NEW ch, NEW k \in 1..Len(t),
         t[k] = ch, \A i \in 1..(k - 1) : t[i] # ch
  PROVE  StrChr(t, ch) = k
  <1> DEFINE f == StrChr(t, ch)
  <1>1. /\ f \in 0..Len(t)
        /\ f = 0 => \A i \in 1..Len(t) : t[i] # ch
        /\ f # 0 => t[f] = ch /\ \A i \in 1..(f - 1) : t[i] # ch
    BY StrChrIs
  <1> HIDE DEF f
  <1>2. QED
    BY <1>1 DEF f

LEMMA StrRChrAt ==
  ASSUME NEW t, Len(t) \in Nat, NEW ch, NEW k \in 1..Len(t),
         t[k] = ch, \A i \in (k + 1)..Len(t) : t[i] # ch
  PROVE  StrRChr(t, ch) = k
  <1> DEFINE f == StrRChr(t, ch)
  <1>1. /\ f \in 0..Len(t)
        /\ f = 0 => \A i \in 1..Len(t) : t[i] # ch
        /\ f # 0 => t[f] = ch /\ \A i \in (f + 1)..Len(t) : t[i] # ch
    BY StrRChrIs
  <1> HIDE DEF f
  <1>2. QED
    BY <1>1 DEF f

LEMMA StrChrNone ==
  ASSUME NEW t, Len(t) \in Nat, NEW ch, \A i \in 1..Len(t) : t[i] # ch
  PROVE  StrChr(t, ch) = 0
  BY StrChrIs

(* What follows a place of a text                                          *)
LEMMA FromIs ==
  ASSUME NEW S, NEW t \in Seq(S), NEW i \in 1..(Len(t) + 1)
  PROVE  /\ From(t, i) \in Seq(S) /\ Len(From(t, i)) = Len(t) - i + 1
         /\ \A k \in 1..(Len(t) - i + 1) : From(t, i)[k] = t[i + k - 1]
  <1>1. \A k \in i..Len(t) : t[k] \in S
    OBVIOUS
  <1>2. i <= Len(t) => Len(SubSeq(t, i, Len(t))) = Len(t) - i + 1
    BY <1>1, SubSeqProperties
  <1>3. i > Len(t) => Len(SubSeq(t, i, Len(t))) = 0 /\ Len(t) - i + 1 = 0
    BY <1>1, SubSeqProperties
  <1>4. \A k \in 1..(Len(t) - i + 1) : SubSeq(t, i, Len(t))[k] = t[i + k - 1]
    BY <1>1, SubSeqProperties
  <1>5. SubSeq(t, i, Len(t)) \in Seq(S)
    BY <1>1, SubSeqProperties
  <1>6. QED
    BY <1>2, <1>3, <1>4, <1>5 DEF From

(* What comes before a place of a text                                     *)
LEMMA BeforeIs ==
  ASSUME NEW S, NEW t \in Seq(S), NEW i \in 1..(Len(t) + 1)
  PROVE  /\ SubSeq(t, 1, i - 1) \in Seq(S) /\ Len(SubSeq(t, 1, i - 1)) = i - 1
         /\ \A k \in 1..(i - 1) : SubSeq(t, 1, i - 1)[k] = t[k]
  <1>1. \A k \in 1..(i - 1) : t[k] \in S
    OBVIOUS
  <1>2. QED
    BY <1>1, SubSeqProperties

(* A C string has no NUL, and is the text when the text has none.          *)
LEMMA CStringIs ==
  ASSUME NEW S, NEW t \in Seq(S)
  PROVE  /\ CString(t) \in Seq(S)
         /\ \A i \in 1..Len(CString(t)) : CString(t)[i] # "NUL"
         /\ (\A i \in 1..Len(t) : t[i] # "NUL") => CString(t) = t
  <1> DEFINE f == StrChr(t, "NUL")
  <1>1. /\ f \in 0..Len(t)
        /\ f = 0 => \A i \in 1..Len(t) : t[i] # "NUL"
        /\ f # 0 => t[f] = "NUL" /\ \A i \in 1..(f - 1) : t[i] # "NUL"
    BY StrChrIs
  <1>2. CString(t) = IF f = 0 THEN t ELSE SubSeq(t, 1, f - 1)
    BY DEF CString
  <1> HIDE DEF f
  <1>3. CASE f = 0
    BY <1>1, <1>2, <1>3
  <1>4. CASE f # 0
    <2>1. f \in 1..(Len(t) + 1)
      BY <1>1, <1>4
    <2>2. /\ SubSeq(t, 1, f - 1) \in Seq(S) /\ Len(SubSeq(t, 1, f - 1)) = f - 1
          /\ \A k \in 1..(f - 1) : SubSeq(t, 1, f - 1)[k] = t[k]
      BY <2>1, BeforeIs
    <2>3. QED
      BY <1>1, <1>2, <1>4, <2>2
  <1>5. QED
    BY <1>3, <1>4

(***************************************************************************)
(* strtol and %ld                                                          *)
(***************************************************************************)

(* One step of the value, and the values of the first n digits of d        *)
ValueStep(G, d, i) == IF i = 0 THEN 0 ELSE 10 * G[i - 1] + StrChr(Digit, d[i]) - 1

ValuesOf(G, d, n) == G = [i \in 0..n |-> ValueStep(G, d, i)]

(* The values of the same digits are the same.                             *)
LEMMA ValuesUnique ==
  ASSUME NEW d, NEW e, NEW n \in Nat, NEW m \in Nat, NEW G, NEW H,
         ValuesOf(G, d, n), ValuesOf(H, e, m), n <= m, Agree(d, e, n)
  PROVE  \A i \in 0..n : G[i] = H[i]
  <1> DEFINE P == {i \in Nat : i <= n => G[i] = H[i]}
  <1>1. 0 \in P
    BY DEF ValuesOf, ValueStep
  <1>2. ASSUME NEW i \in Nat, i \in P PROVE i + 1 \in P
    <2> SUFFICES ASSUME i + 1 <= n PROVE G[i + 1] = H[i + 1]
      OBVIOUS
    <2>1. i + 1 \in 0..n /\ i + 1 \in 0..m /\ i + 1 \in 1..n /\ (i + 1) - 1 = i /\ i + 1 # 0
      OBVIOUS
    <2>2. G[i] = H[i] /\ d[i + 1] = e[i + 1]
      BY <1>2, <2>1 DEF Agree
    <2>3. G[i + 1] = ValueStep(G, d, i + 1) /\ H[i + 1] = ValueStep(H, e, i + 1)
      BY <2>1 DEF ValuesOf
    <2>4. QED
      BY <2>1, <2>2, <2>3 DEF ValueStep
  <1> HIDE DEF P
  <1>3. \A i \in Nat : i \in P
    BY <1>1, <1>2, SetInduction
  <1>4. QED
    BY <1>3 DEF P

(* The place of a character among the digits is a number.                  *)
LEMMA DigitPlace == \A ch : StrChr(Digit, ch) \in 0..10
  <1>1. Len(Digit) = 10
    BY DEF Digit
  <1>2. QED
    BY <1>1, StrChrIs

(* There are such values.                                                  *)
LEMMA ValuesExist ==
  ASSUME NEW S, NEW d \in Seq(S)
  PROVE  \A n \in 0..Len(d) : \E G \in [0..n -> Int] : ValuesOf(G, d, n)
  <1> DEFINE P == {n \in Nat : n <= Len(d) => \E G \in [0..n -> Int] : ValuesOf(G, d, n)}
  <1>1. 0 \in P
    <2> DEFINE G == [i \in 0..0 |-> 0]
    <2>1. G \in [0..0 -> Int] /\ ValuesOf(G, d, 0)
      BY DEF ValuesOf, ValueStep
    <2>2. QED
      BY <2>1
  <1>2. ASSUME NEW n \in Nat, n \in P PROVE n + 1 \in P
    <2> SUFFICES ASSUME n + 1 <= Len(d)
                 PROVE  \E G \in [0..(n + 1) -> Int] : ValuesOf(G, d, n + 1)
      OBVIOUS
    <2>1. PICK H \in [0..n -> Int] : ValuesOf(H, d, n)
      BY <1>2
    <2> DEFINE G == [i \in 0..(n + 1) |-> IF i <= n THEN H[i] ELSE ValueStep(H, d, n + 1)]
    <2>2. ValueStep(H, d, n + 1) \in Int
      <3>1. H[n] \in Int /\ (n + 1) - 1 = n /\ StrChr(Digit, d[n + 1]) \in Int
        BY DigitPlace
      <3>2. QED
        BY <3>1 DEF ValueStep
    <2>3. G \in [0..(n + 1) -> Int]
      BY <2>2
    <2>4. ASSUME NEW i \in 0..(n + 1) PROVE G[i] = ValueStep(G, d, i)
      <3>1. CASE i <= n
        <4>1. i \in 0..n /\ G[i] = H[i]
          BY <3>1
        <4>2. H[i] = ValueStep(H, d, i)
          <5> HIDE DEF G
          <5> QED
            BY <2>1, <4>1 DEF ValuesOf
        <4>3. i # 0 => i - 1 \in 0..(n + 1) /\ G[i - 1] = H[i - 1]
          BY <3>1
        <4>4. QED
          BY <4>1, <4>2, <4>3 DEF ValueStep
      <3>2. CASE i = n + 1
        <4>1. G[i] = ValueStep(H, d, i) /\ G[i - 1] = H[i - 1]
          BY <3>2
        <4>2. QED
          BY <4>1 DEF ValueStep
      <3>3. QED
        BY <3>1, <3>2
    <2> HIDE DEF G
    <2>5. ValuesOf(G, d, n + 1)
      BY <2>3, <2>4 DEF ValuesOf
    <2>6. QED
      BY <2>3, <2>5
  <1> HIDE DEF P
  <1>3. \A n \in Nat : n \in P
    BY <1>1, <1>2, SetInduction
  <1>4. QED
    BY <1>3 DEF P

(* strtol's number is the last of them.                                    *)
LEMMA ValueIs ==
  ASSUME NEW S, NEW d \in Seq(S)
  PROVE  \E G \in [0..Len(d) -> Int] : ValuesOf(G, d, Len(d)) /\ ValueOf(d) = G[Len(d)]
  <1>0. Len(d) \in 0..Len(d)
    OBVIOUS
  <1>1. PICK H \in [0..Len(d) -> Int] : ValuesOf(H, d, Len(d))
    BY <1>0, ValuesExist
  <1> DEFINE F == CHOOSE G : ValuesOf(G, d, Len(d))
  <1>2. ValuesOf(F, d, Len(d))
    BY <1>1
  <1>3. ValueOf(d) = F[Len(d)]
    BY DEF ValueOf, ValuesOf, ValueStep
  <1> HIDE DEF F
  <1>4. \A i \in 0..Len(d) : F[i] = H[i]
    BY <1>1, <1>2, ValuesUnique DEF Agree
  <1>5. QED
    BY <1>1, <1>3, <1>4

(* One digit more: ten times as much, and the digit                        *)
LEMMA ValueAppend ==
  ASSUME NEW S, NEW d \in Seq(S), NEW ch \in S
  PROVE  /\ ValueOf(d) \in Int
         /\ d = <<>> => ValueOf(d) = 0
         /\ ValueOf(Append(d, ch)) = 10 * ValueOf(d) + StrChr(Digit, ch) - 1
  <1> DEFINE e == Append(d, ch)
             n == Len(d)
  <1>1. /\ e \in Seq(S) /\ n \in Nat /\ Len(e) = n + 1 /\ e[n + 1] = ch
        /\ \A i \in 1..n : d[i] = e[i]
        /\ d = <<>> => n = 0
    OBVIOUS
  <1> HIDE DEF e, n
  <1>2. PICK G \in [0..n -> Int] : ValuesOf(G, d, n) /\ ValueOf(d) = G[n]
    BY ValueIs DEF n
  <1>3. PICK H : ValuesOf(H, e, n + 1) /\ ValueOf(e) = H[n + 1]
    <2>1. \E H \in [0..Len(e) -> Int] : ValuesOf(H, e, Len(e)) /\ ValueOf(e) = H[Len(e)]
      BY <1>1, ValueIs
    <2>2. QED
      BY <1>1, <2>1
  <1>4. G[n] = H[n]
    <2>1. n + 1 \in Nat /\ n <= n + 1 /\ n \in 0..n
      BY <1>1
    <2>2. ValuesOf(G, d, n) /\ ValuesOf(H, e, n + 1) /\ Agree(d, e, n)
      BY <1>1, <1>2, <1>3 DEF Agree
    <2>3. \A i \in 0..n : G[i] = H[i]
      BY <1>1, <2>1, <2>2, ValuesUnique
    <2>4. QED
      BY <2>1, <2>3
  <1>5. H[n + 1] = ValueStep(H, e, n + 1) /\ G[n] = ValueStep(G, d, n)
    <2>1. n + 1 \in 0..(n + 1) /\ n \in 0..n
      BY <1>1
    <2>2. QED
      BY <1>2, <1>3, <2>1 DEF ValuesOf
  <1>6. (n + 1) - 1 = n /\ n + 1 # 0 /\ G[n] \in Int
    BY <1>1
  <1>7. QED
    BY <1>1, <1>2, <1>3, <1>4, <1>5, <1>6 DEF ValueStep, e

(* The digits, and the place of each                                       *)
Digits == {Digit[i] : i \in 1..10}

LEMMA DigitAt ==
  \A i \in 1..10 : StrChr(Digit, Digit[i]) = i
  <1>1. Len(Digit) = 10 /\ \A i, j \in 1..10 : Digit[i] = Digit[j] => i = j
    BY DEF Digit
  <1>2. ASSUME NEW i \in 1..10 PROVE StrChr(Digit, Digit[i]) = i
    <2>1. \A j \in 1..(i - 1) : Digit[j] # Digit[i]
      BY <1>1
    <2>2. i \in 1..Len(Digit)
      BY <1>1
    <2>3. QED
      BY <1>1, <2>1, <2>2, StrChrAt
  <1>3. QED
    BY <1>2

(* One step of the decimal form, and the forms of the numbers up to n      *)
DecimalStep(G, m) == IF m < 10 THEN <<Digit[m + 1]>>
                     ELSE Append(G[m \div 10], Digit[(m % 10) + 1])

DecimalsOf(G, n) == G = [m \in 0..n |-> DecimalStep(G, m)]

(* A number of two digits or more, without its last one                    *)
LEMMA Tenth ==
  ASSUME NEW m \in Nat
  PROVE  /\ m \div 10 \in Nat /\ m % 10 \in 0..9 /\ m = 10 * (m \div 10) + (m % 10)
         /\ m >= 10 => m \div 10 < m
  <1>1. m \div 10 \in Nat /\ m % 10 \in 0..9
    OBVIOUS
  <1>2. m % 10 = m - 10 * (m \div 10)
    OBVIOUS
  <1> DEFINE q == m \div 10
             r == m % 10
  <1>3. q \in Nat /\ r \in 0..9 /\ r = m - 10 * q
    BY <1>1, <1>2
  <1> HIDE DEF q, r
  <1>4. m = 10 * q + r /\ (m >= 10 => q < m)
    BY <1>3
  <1>5. QED
    BY <1>3, <1>4 DEF q, r

(* The decimal forms of a number agree.                                    *)
LEMMA DecimalsUnique ==
  ASSUME NEW n \in Nat, NEW m \in Nat, NEW G, NEW H,
         DecimalsOf(G, n), DecimalsOf(H, m), n <= m
  PROVE  \A i \in 0..n : G[i] = H[i]
  <1> DEFINE P == {k \in Nat : \A i \in 0..k : i <= n => G[i] = H[i]}
  <1>1. 0 \in P
    <2>1. G[0] = DecimalStep(G, 0) /\ H[0] = DecimalStep(H, 0)
      <3>1. 0 \in 0..n /\ 0 \in 0..m
        OBVIOUS
      <3>2. QED
        BY <3>1 DEF DecimalsOf
    <2>2. G[0] = H[0]
      BY <2>1 DEF DecimalStep
    <2>3. QED
      BY <2>2
  <1>2. ASSUME NEW k \in Nat, k \in P PROVE k + 1 \in P
    <2> SUFFICES ASSUME k + 1 <= n PROVE G[k + 1] = H[k + 1]
      BY <1>2
    <2>1. G[k + 1] = DecimalStep(G, k + 1) /\ H[k + 1] = DecimalStep(H, k + 1)
      <3>1. k + 1 \in 0..n /\ k + 1 \in 0..m
        OBVIOUS
      <3>2. QED
        BY <3>1 DEF DecimalsOf
    <2>2. k + 1 >= 10 => (k + 1) \div 10 \in 0..k
      BY Tenth
    <2>3. k + 1 >= 10 => G[(k + 1) \div 10] = H[(k + 1) \div 10]
      BY <1>2, <2>2
    <2>4. QED
      BY <2>1, <2>3 DEF DecimalStep
  <1> HIDE DEF P
  <1>3. \A k \in Nat : k \in P
    BY <1>1, <1>2, SetInduction
  <1>4. n \in P
    BY <1>3
  <1>5. QED
    BY <1>4 DEF P

(* There are decimal forms.                                                *)
LEMMA DecimalsExist ==
  \A n \in Nat : \E G \in [0..n -> Seq(Digits)] : DecimalsOf(G, n)
  <1> DEFINE P == {n \in Nat : \E G \in [0..n -> Seq(Digits)] : DecimalsOf(G, n)}
  <1>0. \A k \in 0..9 : Digit[k + 1] \in Digits
    BY DEF Digits
  <1>1. 0 \in P
    <2> DEFINE G == [i \in 0..0 |-> <<Digit[1]>>]
    <2>1. G \in [0..0 -> Seq(Digits)]
      BY DEF Digits
    <2>2. DecimalsOf(G, 0)
      BY DEF DecimalsOf, DecimalStep
    <2>3. QED
      BY <2>1, <2>2
  <1>2. ASSUME NEW n \in Nat, n \in P PROVE n + 1 \in P
    <2>1. PICK H \in [0..n -> Seq(Digits)] : DecimalsOf(H, n)
      BY <1>2
    <2> DEFINE G == [i \in 0..(n + 1) |-> IF i <= n THEN H[i] ELSE DecimalStep(H, n + 1)]
    <2>2. \A i \in 0..(n + 1) : i >= 10 => i \div 10 \in 0..n /\ i \div 10 \in 0..(n + 1)
      BY Tenth
    <2>3. DecimalStep(H, n + 1) \in Seq(Digits)
      <3>1. CASE n + 1 < 10
        <4>1. n + 1 \in 0..9
          BY <3>1
        <4>2. Digit[(n + 1) + 1] \in Digits
          BY <1>0, <4>1
        <4>3. QED
          BY <3>1, <4>2 DEF DecimalStep
      <3>2. CASE n + 1 >= 10
        <4>1. H[(n + 1) \div 10] \in Seq(Digits)
          BY <2>2, <3>2
        <4>2. (n + 1) % 10 \in 0..9
          BY Tenth
        <4>3. Digit[((n + 1) % 10) + 1] \in Digits
          BY <1>0, <4>2
        <4>4. QED
          BY <3>2, <4>1, <4>3 DEF DecimalStep
      <3>3. QED
        BY <3>1, <3>2
    <2>4. G \in [0..(n + 1) -> Seq(Digits)]
      BY <2>3
    <2>5. ASSUME NEW i \in 0..(n + 1) PROVE G[i] = DecimalStep(G, i)
      <3>1. i >= 10 => G[i \div 10] = H[i \div 10]
        BY <2>2
      <3>2. DecimalStep(G, i) = DecimalStep(H, i)
        BY <3>1 DEF DecimalStep
      <3>3. CASE i <= n
        <4>1. G[i] = H[i] /\ i \in 0..n
          BY <3>3
        <4>2. H[i] = DecimalStep(H, i)
          <5> HIDE DEF G
          <5> QED
            BY <2>1, <4>1 DEF DecimalsOf
        <4>3. QED
          BY <3>2, <4>1, <4>2
      <3>4. CASE i = n + 1
        BY <3>2, <3>4
      <3>5. QED
        BY <3>3, <3>4
    <2> HIDE DEF G
    <2>6. DecimalsOf(G, n + 1)
      BY <2>4, <2>5 DEF DecimalsOf
    <2>7. QED
      BY <2>4, <2>6
  <1> HIDE DEF P
  <1>3. \A n \in Nat : n \in P
    BY <1>1, <1>2, SetInduction
  <1>4. QED
    BY <1>3 DEF P

(* %ld prints a digit, or a digit behind the digits of a tenth.            *)
LEMMA DecimalIs ==
  ASSUME NEW n \in Nat
  PROVE  \E G \in [0..n -> Seq(Digits)] : DecimalsOf(G, n) /\ DecimalOf(n) = G[n]
  <1>1. PICK H \in [0..n -> Seq(Digits)] : DecimalsOf(H, n)
    BY DecimalsExist
  <1> DEFINE F == CHOOSE G : DecimalsOf(G, n)
  <1>2. DecimalsOf(F, n)
    BY <1>1
  <1>3. DecimalOf(n) = F[n]
    BY DEF DecimalOf, DecimalsOf, DecimalStep
  <1> HIDE DEF F
  <1>4. \A i \in 0..n : F[i] = H[i]
    BY <1>1, <1>2, DecimalsUnique
  <1>5. QED
    BY <1>1, <1>3, <1>4

LEMMA DecimalAppend ==
  ASSUME NEW n \in Nat
  PROVE  DecimalOf(n) = IF n < 10 THEN <<Digit[n + 1]>>
                        ELSE Append(DecimalOf(n \div 10), Digit[(n % 10) + 1])
  <1>1. PICK G : DecimalsOf(G, n) /\ DecimalOf(n) = G[n]
    BY DecimalIs
  <1>2. DecimalOf(n) = DecimalStep(G, n)
    <2>1. n \in 0..n
      OBVIOUS
    <2>2. QED
      BY <1>1, <2>1 DEF DecimalsOf
  <1>3. ASSUME NEW k \in Nat, k <= n PROVE G[k] = DecimalOf(k)
    <2>1. PICK H : DecimalsOf(H, k) /\ DecimalOf(k) = H[k]
      BY DecimalIs
    <2>2. DecimalsOf(G, n)
      BY <1>1
    <2>3. \A i \in 0..k : H[i] = G[i]
      BY <1>3, <2>1, <2>2, DecimalsUnique
    <2>4. QED
      BY <2>1, <2>3
  <1>4. n >= 10 => n \div 10 \in Nat /\ n \div 10 <= n
    BY Tenth
  <1>5. n >= 10 => G[n \div 10] = DecimalOf(n \div 10)
    BY <1>3, <1>4
  <1>6. QED
    BY <1>2, <1>5 DEF DecimalStep

(* What %ld prints of a number strtol reads back: see ValueOf.             *)
LEMMA DecimalValue ==
  \A n \in Nat : /\ DecimalOf(n) \in Seq(Digits) /\ Len(DecimalOf(n)) > 0
                 /\ ValueOf(DecimalOf(n)) = n
  <1> DEFINE OK(n) == /\ DecimalOf(n) \in Seq(Digits) /\ Len(DecimalOf(n)) > 0
                      /\ ValueOf(DecimalOf(n)) = n
             P == {k \in Nat : \A n \in 0..k : OK(n)}
  <1>0. \A k \in 0..9 : Digit[k + 1] \in Digits /\ StrChr(Digit, Digit[k + 1]) = k + 1
    BY DigitAt DEF Digits
  <1>1. ASSUME NEW n \in Nat, n < 10 PROVE OK(n)
    <2>1. n \in 0..9
      BY <1>1
    <2>2. Digit[n + 1] \in Digits /\ StrChr(Digit, Digit[n + 1]) = n + 1
      BY <1>0, <2>1
    <2>3. DecimalOf(n) = <<Digit[n + 1]>>
      BY <1>1, DecimalAppend
    <2> DEFINE none == <<>>
    <2>4. none \in Seq(Digits) /\ Append(none, Digit[n + 1]) = <<Digit[n + 1]>>
      OBVIOUS
    <2>5. ValueOf(none) = 0 /\ ValueOf(Append(none, Digit[n + 1])) =
              10 * ValueOf(none) + StrChr(Digit, Digit[n + 1]) - 1
      BY <2>2, <2>4, ValueAppend
    <2> HIDE DEF none
    <2>6. ValueOf(<<Digit[n + 1]>>) = n
      BY <2>2, <2>4, <2>5
    <2>7. <<Digit[n + 1]>> \in Seq(Digits) /\ Len(<<Digit[n + 1]>>) = 1
      BY <2>2
    <2>8. QED
      BY <2>3, <2>6, <2>7
  <1>2. ASSUME NEW n \in Nat, n >= 10, OK(n \div 10) PROVE OK(n)
    <2> DEFINE d == DecimalOf(n \div 10)
               ch == Digit[(n % 10) + 1]
    <2>1. n % 10 \in 0..9 /\ n = 10 * (n \div 10) + (n % 10)
      BY Tenth
    <2>2. ch \in Digits /\ StrChr(Digit, ch) = (n % 10) + 1
      BY <1>0, <2>1
    <2>3. d \in Seq(Digits) /\ ValueOf(d) = n \div 10
      BY <1>2
    <2>4. DecimalOf(n) = Append(d, ch)
      <3>1. ~ (n < 10)
        BY <1>2
      <3>2. QED
        BY <3>1, DecimalAppend
    <2> HIDE DEF d, ch
    <2>5. ValueOf(Append(d, ch)) = 10 * ValueOf(d) + StrChr(Digit, ch) - 1
      BY <2>2, <2>3, ValueAppend
    <2>6. Append(d, ch) \in Seq(Digits) /\ Len(Append(d, ch)) > 0
      BY <2>2, <2>3
    <2>7. ValueOf(Append(d, ch)) = n
      BY <2>1, <2>2, <2>3, <2>5
    <2>8. QED
      BY <2>4, <2>6, <2>7
  <1> HIDE DEF OK
  <1>3. 0 \in P
    BY <1>1
  <1>4. ASSUME NEW k \in Nat, k \in P PROVE k + 1 \in P
    <2>1. k + 1 >= 10 => (k + 1) \div 10 \in 0..k
      BY Tenth
    <2>2. OK(k + 1)
      BY <1>1, <1>2, <1>4, <2>1
    <2>3. QED
      BY <1>4, <2>2
  <1> HIDE DEF P
  <1>5. \A k \in Nat : k \in P
    BY <1>3, <1>4, SetInduction
  <1>6. \A k \in Nat : OK(k)
    BY <1>5 DEF P
  <1>7. QED
    BY <1>6 DEF OK

(* The first place of another character                                    *)
Others(p, ch) == {i \in 1..Len(p) : p[i] # ch}

LEMMA OthersIs ==
  ASSUME NEW p, Len(p) \in Nat, NEW ch, Others(p, ch) # {}
  PROVE  /\ Min(Others(p, ch)) \in 1..Len(p)
         /\ p[1] # ch => Min(Others(p, ch)) = 1
  <1> DEFINE I == Others(p, ch)
             m == Min(I)
  <1>1. \A i \in I : i \in Nat /\ i >= 1 /\ i <= Len(p)
    BY DEF Others
  <1>2. I # {} /\ I \in SUBSET Nat
    BY DEF Others
  <1>3. p[1] # ch => 1 \in I
    BY <1>1, <1>2 DEF Others
  <1> HIDE DEF I
  <1>4. m \in I /\ \A i \in I : m <= i
    BY <1>2, LeastNumber DEF Min
  <1> HIDE DEF m
  <1>5. m \in Nat /\ m >= 1 /\ m <= Len(p)
    BY <1>1, <1>4
  <1>6. 1 \in I => m <= 1
    BY <1>4
  <1>7. QED
    BY <1>3, <1>5, <1>6 DEF I, m

(* A text that begins with something else than a blank is read from there. *)
LEMMA UnblankedIs ==
  ASSUME NEW S, NEW p \in Seq(S)
  PROVE  Unblanked(p) \in Seq(S) /\ (Len(p) > 0 => (p[1] # "SP" => Unblanked(p) = p))
  <1> DEFINE I == Others(p, "SP")
             first == IF I # {} THEN Min(I) ELSE 0
  <1>1. SelectInSeq(p, LAMBDA ch : ch # "SP") = first
    BY DEF SelectInSeq, Others
  <1>2. Unblanked(p) = IF first = 0 THEN <<>> ELSE From(p, first)
    BY <1>1 DEF Unblanked
  <1>3. I # {} => Min(I) \in 1..Len(p)
    BY OthersIs
  <1>4. ASSUME Len(p) > 0, p[1] # "SP" PROVE I # {} /\ Min(I) = 1
    <2>1. 1 \in I
      BY <1>4 DEF Others
    <2>2. QED
      BY <1>4, <2>1, OthersIs
  <1> HIDE DEF I
  <1>5. first \in 0..Len(p)
    BY <1>3
  <1>6. ASSUME Len(p) > 0, p[1] # "SP" PROVE first = 1
    BY <1>4, <1>6
  <1> HIDE DEF first
  <1>7. Unblanked(p) \in Seq(S)
    <2>1. first # 0 => From(p, first) \in Seq(S)
      BY <1>5, FromIs
    <2>2. QED
      BY <1>2, <2>1
  <1>8. From(p, 1) = p
    BY SubSeqFull DEF From
  <1>9. ASSUME Len(p) > 0, p[1] # "SP" PROVE Unblanked(p) = p
    BY <1>2, <1>6, <1>8, <1>9
  <1>10. QED
    BY <1>7, <1>9

(* A sign is left out.                                                     *)
LEMMA UnsignedIs ==
  ASSUME NEW S, NEW p \in Seq(S)
  PROVE  /\ Unsigned(p) \in Seq(S)
         /\ Len(p) > 0 /\ p[1] \notin {"-", "+"} => Unsigned(p) = p
  BY DEF Unsigned

(* strtol's result is a number.                                            *)
LEMMA NumberType ==
  ASSUME NEW S, NEW p \in Seq(S) PROVE NumberOf(p) \in Int
  <1> DEFINE u == Unsigned(Unblanked(p))
  <1>1. u \in Seq(S)
    BY UnblankedIs, UnsignedIs
  <1> HIDE DEF u
  <1>2. PICK G \in [0..Len(u) -> Int] : ValueOf(u) = G[Len(u)]
    BY <1>1, ValueIs
  <1>3. ValueOf(u) \in Int
    BY <1>1, <1>2
  <1>4. QED
    BY <1>3 DEF NumberOf, u
(***************************************************************************)
(* fromString()                                                            *)
(***************************************************************************)

(* What stands between two places of a text                                *)
LEMMA PartIs ==
  ASSUME NEW S, NEW t \in Seq(S), NEW i \in 1..Len(t), NEW j \in i..Len(t)
  PROVE  /\ SubSeq(t, i, j) \in Seq(S) /\ Len(SubSeq(t, i, j)) = j - i + 1
         /\ \A k \in 1..(j - i + 1) : SubSeq(t, i, j)[k] = t[i + k - 1]
  <1>1. \A k \in i..j : t[k] \in S
    OBVIOUS
  <1>2. QED
    BY <1>1, SubSeqProperties

(* An answer is cut out of the text at a colon, in one of the two forms.   *)
Cut(v, x, i) ==
  /\ v[i] = ":" /\ From(v, i + 1) = x.port
  /\ \/ SubSeq(v, 1, i - 1) = x.host /\ v[1] # "[" /\ ~Has(x.host, ":")
     \/ SubSeq(v, 1, i - 1) = <<"[">> \o x.host \o <<"]">> /\ ~Has(x.host, "]")

LEMMA PlainSound ==
  ASSUME NEW S, NEW v \in Seq(S), v = <<>> \/ v[1] # "[", NEW x \in PlainSplit(v)
  PROVE  x.port \in Seq(S) /\ x.host # <<>> /\ \E i \in 1..Len(v) : Cut(v, x, i)
  <1> DEFINE sep == StrRChr(v, ":")
  <1>1. /\ sep > 1 /\ StrChr(v, ":") = sep
        /\ x = [host |-> SubSeq(v, 1, sep - 1), port |-> From(v, sep + 1)]
    <2>1. sep \in Nat
      BY StrRChrIs
    <2> HIDE DEF sep
    <2>2. PlainSplit(v) = IF sep <= 1 \/ StrChr(v, ":") # sep THEN {}
                          ELSE {[host |-> SubSeq(v, 1, sep - 1), port |-> From(v, sep + 1)]}
      BY DEF PlainSplit, sep
    <2>3. QED
      BY <2>1, <2>2
  <1>2. sep \in 0..Len(v) /\ (sep # 0 => v[sep] = ":")
    BY StrRChrIs
  <1>3. StrChr(v, ":") # 0 => \A k \in 1..(StrChr(v, ":") - 1) : v[k] # ":"
    BY StrChrIs
  <1> HIDE DEF sep
  <1>4. sep \in 1..Len(v) /\ v[sep] = ":" /\ \A k \in 1..(sep - 1) : v[k] # ":"
    BY <1>1, <1>2, <1>3
  <1> DEFINE h == SubSeq(v, 1, sep - 1)
  <1>5. h \in Seq(S) /\ Len(h) = sep - 1 /\ \A k \in 1..(sep - 1) : h[k] = v[k]
    BY <1>4, BeforeIs
  <1>6. From(v, sep + 1) \in Seq(S)
    BY <1>4, FromIs
  <1>7. x.host = h /\ x.port = From(v, sep + 1)
    BY <1>1
  <1> HIDE DEF h
  <1>8. \A k \in 1..Len(h) : h[k] # ":"
    BY <1>4, <1>5
  <1>9. ~Has(h, ":")
    BY <1>5, <1>8, StrChrNone DEF Has
  <1>10. h # <<>>
    BY <1>1, <1>4, <1>5
  <1>11. v # <<>>
    BY <1>4
  <1>12. SubSeq(v, 1, sep - 1) = x.host
    BY <1>7 DEF h
  <1>13. Cut(v, x, sep)
    BY <1>4, <1>7, <1>9, <1>11, <1>12 DEF Cut
  <1>14. QED
    BY <1>4, <1>6, <1>7, <1>10, <1>13

LEMMA BracketSound ==
  ASSUME NEW S, NEW v \in Seq(S), v # <<>>, v[1] = "[", NEW x \in BracketSplit(v)
  PROVE  x.port \in Seq(S) /\ x.host # <<>> /\ \E i \in 1..Len(v) : Cut(v, x, i)
  <1> DEFINE c == StrChr(Tail(v), "]") + 1
             h == SubSeq(v, 2, c - 1)
  <1>1. /\ Tail(v) \in Seq(S) /\ Len(Tail(v)) = Len(v) - 1 /\ Len(v) \in Nat /\ Len(v) > 0
        /\ \A k \in 1..(Len(v) - 1) : Tail(v)[k] = v[k + 1]
    OBVIOUS
  <1>2. /\ c \in Nat /\ c - 1 \in 0..(Len(v) - 1)
        /\ c - 1 # 0 => Tail(v)[c - 1] = "]" /\ \A k \in 1..((c - 1) - 1) : Tail(v)[k] # "]"
    <2> DEFINE u == Tail(v)
               f == StrChr(u, "]")
    <2>1. Len(u) \in Nat /\ Len(u) = Len(v) - 1
      BY <1>1
    <2> HIDE DEF u
    <2>2. /\ f \in 0..Len(u)
          /\ f # 0 => u[f] = "]" /\ \A k \in 1..(f - 1) : u[k] # "]"
      BY <2>1, StrChrIs
    <2> HIDE DEF f
    <2>3. c = f + 1
      BY DEF f, u
    <2> HIDE DEF c
    <2>4. c \in Nat /\ c - 1 = f /\ f \in 0..(Len(v) - 1)
      BY <1>1, <2>1, <2>2, <2>3
    <2>5. QED
      BY <2>2, <2>4 DEF u
  <1>3. BracketSplit(v) = IF c <= 2 \/ c >= Len(v) \/ v[c + 1] # ":" THEN {}
                          ELSE {[host |-> h, port |-> From(v, c + 2)]}
    BY DEF BracketSplit
  <1> HIDE DEF c
  <1>4. /\ c > 2 /\ c < Len(v) /\ v[c + 1] = ":" /\ c \in Nat
        /\ x.host = h /\ x.port = From(v, c + 2)
    <2>1. c \in Nat
      BY <1>1, <1>2
    <2> HIDE DEF h
    <2>2. QED
      BY <1>1, <1>3, <2>1
  <1>5. h \in Seq(S) /\ Len(h) = c - 2 /\ \A k \in 1..(c - 2) : h[k] = v[k + 1]
    <2>1. 2 \in 1..Len(v) /\ c - 1 \in 2..Len(v) /\ (c - 1) - 2 + 1 = c - 2
      BY <1>1, <1>4
    <2>2. h \in Seq(S) /\ Len(h) = c - 2 /\ \A k \in 1..(c - 2) : h[k] = v[2 + k - 1]
      BY <2>1, PartIs
    <2> HIDE DEF h
    <2>3. QED
      BY <2>2
  <1> HIDE DEF h
  <1>6. v[c] = "]"
    <2>1. Tail(v)[c - 1] = "]" /\ c - 1 \in 1..(Len(v) - 1) /\ (c - 1) + 1 = c
      BY <1>1, <1>2, <1>4
    <2>2. QED
      BY <1>1, <2>1
  <1>7. ASSUME NEW k \in 1..Len(h) PROVE h[k] # "]"
    <2>1. k \in 1..(c - 2) /\ k \in 1..((c - 1) - 1) /\ k \in 1..(Len(v) - 1)
      BY <1>1, <1>4, <1>5
    <2>2. h[k] = v[k + 1] /\ Tail(v)[k] = v[k + 1] /\ Tail(v)[k] # "]"
      BY <1>1, <1>2, <1>4, <1>5, <2>1
    <2>3. QED
      BY <2>2
  <1>8. ~Has(h, "]") /\ h # <<>>
    BY <1>4, <1>5, <1>7, StrChrNone DEF Has
  <1>9. SubSeq(v, 1, c) = <<"[">> \o h \o <<"]">>
    <2> DEFINE T == S \cup {"[", "]"}
               b == SubSeq(v, 1, c)
               w == <<"[">> \o h \o <<"]">>
    <2>1. b \in Seq(T) /\ Len(b) = c /\ \A k \in 1..c : b[k] = v[k]
      <3>1. \A k \in 1..c : v[k] \in T
        BY <1>1, <1>4
      <3>2. QED
        BY <1>4, <3>1, SubSeqProperties
    <2>2. /\ w \in Seq(T) /\ Len(w) = c /\ w[1] = "[" /\ w[c] = "]"
          /\ \A k \in 2..(c - 1) : w[k] = h[k - 1]
      <3>1. h \in Seq(T) /\ <<"[">> \in Seq(T) /\ <<"]">> \in Seq(T)
        BY <1>5
      <3> DEFINE u == <<"[">> \o h
      <3>2. /\ u \in Seq(T) /\ Len(u) = c - 1 /\ u[1] = "["
            /\ \A k \in 2..(c - 1) : u[k] = h[k - 1]
        BY <1>4, <1>5, <3>1
      <3> HIDE DEF u, T
      <3>3. QED
        BY <1>4, <3>1, <3>2 DEF u
    <2> HIDE DEF b, w, T
    <2>3. \A k \in 1..c : b[k] = w[k]
      <3>1. \A k \in 2..(c - 1) : b[k] = w[k]
        <4>1. ASSUME NEW k \in 2..(c - 1) PROVE b[k] = w[k]
          <5>1. b[k] = v[k] /\ w[k] = h[k - 1] /\ k - 1 \in 1..(c - 2) /\ (k - 1) + 1 = k
            BY <1>4, <2>1, <2>2
          <5>2. QED
            BY <1>5, <5>1
        <4>2. QED
          BY <4>1
      <3>2. b[1] = w[1] /\ b[c] = w[c]
        BY <1>4, <1>6, <2>1, <2>2
      <3>3. QED
        BY <1>4, <3>1, <3>2
    <2>4. b = w
      BY <2>1, <2>2, <2>3, SeqEqual
    <2>5. QED
      BY <2>4 DEF b, w
  <1>10. c + 1 \in 1..Len(v) /\ (c + 1) - 1 = c /\ (c + 1) + 1 = c + 2
    BY <1>1, <1>4
  <1>11. From(v, c + 2) \in Seq(S)
    BY <1>1, <1>4, FromIs
  <1>12. Cut(v, x, c + 1)
    BY <1>4, <1>8, <1>9, <1>10 DEF Cut
  <1>13. QED
    BY <1>4, <1>8, <1>10, <1>11, <1>12

(* The two documented forms are all that fromString() accepts, whatever    *)
(* the characters of the text and however long it is.                      *)
LEMMA ParseEndpointSound ==
  ASSUME NEW S, NEW t \in Seq(S), NEW a \in ParseEndpoint(t)
  PROVE  LET v == CString(t) IN
         /\ a.host # <<>> /\ a.port \in 0..MaxPort
         /\ \E i \in DOMAIN v :
              /\ v[i] = ":" /\ IsNumber(From(v, i + 1)) /\ NumberOf(From(v, i + 1)) = a.port
              /\ \/ SubSeq(v, 1, i - 1) = a.host /\ v[1] # "[" /\ ~Has(a.host, ":")
                 \/ SubSeq(v, 1, i - 1) = <<"[">> \o a.host \o <<"]">> /\ ~Has(a.host, "]")
  <1> DEFINE v == CString(t)
  <1>1. v \in Seq(S)
    BY CStringIs
  <1>2. PICK x \in Split(v) :
          /\ IsNumber(x.port) /\ PortInRange(NumberOf(x.port))
          /\ a = [host |-> x.host, port |-> NumberOf(x.port)]
    BY DEF ParseEndpoint
  <1> HIDE DEF v
  <1>3. x.port \in Seq(S) /\ x.host # <<>> /\ \E i \in 1..Len(v) : Cut(v, x, i)
    <2>1. CASE v # <<>> /\ v[1] = "["
      BY <1>1, <1>2, <2>1, BracketSound DEF Split
    <2>2. CASE v = <<>> \/ v[1] # "["
      BY <1>1, <1>2, <2>2, PlainSound DEF Split
    <2>3. QED
      BY <2>1, <2>2
  <1>4. PICK i \in 1..Len(v) : Cut(v, x, i)
    BY <1>3
  <1>5. a.host = x.host /\ a.port = NumberOf(x.port) /\ x.port = From(v, i + 1)
    BY <1>2, <1>4 DEF Cut
  <1>6. a.port \in 0..MaxPort
    <2>1. NumberOf(x.port) \in Int
      BY <1>3, NumberType
    <2>2. QED
      BY <1>2, <1>5, <2>1, AddressAssumption DEF PortInRange
  <1>7. i \in DOMAIN v
    BY <1>1
  <1>8. /\ v[i] = ":" /\ IsNumber(From(v, i + 1)) /\ NumberOf(From(v, i + 1)) = a.port
        /\ \/ SubSeq(v, 1, i - 1) = a.host /\ v[1] # "[" /\ ~Has(a.host, ":")
           \/ SubSeq(v, 1, i - 1) = <<"[">> \o a.host \o <<"]">> /\ ~Has(a.host, "]")
    BY <1>2, <1>4, <1>5 DEF Cut
  <1>9. a.host # <<>>
    BY <1>3, <1>5
  <1>10. QED
    BY <1>6, <1>7, <1>8, <1>9 DEF v

LEMMA ParseSoundHolds == ParseSound
  <1>1. TextsUpTo(MaxText) \subseteq Seq(Chars)
    BY AddressAssumption DEF TextsUpTo
  <1>2. QED
    BY <1>1, ParseEndpointSound DEF ParseSound

(***************************************************************************)
(* What is printed is read back                                            *)
(***************************************************************************)

(* A port is printed without any of the characters the forms are made of.  *)
Marks == {"NUL", "SP", ":", "[", "]", "|", "+"}

PortChars == Digits \cup {"-"}

LEMMA PortCharsApart == \A ch \in PortChars : ch \notin Marks
  <1>1. \A i \in 1..10 : Digit[i] \notin Marks
    BY DEF Digit, Marks
  <1>2. "-" \notin Marks
    BY DEF Marks
  <1>3. QED
    BY <1>1, <1>2 DEF PortChars, Digits

(* A sequence of digits is what strtol takes for digits.                   *)
LEMMA DigitsAll ==
  ASSUME NEW d \in Seq(Digits), Len(d) > 0
  PROVE  AllDigits(d) /\ d[1] # "-"
  <1>1. ASSUME NEW ch \in Digits PROVE Contains(Digit, ch) /\ ch # "-"
    <2>1. PICK i \in 1..10 : ch = Digit[i]
      BY DEF Digits
    <2>2. Len(Digit) = 10 /\ Digit[i] # "-"
      BY DEF Digit
    <2>3. QED
      BY <2>1, <2>2 DEF Contains
  <1>2. \A i \in 1..Len(d) : d[i] \in Digits
    OBVIOUS
  <1>3. d # <<>> /\ DOMAIN d = 1..Len(d) /\ 1 \in 1..Len(d)
    OBVIOUS
  <1>4. QED
    BY <1>1, <1>2, <1>3 DEF AllDigits

(* strtol reads the port that %ld has printed.                             *)
LEMMA PortTextIs ==
  ASSUME NEW n \in Int
  PROVE  /\ PortText(n) \in Seq(PortChars) /\ Len(PortText(n)) > 0
         /\ IsNumber(PortText(n)) /\ NumberOf(PortText(n)) = n
  <1>1. CASE n >= 0
    <2> DEFINE d == DecimalOf(n)
    <2>1. d \in Seq(Digits) /\ Len(d) > 0 /\ ValueOf(d) = n
      BY <1>1, DecimalValue
    <2>2. PortText(n) = d
      BY <1>1 DEF PortText
    <2> HIDE DEF d
    <2>3. AllDigits(d) /\ d[1] # "-"
      BY <2>1, DigitsAll
    <2>4. d \in Seq(PortChars) /\ d[1] \in PortChars
      BY <2>1 DEF PortChars
    <2>5. d[1] # "SP" /\ d[1] # "+"
      BY <2>4, PortCharsApart DEF Marks
    <2>6. Unblanked(d) = d
      BY <2>1, <2>5, UnblankedIs
    <2>7. Unsigned(d) = d
      BY <2>1, <2>3, <2>5, UnsignedIs
    <2>8. IsNumber(d) /\ NumberOf(d) = n
      BY <2>1, <2>3, <2>6, <2>7 DEF IsNumber, NumberOf
    <2>9. QED
      BY <2>1, <2>2, <2>4, <2>8
  <1>2. CASE n < 0
    <2> DEFINE d == DecimalOf(-n)
               p == <<"-">> \o d
    <2>1. d \in Seq(Digits) /\ Len(d) > 0 /\ ValueOf(d) = -n
      <3>1. -n \in Nat
        BY <1>2
      <3>2. QED
        BY <3>1, DecimalValue
    <2>2. PortText(n) = p
      BY <1>2 DEF PortText
    <2> HIDE DEF d
    <2>3. AllDigits(d)
      BY <2>1, DigitsAll
    <2>4. d \in Seq(PortChars) /\ <<"-">> \in Seq(PortChars)
      BY <2>1 DEF PortChars
    <2>5. /\ p \in Seq(PortChars) /\ Len(p) = Len(d) + 1 /\ p[1] = "-"
          /\ \A i \in 1..Len(d) : p[i + 1] = d[i]
      BY <2>4
    <2> HIDE DEF p
    <2>6. Tail(p) = d
      <3>1. p # <<>> /\ Len(d) \in Nat
        BY <2>1, <2>5
      <3>2. /\ Tail(p) \in Seq(PortChars) /\ Len(Tail(p)) = Len(d)
            /\ \A i \in 1..Len(d) : Tail(p)[i] = p[i + 1]
        BY <2>5, <3>1, HeadTailProperties
      <3>3. \A i \in 1..Len(Tail(p)) : Tail(p)[i] = d[i]
        BY <2>5, <3>2
      <3>4. QED
        BY <2>4, <3>2, <3>3, SeqEqual
    <2>7. Unblanked(p) = p
      BY <2>1, <2>5, UnblankedIs
    <2>8. p # <<>> /\ Len(p) > 0
      BY <2>1, <2>5
    <2>9. Unsigned(p) = d
      BY <2>5, <2>6, <2>8 DEF Unsigned
    <2>10. IsNumber(p) /\ NumberOf(p) = -ValueOf(d)
      BY <2>3, <2>5, <2>7, <2>9 DEF IsNumber, NumberOf
    <2>11. NumberOf(p) = n
      BY <2>1, <2>10
    <2>12. QED
      BY <2>2, <2>5, <2>8, <2>10, <2>11
  <1>3. QED
    BY <1>1, <1>2

(* A text of two parts with a character between them                       *)
LEMMA Pieces ==
  ASSUME NEW S, NEW h \in Seq(S), NEW p \in Seq(S), NEW ch \in S
  PROVE  LET t == h \o <<ch>> \o p IN
         /\ t \in Seq(S) /\ Len(t) = Len(h) + 1 + Len(p) /\ t[Len(h) + 1] = ch
         /\ \A i \in 1..Len(h) : t[i] = h[i]
         /\ \A i \in 1..Len(p) : t[Len(h) + 1 + i] = p[i]
         /\ SubSeq(t, 1, Len(h)) = h /\ From(t, Len(h) + 2) = p
  <1> DEFINE g == h \o <<ch>>
             t == g \o p
  <1>1. <<ch>> \in Seq(S) /\ Len(<<ch>>) = 1 /\ <<ch>>[1] = ch
    OBVIOUS
  <1>2. /\ g \in Seq(S) /\ Len(g) = Len(h) + 1 /\ g[Len(h) + 1] = ch
        /\ \A i \in 1..Len(h) : g[i] = h[i]
    OBVIOUS
  <1> HIDE DEF g
  <1>3. /\ t \in Seq(S) /\ Len(t) = Len(h) + 1 + Len(p)
        /\ \A i \in 1..(Len(h) + 1) : t[i] = g[i]
        /\ \A i \in 1..Len(p) : t[Len(h) + 1 + i] = p[i]
    BY <1>2
  <1> HIDE DEF t
  <1>4. Len(h) \in Nat /\ Len(p) \in Nat
    OBVIOUS
  <1>5. t[Len(h) + 1] = ch /\ \A i \in 1..Len(h) : t[i] = h[i]
    BY <1>2, <1>3, <1>4
  <1>6. SubSeq(t, 1, Len(h)) = h
    <2> DEFINE k == Len(h) + 1
               b == SubSeq(t, 1, k - 1)
    <2>1. k \in 1..(Len(t) + 1) /\ k - 1 = Len(h)
      BY <1>3, <1>4
    <2> HIDE DEF k
    <2>2. b \in Seq(S) /\ Len(b) = k - 1 /\ \A i \in 1..(k - 1) : b[i] = t[i]
      BY <1>3, <2>1, BeforeIs
    <2> HIDE DEF b
    <2>3. b = h
      BY <1>5, <2>1, <2>2, SeqEqual
    <2>4. QED
      BY <2>1, <2>3 DEF b
  <1>7. From(t, Len(h) + 2) = p
    <2> DEFINE k == Len(h) + 2
               f == From(t, k)
    <2>1. k \in 1..(Len(t) + 1) /\ Len(t) - k + 1 = Len(p)
      BY <1>3, <1>4
    <2>2. /\ f \in Seq(S) /\ Len(f) = Len(p)
          /\ \A i \in 1..Len(p) : f[i] = t[k + i - 1]
      <3> HIDE DEF k
      <3>1. /\ f \in Seq(S) /\ Len(f) = Len(t) - k + 1
            /\ \A i \in 1..(Len(t) - k + 1) : f[i] = t[k + i - 1]
        BY <1>3, <2>1, FromIs
      <3>2. QED
        BY <2>1, <3>1
    <2>3. \A i \in 1..Len(p) : k + i - 1 = Len(h) + 1 + i
      BY <1>4
    <2> HIDE DEF f, k
    <2>4. \A i \in 1..Len(f) : f[i] = p[i]
      BY <1>3, <2>2, <2>3
    <2>5. f = p
      BY <2>2, <2>4, SeqEqual
    <2>6. QED
      BY <2>5 DEF f, k
  <1>8. QED
    BY <1>3, <1>5, <1>6, <1>7 DEF t, g

(* The characters of what is printed                                       *)
Printed(S) == S \cup PortChars \cup {":", "[", "]", "|"}

(* A printed port holds none of the marks.                                 *)
LEMMA PortTextApart ==
  ASSUME NEW n \in Int, NEW i \in 1..Len(PortText(n))
  PROVE  PortText(n)[i] \notin Marks
  <1>1. PortText(n)[i] \in PortChars
    BY PortTextIs
  <1>2. QED
    BY <1>1, PortCharsApart

(* host:port is read back: any host without a colon that does not begin    *)
(* with a bracket, any port of the range.                                  *)
LEMMA PlainRoundTrip ==
  ASSUME NEW S, NEW host \in Seq(S), host # <<>>, NEW port \in 0..MaxPort,
         \A i \in 1..Len(host) : host[i] # "NUL" /\ host[i] # ":",
         host[1] # "["
  PROVE  ParseEndpoint(host \o <<":">> \o PortText(port)) = {[host |-> host, port |-> port]}
  <1> DEFINE T == Printed(S)
             p == PortText(port)
             n == Len(host)
             t == host \o <<":">> \o p
  <1>0. port \in Int /\ port <= MaxPort /\ port >= 0
    BY AddressAssumption
  <1>1. /\ p \in Seq(PortChars) /\ Len(p) > 0 /\ IsNumber(p) /\ NumberOf(p) = port
        /\ \A i \in 1..Len(p) : p[i] # "NUL" /\ p[i] # ":"
    BY <1>0, PortTextIs, PortTextApart DEF Marks
  <1> HIDE DEF p
  <1>2. host \in Seq(T) /\ p \in Seq(T) /\ ":" \in T /\ n \in Nat /\ n > 0
    BY <1>1 DEF Printed
  <1> HIDE DEF T
  <1>3. /\ t \in Seq(T) /\ Len(t) = n + 1 + Len(p) /\ t[n + 1] = ":"
        /\ \A i \in 1..n : t[i] = host[i]
        /\ \A i \in 1..Len(p) : t[n + 1 + i] = p[i]
        /\ SubSeq(t, 1, n) = host /\ From(t, n + 2) = p
    BY <1>2, Pieces
  <1> HIDE DEF t, n
  <1>4. Len(p) \in Nat /\ n + 1 \in 1..Len(t) /\ Len(t) \in Nat /\ n + 1 > 1
    BY <1>1, <1>2, <1>3
  <1>5. \A i \in 1..n : t[i] # "NUL" /\ t[i] # ":"
    BY <1>3 DEF n
  <1>6. ASSUME NEW i \in (n + 2)..Len(t) PROVE t[i] # "NUL" /\ t[i] # ":"
    <2>1. i - (n + 1) \in 1..Len(p) /\ n + 1 + (i - (n + 1)) = i
      BY <1>2, <1>3, <1>4
    <2>2. t[i] = p[i - (n + 1)]
      BY <1>3, <2>1
    <2>3. QED
      BY <1>1, <2>1, <2>2
  <1>7. CString(t) = t
    <2>1. \A i \in 1..Len(t) : i \in 1..n \/ i = n + 1 \/ i \in (n + 2)..Len(t)
      BY <1>2, <1>4
    <2>2. \A i \in 1..Len(t) : t[i] # "NUL"
      BY <1>3, <1>5, <1>6, <2>1
    <2>3. QED
      BY <1>3, <2>2, CStringIs
  <1>8. StrChr(t, ":") = n + 1
    <2>1. \A i \in 1..((n + 1) - 1) : t[i] # ":"
      BY <1>2, <1>5
    <2>2. QED
      BY <1>3, <1>4, <2>1, StrChrAt
  <1>9. StrRChr(t, ":") = n + 1
    <2>1. \A i \in ((n + 1) + 1)..Len(t) : t[i] # ":"
      BY <1>2, <1>6
    <2>2. QED
      BY <1>3, <1>4, <2>1, StrRChrAt
  <1>10. t[1] # "["
    BY <1>2, <1>3
  <1> DEFINE x == [host |-> host, port |-> p]
  <1>11. Split(t) = {x}
    <2>1. (n + 1) - 1 = n /\ (n + 1) + 1 = n + 2 /\ ~ (n + 1 <= 1)
      BY <1>2
    <2>2. PlainSplit(t) = {x}
      BY <1>3, <1>8, <1>9, <2>1 DEF PlainSplit
    <2>3. QED
      BY <1>10, <2>2 DEF Split
  <1>12. x.host = host /\ x.port = p /\ p # <<>>
    BY <1>1
  <1>13. PortInRange(port)
    BY <1>0 DEF PortInRange
  <1> HIDE DEF x
  <1>14. {y \in Split(CString(t)) :
             y.port # <<>> /\ IsNumber(y.port) /\ PortInRange(NumberOf(y.port))} = {x}
    BY <1>1, <1>7, <1>11, <1>12, <1>13
  <1>15. ParseEndpoint(t) = {[host |-> x.host, port |-> NumberOf(x.port)]}
    BY <1>14 DEF ParseEndpoint
  <1>16. ParseEndpoint(t) = {[host |-> host, port |-> port]}
    BY <1>1, <1>12, <1>15
  <1>17. QED
    BY <1>16 DEF t, p

(* [host]:port is read back: any host without a closing bracket.           *)
LEMMA BracketRoundTrip ==
  ASSUME NEW S, NEW host \in Seq(S), host # <<>>, NEW port \in 0..MaxPort,
         \A i \in 1..Len(host) : host[i] # "NUL" /\ host[i] # "]"
  PROVE  ParseEndpoint(<<"[">> \o host \o <<"]", ":">> \o PortText(port)) =
           {[host |-> host, port |-> port]}
  <1> DEFINE T == Printed(S)
             p == PortText(port)
             n == Len(host)
             o == <<"[">> \o host
             g == o \o <<"]">>
             t == g \o <<":">> \o p
  <1>0. port \in Int /\ port <= MaxPort /\ port >= 0
    BY AddressAssumption
  <1>1. /\ p \in Seq(PortChars) /\ Len(p) > 0 /\ IsNumber(p) /\ NumberOf(p) = port
        /\ \A i \in 1..Len(p) : p[i] # "NUL"
    BY <1>0, PortTextIs, PortTextApart DEF Marks
  <1> HIDE DEF p
  <1>2. /\ host \in Seq(T) /\ p \in Seq(T) /\ n \in Nat /\ n > 0
        /\ ":" \in T /\ "[" \in T /\ "]" \in T
    BY <1>1 DEF Printed
  <1> HIDE DEF T
  <1>3. /\ o \in Seq(T) /\ Len(o) = n + 1 /\ o[1] = "["
        /\ \A i \in 1..n : o[i + 1] = host[i]
    BY <1>2
  <1>4. <<"[">> \o host \o <<"]", ":">> \o p = t
    <2>1. <<"]">> \in Seq(T) /\ <<":">> \in Seq(T)
      BY <1>2
    <2>2. <<"]", ":">> = <<"]">> \o <<":">>
      OBVIOUS
    <2> HIDE DEF o
    <2>3. o \o (<<"]">> \o <<":">>) = (o \o <<"]">>) \o <<":">>
      BY <1>3, <2>1, ConcatAssociative
    <2>4. QED
      BY <2>2, <2>3 DEF o
  <1> HIDE DEF o
  <1>5. /\ g \in Seq(T) /\ Len(g) = n + 2 /\ g[1] = "[" /\ g[n + 2] = "]"
        /\ \A i \in 1..n : g[i + 1] = host[i]
    <2>1. <<"]">> \in Seq(T) /\ Len(<<"]">>) = 1 /\ <<"]">>[1] = "]"
      BY <1>2
    <2>2. /\ g \in Seq(T) /\ Len(g) = Len(o) + 1
          /\ \A i \in 1..(Len(o) + 1) : g[i] = IF i <= Len(o) THEN o[i] ELSE <<"]">>[i - Len(o)]
      BY <1>3, <2>1, ConcatProperties
    <2> HIDE DEF g
    <2>3. g[1] = "[" /\ g[n + 2] = "]"
      BY <1>2, <1>3, <2>1, <2>2
    <2>4. \A i \in 1..n : g[i + 1] = host[i]
      BY <1>2, <1>3, <2>2
    <2>5. QED
      BY <1>2, <1>3, <2>2, <2>3, <2>4
  <1> HIDE DEF g
  <1>6. /\ t \in Seq(T) /\ Len(t) = n + 3 + Len(p) /\ t[n + 3] = ":"
        /\ \A i \in 1..(n + 2) : t[i] = g[i]
        /\ \A i \in 1..Len(p) : t[n + 3 + i] = p[i]
        /\ From(t, n + 4) = p
    <2>1. /\ t \in Seq(T) /\ Len(t) = Len(g) + 1 + Len(p) /\ t[Len(g) + 1] = ":"
          /\ \A i \in 1..Len(g) : t[i] = g[i]
          /\ \A i \in 1..Len(p) : t[Len(g) + 1 + i] = p[i]
          /\ From(t, Len(g) + 2) = p
      <3>1. g \in Seq(T) /\ p \in Seq(T) /\ ":" \in T
        BY <1>2, <1>5
      <3>2. QED
        BY <3>1, Pieces
    <2>2. Len(g) + 1 = n + 3 /\ Len(g) + 2 = n + 4 /\ Len(g) = n + 2
      BY <1>2, <1>5
    <2> HIDE DEF t
    <2>3. QED
      BY <2>1, <2>2
  <1> HIDE DEF t
  <1>7. /\ t[1] = "[" /\ t[n + 2] = "]" /\ t # <<>>
        /\ \A i \in 1..n : t[i + 1] = host[i]
    <2>1. /\ 1 \in 1..(n + 2) /\ n + 2 \in 1..(n + 2)
          /\ \A i \in 1..n : i + 1 \in 1..(n + 2)
      BY <1>2
    <2>2. t # <<>>
      BY <1>1, <1>2, <1>6
    <2>3. QED
      BY <1>5, <1>6, <2>1, <2>2
  <1>8. CString(t) = t
    <2>1. ASSUME NEW i \in 1..Len(t) PROVE t[i] # "NUL"
      <3>1. CASE i \in 2..(n + 1)
        <4>1. i - 1 \in 1..n /\ (i - 1) + 1 = i
          BY <1>2, <3>1
        <4>2. t[i] = host[i - 1]
          BY <1>7, <4>1
        <4>3. QED
          BY <4>1, <4>2 DEF n
      <3>2. CASE i \in (n + 4)..Len(t)
        <4>1. i - (n + 3) \in 1..Len(p) /\ n + 3 + (i - (n + 3)) = i
          BY <1>1, <1>2, <1>6, <3>2
        <4>2. t[i] = p[i - (n + 3)]
          BY <1>6, <4>1
        <4>3. QED
          BY <1>1, <4>1, <4>2
      <3>3. CASE i = 1 \/ i = n + 2 \/ i = n + 3
        BY <1>6, <1>7, <3>3
      <3>4. i = 1 \/ i \in 2..(n + 1) \/ i = n + 2 \/ i = n + 3 \/ i \in (n + 4)..Len(t)
        <4>1. n \in Nat /\ Len(t) \in Nat
          BY <1>2, <1>6
        <4>2. QED
          BY <4>1
      <3>5. QED
        BY <3>1, <3>2, <3>3, <3>4
    <2>2. QED
      BY <1>6, <2>1, CStringIs
  <1>9. StrChr(Tail(t), "]") = n + 1
    <2> DEFINE u == Tail(t)
    <2>1. /\ u \in Seq(T) /\ Len(u) = Len(t) - 1
          /\ \A i \in 1..Len(u) : u[i] = t[i + 1]
      BY <1>6, <1>7, HeadTailProperties
    <2> HIDE DEF u
    <2>2. n + 1 \in 1..Len(u) /\ (n + 1) + 1 = n + 2
      BY <1>1, <1>2, <1>6, <2>1
    <2>3. u[n + 1] = "]"
      BY <1>7, <2>1, <2>2
    <2>4. ASSUME NEW i \in 1..((n + 1) - 1) PROVE u[i] # "]"
      <3>1. i \in 1..n /\ i \in 1..Len(u)
        BY <1>2, <2>2
      <3>2. u[i] = host[i]
        BY <1>7, <2>1, <3>1
      <3>3. QED
        BY <3>1, <3>2 DEF n
    <2>5. Len(u) \in Nat
      BY <2>1
    <2>6. StrChr(u, "]") = n + 1
      BY <2>2, <2>3, <2>4, <2>5, StrChrAt
    <2>7. QED
      BY <2>6 DEF u
  <1>10. SubSeq(t, 2, n + 1) = host
    <2> DEFINE b == SubSeq(t, 2, n + 1)
    <2>1. /\ Len(t) \in Nat /\ 2 \in 1..Len(t) /\ n + 1 \in 2..Len(t) /\ (n + 1) - 2 + 1 = n
      BY <1>1, <1>2, <1>6
    <2>2. b \in Seq(T) /\ Len(b) = n /\ \A i \in 1..n : b[i] = t[2 + i - 1]
      BY <1>6, <2>1, PartIs
    <2> HIDE DEF b
    <2>3. \A i \in 1..Len(b) : b[i] = host[i]
      <3>1. \A i \in 1..n : 2 + i - 1 = i + 1
        BY <1>2
      <3>2. QED
        BY <1>7, <2>2, <3>1
    <2>4. Len(b) = Len(host)
      BY <2>2 DEF n
    <2>5. b = host
      BY <1>2, <2>2, <2>3, <2>4, SeqEqual
    <2>6. QED
      BY <2>5 DEF b
  <1> DEFINE x == [host |-> host, port |-> p]
  <1>11. Split(t) = {x}
    <2> DEFINE c == StrChr(Tail(t), "]") + 1
    <2>1. c = n + 2
      BY <1>2, <1>9
    <2>2. BracketSplit(t) = IF c <= 2 \/ c >= Len(t) \/ t[c + 1] # ":" THEN {}
                            ELSE {[host |-> SubSeq(t, 2, c - 1), port |-> From(t, c + 2)]}
      BY DEF BracketSplit
    <2> HIDE DEF c
    <2>3. /\ ~ (c <= 2) /\ ~ (c >= Len(t)) /\ c + 1 = n + 3 /\ c - 1 = n + 1 /\ c + 2 = n + 4
      BY <1>1, <1>2, <1>6, <2>1
    <2>4. BracketSplit(t) = {x}
      BY <1>6, <1>10, <2>2, <2>3
    <2>5. QED
      BY <1>7, <2>4 DEF Split
  <1>12. x.host = host /\ x.port = p /\ p # <<>>
    BY <1>1
  <1>13. PortInRange(port)
    BY <1>0 DEF PortInRange
  <1> HIDE DEF x
  <1>14. {y \in Split(CString(t)) :
             y.port # <<>> /\ IsNumber(y.port) /\ PortInRange(NumberOf(y.port))} = {x}
    BY <1>1, <1>8, <1>11, <1>12, <1>13
  <1>15. ParseEndpoint(t) = {[host |-> x.host, port |-> NumberOf(x.port)]}
    BY <1>14 DEF ParseEndpoint
  <1>16. ParseEndpoint(t) = {[host |-> host, port |-> port]}
    BY <1>1, <1>12, <1>15
  <1>17. QED
    BY <1>4, <1>16 DEF p

(* A host of the bounded inputs is a text without NUL.                     *)
LEMMA HostType ==
  ASSUME NEW n \in Nat, NEW host \in HostsUpTo(n)
  PROVE  host \in Seq(Chars) /\ \A i \in 1..Len(host) : host[i] # "NUL"
  <1>1. host \in Seq(Chars)
    BY DEF HostsUpTo, TextsUpTo
  <1>2. QED
    BY <1>1, StrChrIs DEF HostsUpTo, Has

LEMMA RoundTripHolds == RoundTrip
  <1> SUFFICES ASSUME NEW host \in HostsUpTo(MaxHost) \ {<<>>}, NEW port \in 0..MaxPort
               PROVE  LET a == {[host |-> host, port |-> port]} IN
                        /\ ~Has(host, ":") /\ host[1] # "["
                             => ParseEndpoint(host \o <<":">> \o PortText(port)) = a
                        /\ ~Has(host, "]")
                             => ParseEndpoint(<<"[">> \o host \o <<"]", ":">> \o PortText(port)) = a
    BY DEF RoundTrip
  <1>1. /\ host \in Seq(Chars) /\ host # <<>>
        /\ \A i \in 1..Len(host) : host[i] # "NUL"
    BY HostType, AddressAssumption
  <1>2. \A ch : ~Has(host, ch) => \A i \in 1..Len(host) : host[i] # ch
    BY <1>1, StrChrIs DEF Has
  <1>3. ASSUME ~Has(host, ":"), host[1] # "["
        PROVE  ParseEndpoint(host \o <<":">> \o PortText(port)) = {[host |-> host, port |-> port]}
    BY <1>1, <1>2, <1>3, PlainRoundTrip
  <1>4. ASSUME ~Has(host, "]")
        PROVE  ParseEndpoint(<<"[">> \o host \o <<"]", ":">> \o PortText(port)) =
                 {[host |-> host, port |-> port]}
    BY <1>1, <1>2, <1>4, BracketRoundTrip
  <1>5. QED
    BY <1>3, <1>4

(* The key of an address tells the host and the port, whatever characters  *)
(* the host has and whatever the port.                                     *)
LEMMA KeyDetermines ==
  ASSUME NEW S, NEW g \in Seq(S), NEW h \in Seq(S), NEW n \in Int, NEW m \in Int,
         \A i \in 1..Len(g) : g[i] # "NUL", \A i \in 1..Len(h) : h[i] # "NUL",
         ConnectionKey(g, n) = ConnectionKey(h, m)
  PROVE  g = h /\ n = m
  <1> DEFINE T == Printed(S)
  <1>1. ASSUME NEW f \in Seq(S), NEW k \in Int, \A i \in 1..Len(f) : f[i] # "NUL"
        PROVE  LET t == ConnectionKey(f, k) IN
               /\ StrRChr(t, "|") = Len(f) + 1
               /\ SubSeq(t, 1, Len(f)) = f /\ From(t, Len(f) + 2) = PortText(k)
    <2> DEFINE p == PortText(k)
               t == f \o <<"|">> \o p
    <2>1. p \in Seq(PortChars) /\ \A i \in 1..Len(p) : p[i] # "|"
      BY PortTextIs, PortTextApart DEF Marks
    <2> HIDE DEF p
    <2>2. f \in Seq(T) /\ p \in Seq(T) /\ "|" \in T /\ Len(f) \in Nat /\ Len(p) \in Nat
      BY <2>1 DEF Printed
    <2> HIDE DEF T
    <2>3. /\ t \in Seq(T) /\ Len(t) = Len(f) + 1 + Len(p) /\ t[Len(f) + 1] = "|"
          /\ \A i \in 1..Len(p) : t[Len(f) + 1 + i] = p[i]
          /\ SubSeq(t, 1, Len(f)) = f /\ From(t, Len(f) + 2) = p
      BY <2>2, Pieces
    <2>4. ConnectionKey(f, k) = t
      <3>1. CString(f) = f
        BY <1>1, CStringIs
      <3>2. QED
        BY <3>1 DEF ConnectionKey, p
    <2> HIDE DEF t
    <2>5. ASSUME NEW i \in ((Len(f) + 1) + 1)..Len(t) PROVE t[i] # "|"
      <3>1. i - (Len(f) + 1) \in 1..Len(p) /\ Len(f) + 1 + (i - (Len(f) + 1)) = i
        BY <2>2, <2>3
      <3>2. QED
        BY <2>1, <2>3, <3>1
    <2>6. Len(t) \in Nat /\ Len(f) + 1 \in 1..Len(t)
      BY <2>2, <2>3
    <2>7. StrRChr(t, "|") = Len(f) + 1
      BY <2>3, <2>5, <2>6, StrRChrAt
    <2>8. QED
      BY <2>3, <2>4, <2>7 DEF p
  <1> DEFINE t == ConnectionKey(g, n)
  <1>2. /\ StrRChr(t, "|") = Len(g) + 1 /\ SubSeq(t, 1, Len(g)) = g
        /\ From(t, Len(g) + 2) = PortText(n)
    BY <1>1
  <1>3. /\ StrRChr(t, "|") = Len(h) + 1 /\ SubSeq(t, 1, Len(h)) = h
        /\ From(t, Len(h) + 2) = PortText(m)
    BY <1>1
  <1> HIDE DEF t
  <1>4. Len(g) \in Nat /\ Len(h) \in Nat /\ Len(g) + 1 = Len(h) + 1
    BY <1>2, <1>3
  <1>5. Len(g) = Len(h)
    BY <1>4
  <1>6. g = h /\ PortText(n) = PortText(m)
    BY <1>2, <1>3, <1>5
  <1>7. NumberOf(PortText(n)) = n /\ NumberOf(PortText(m)) = m
    BY PortTextIs
  <1>8. QED
    BY <1>6, <1>7

LEMMA KeyInjectiveHolds == KeyInjective
  <1> DEFINE Hs == HostsUpTo(MaxPeer)
             Ps == {-10, -1, 0, 1, 10, 11, 100}
  <1>1. \A h \in Hs : h \in Seq(Chars) /\ \A i \in 1..Len(h) : h[i] # "NUL"
    BY HostType, AddressAssumption
  <1>2. Ps \subseteq Int
    OBVIOUS
  <1> HIDE DEF Hs, Ps
  <1>3. ASSUME NEW a \in Hs \X Ps, NEW b \in Hs \X Ps,
               ConnectionKey(a[1], a[2]) = ConnectionKey(b[1], b[2])
        PROVE  a = b
    <2>1. PICK g \in Hs, n \in Ps : a = <<g, n>>
      OBVIOUS
    <2>2. PICK h \in Hs, m \in Ps : b = <<h, m>>
      OBVIOUS
    <2>3. g \in Seq(Chars) /\ h \in Seq(Chars) /\ n \in Int /\ m \in Int
      BY <1>1, <1>2
    <2>4. /\ \A i \in 1..Len(g) : g[i] # "NUL"
          /\ \A i \in 1..Len(h) : h[i] # "NUL"
      BY <1>1
    <2>5. ConnectionKey(g, n) = ConnectionKey(h, m)
      BY <1>3, <2>1, <2>2
    <2>6. g = h /\ n = m
      BY <2>3, <2>4, <2>5, KeyDetermines
    <2>7. QED
      BY <2>1, <2>2, <2>6
  <1>4. QED
    BY <1>3 DEF KeyInjective, Hs, Ps

----------------------------------------------------------------------------
(* fromString() returns a host and a port of its range only for a text in  *)
(* one of the two documented forms, and returns what the text says.        *)
THEOREM AddressParsed == Spec => []FromStringSound
  BY ParseSoundHolds, PTL DEF FromStringSound

(* An address printed as host:port, or as [host]:port, is read back as it  *)
(* was.                                                                    *)
THEOREM AddressReadBack == Spec => []FromStringRoundTrip
  BY RoundTripHolds, PTL DEF FromStringRoundTrip

(* Different addresses have different keys: the endpoint never takes one   *)
(* peer for another, also when a host holds the separator of the key.      *)
THEOREM AddressKeysApart == Spec => []PeersApart
  BY KeyInjectiveHolds, PTL DEF PeersApart
============================================================================
