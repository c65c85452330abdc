-------------------------------- MODULE UupsProxy --------------------------------
(***************************************************************************)
(* Proxies and what is behind them: `Erc1967Proxy` and `Erc1967Utils`      *)
(* (contracts/src/proxy/erc1967), `BeaconProxy` and `UpgradeableBeacon`    *)
(* (proxy/beacon) and the upgrade logic `UUPSUpgradeable`                  *)
(* (proxy/utils/uups_upgradeable.rs), as the examples uups-proxy and       *)
(* uups-proxy-new-version embed it with `Ownable`.                         *)
(*                                                                         *)
(* Code runs in a context, whose storage it reads and writes: a logic      *)
(* contract in its own, or in that of a proxy that delegates to it.  An    *)
(* upgrade writes the implementation slot, delegates a call of the         *)
(* sender's choice to the new implementation, which may be another         *)
(* upgrade, and at last has the new implementation set the version:        *)
(* `stack` holds the upgrades and constructions under way.                 *)
(***************************************************************************)
EXTENDS Naturals, Sequences

CONSTANTS
  Accounts,        \* who may call, and own
  ZERO,            \* Address::ZERO
  Logics,          \* contracts with UUPSUpgradeable
  VERSION_NUMBER,  \* of each of them
  Strangers,       \* contracts without `proxiable_uuid`, or with another slot
  Proxies,         \* the addresses of Erc1967Proxy contracts
  BeaconProxies,   \* the addresses of BeaconProxy contracts
  BEACON,          \* the UpgradeableBeacon
  MaxDepth         \* bound: upgrades within upgrades

(* Contracts of different kinds have different addresses, and none is zero. *)
ProxyAssumption ==
  /\ ZERO \notin Accounts \cup Logics \cup Strangers \cup Proxies
                    \cup BeaconProxies \cup {BEACON}
  /\ Logics \cap (Strangers \cup Proxies \cup BeaconProxies) = {}
  /\ Proxies \cap (Strangers \cup BeaconProxies) = {}
  /\ BeaconProxies \cap Strangers = {}
  /\ BEACON \notin Proxies \cup BeaconProxies
  /\ VERSION_NUMBER \in [Logics -> Nat \ {0}]
  /\ MaxDepth \in Nat

VARIABLES
  stored,     \* the storage of every context
  beacon,     \* the storage of the UpgradeableBeacon
  beacon_of,  \* `beacon` of every BeaconProxy, ZERO before it is constructed
  stack

proxyVars == <<stored, beacon, beacon_of, stack>>

Contexts  == Logics \cup Proxies \cup BeaconProxies
Addresses == Accounts \cup Contexts \cup Strangers \cup {BEACON}

(* Logic contracts have run their constructor, proxies are still to come.   *)
ProxyInit ==
  /\ \E deployer \in Accounts :
       /\ stored = [c \in Contexts |->
            [ implementation |-> ZERO, version |-> 0,
              logic_flag |-> c \in Logics,
              owner |-> IF c \in Logics THEN deployer ELSE ZERO ]]
       /\ \E logic \in Logics \cup Strangers :
            beacon = [implementation |-> logic, owner |-> deployer]
  /\ beacon_of = [p \in BeaconProxies |-> ZERO]
  /\ stack = <<>>

-----------------------------------------------------------------------------
HasCode(a) ==
  \/ a \in Logics \cup Strangers \cup {BEACON}
  \/ a \in Proxies /\ stored[a].implementation # ZERO
  \/ a \in BeaconProxies /\ beacon_of[a] # ZERO

(* `implementation()`, which the beacon has and the proxy of                *)
(* examples/erc1967 as well                                                 *)
ImplementationAt(b) ==
  IF b = BEACON THEN beacon.implementation
  ELSE IF b \in Proxies THEN stored[b].implementation
  ELSE ZERO

(* The code that runs in a context that is called                           *)
CodeOf(c) ==
  IF c \in Logics THEN c
  ELSE IF c \in Proxies THEN stored[c].implementation
  ELSE ImplementationAt(beacon_of[c])

not_delegated(c) == stored[c].logic_flag

only_proxy_of_any_version(code, c) ==  \* mutant: the versions are not compared
  ~stored[c].logic_flag /\ stored[c].implementation # ZERO

only_proxy(code, c) ==
  /\ ~stored[c].logic_flag
  /\ stored[c].implementation # ZERO
  /\ stored[c].version = VERSION_NUMBER[code]

(* `proxiable_uuid` of whatever code answers at `a`, in the context of `a`  *)
IsUups(a) == a \in Contexts /\ CodeOf(a) \in Logics /\ not_delegated(a)

-----------------------------------------------------------------------------
Top == stack[Len(stack)]

(* The stack once the call that goes with the top upgrade is made           *)
Served ==
  IF stack = <<>> THEN <<>> ELSE [stack EXCEPT ![Len(stack)].data = FALSE]

(* Who may run which code in which context: anybody calls a contract; in an *)
(* upgrade, the call that goes with it.                                     *)
Turns ==
  IF stack = <<>> THEN { <<CodeOf(c), c, a>> : c \in Contexts, a \in Accounts }
  ELSE IF Top.data THEN { <<Top.code, Top.context, Top.sender>> }
  ELSE {}

(* Erc1967Utils::set_implementation, or set_beacon, and the rest is to come *)
Enter(kind, context, sender, code, data, target) ==
  /\ Len(stack) < MaxDepth
  /\ HasCode(code)
  /\ stored' = IF kind = "beacon" THEN stored
               ELSE [stored EXCEPT ![context].implementation = code]
  /\ stack' = Append(Served, [ kind |-> kind, context |-> context,
                               sender |-> sender, code |-> code, data |-> data,
                               target |-> target, before |-> stored ])
  /\ UNCHANGED <<beacon, beacon_of>>

(* The constructors of the two proxies; a beacon must answer with an        *)
(* address that has code.                                                   *)
Construct(p, sender, code, data) ==
  /\ stack = <<>> /\ ~HasCode(p)
  /\ Enter("proxy", p, sender, code, data, code)

ConstructBeaconProxy(p, sender, target, data) ==
  /\ stack = <<>> /\ ~HasCode(p)
  /\ HasCode(target)
  /\ Enter("beacon", p, sender, ImplementationAt(target), data, target)

UpgradeToAndCall(code, context, sender, new_implementation, data) ==
  /\ stored[context].owner = sender  \* only_owner, of the example
  /\ only_proxy(code, context)
  /\ IsUups(new_implementation)
  /\ Enter("upgrade", context, sender, new_implementation, data, new_implementation)

SetVersionAnyway(code, context) ==  \* mutant: a later version is overwritten
  /\ ~not_delegated(context)
  /\ stored' = [stored EXCEPT ![context].version = VERSION_NUMBER[code]]

SetVersion(code, context) ==
  /\ ~not_delegated(context)
  /\ stored[context].version <= VERSION_NUMBER[code]
  /\ stored' = [stored EXCEPT ![context].version = VERSION_NUMBER[code]]

(* `initialize`: set_version and the constructor of Ownable                 *)
Initialize(code, context, owner) ==
  /\ ~not_delegated(context)
  /\ stored[context].version <= VERSION_NUMBER[code]
  /\ owner # ZERO
  /\ stored' = [stored EXCEPT ![context].version = VERSION_NUMBER[code],
                              ![context].owner = owner]

(* transfer_ownership and renounce_ownership                                *)
Own(context, sender, owner) ==
  /\ stored[context].owner = sender
  /\ stored' = [stored EXCEPT ![context].owner = owner]

(* One call of a logic contract's code                                      *)
Call(code, context, sender) ==
  /\ code \in Logics
  /\ \/ \E new \in Addresses, data \in BOOLEAN :
          UpgradeToAndCall(code, context, sender, new, data)
     \/ /\ \/ SetVersion(code, context)
           \/ \E owner \in Accounts \cup {ZERO} :
                Initialize(code, context, owner) \/ Own(context, sender, owner)
        /\ stack' = Served
        /\ UNCHANGED <<beacon, beacon_of>>

(* A call of other code, or of a function that changes nothing of this.     *)
OtherCall ==
  /\ stack # <<>> /\ Top.data /\ Top.code \in Logics \cup Strangers
  /\ stack' = Served
  /\ UNCHANGED <<stored, beacon, beacon_of>>

(* The end: an upgrade has the new implementation set its version.          *)
Finish ==
  /\ stack # <<>> /\ ~Top.data
  /\ IF Top.kind = "upgrade" THEN SetVersion(Top.code, Top.context)
     ELSE stored' = stored
  /\ beacon_of' = IF Top.kind = "beacon"
                  THEN [beacon_of EXCEPT ![Top.context] = Top.target]
                  ELSE beacon_of
  /\ stack' = SubSeq(stack, 1, Len(stack) - 1)
  /\ UNCHANGED beacon

(* The call or set_version fails, and the whole transaction with it.        *)
Fail ==
  /\ stack # <<>>
  /\ \/ Top.data
     \/ /\ Top.kind = "upgrade"
        /\ stored[Top.context].version > VERSION_NUMBER[Top.code]
  /\ stored' = stack[1].before
  /\ stack' = <<>>
  /\ UNCHANGED <<beacon, beacon_of>>

(* UpgradeableBeacon: upgrade_to and its Ownable                            *)
BeaconCall(sender) ==
  /\ stack = <<>>
  /\ beacon.owner = sender
  /\ \/ \E new \in Addresses :
          HasCode(new) /\ beacon' = [beacon EXCEPT !.implementation = new]
     \/ \E owner \in Accounts \cup {ZERO} :
          beacon' = [beacon EXCEPT !.owner = owner]
  /\ UNCHANGED <<stored, beacon_of, stack>>

ProxyNext ==
  \/ \E turn \in Turns : Call(turn[1], turn[2], turn[3])
  \/ OtherCall \/ Finish \/ Fail
  \/ \E sender \in Accounts :
       \/ BeaconCall(sender)
       \/ \E data \in BOOLEAN :
            \/ \E p \in Proxies, code \in Logics \cup Strangers \cup Proxies :
                 Construct(p, sender, code, data)
            \/ \E p \in BeaconProxies, target \in {BEACON} \cup Proxies \cup Strangers :
                 ConstructBeaconProxy(p, sender, target, data)

ProxySpec == ProxyInit /\ [][ProxyNext]_proxyVars

-----------------------------------------------------------------------------
Implementations == {ZERO} \cup Logics \cup Strangers \cup Proxies

Storages == [Contexts -> [ implementation : Implementations, version : Nat,
                           logic_flag : BOOLEAN,
                           owner : Accounts \cup {ZERO} ]]

ProxyTypeOK ==
  /\ stored \in Storages
  /\ beacon \in [ implementation : Contexts \cup Strangers \cup {BEACON},
                  owner : Accounts \cup {ZERO} ]
  /\ beacon_of \in [BeaconProxies -> {ZERO, BEACON} \cup Proxies]
  /\ Len(stack) <= MaxDepth

(* Between transactions a proxy whose version was ever set runs a logic     *)
(* contract of exactly that version, however upgrades were nested: its      *)
(* owner can always upgrade it again.  A logic contract never becomes       *)
(* anything else, whatever is called on it directly; and a beacon proxy     *)
(* always has code behind it.                                               *)
ProxiesRunTheirVersion ==
  /\ ProxyTypeOK
  /\ stack = <<>> => \A p \in Proxies :
       stored[p].version # 0 =>
         /\ stored[p].implementation \in Logics
         /\ stored[p].version = VERSION_NUMBER[stored[p].implementation]
  /\ \A l \in Logics :
       not_delegated(l) /\ stored[l].version = 0 /\ stored[l].implementation = ZERO
  /\ \A p \in BeaconProxies : HasCode(p) => HasCode(CodeOf(p))

(* No call takes a version back, and an upgrade never leads to a proxy or   *)
(* to a contract that could not upgrade again.  (A failed call is undone.)  *)
UpgradesGoForward ==
  [][ ~Fail => \A p \in Proxies :
        /\ stored'[p].version >= stored[p].version
        /\ stored[p].implementation # ZERO
             => stored'[p].implementation \in {stored[p].implementation} \cup Logics
    ]_proxyVars
=============================================================================
