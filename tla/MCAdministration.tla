---------------------------- MODULE MCAdministration ----------------------------
(* What administers contracts, one at a time.                               *)
(*  - access: a contract that embeds both AccessControl, with its           *)
(*    extension, and Ownable2Step; three accounts and two roles, so that    *)
(*    admin roles can form chains and cycles, and three owners to be.       *)
(*  - vesting: ether and a token, two owners of whom one refuses ether, the *)
(*    zero address and the wallet itself; a schedule that starts later than *)
(*    the first payments, and a lock without a duration.                    *)
(*  - proxies: two owners, two logic contracts of version 1 and one of      *)
(*    version 2, a contract that is none, a proxy, and a beacon with its    *)
(*    proxy; one upgrade may be made within another.                        *)
EXTENDS AccessControl, Ownable2Step, TLC

CONSTANTS  \* of the wallet
  Beneficiaries, Wallet, Refusers, Tokens, Ether, Starts, Durations,
  MaxU256, MaxTime, MaxPaid

CONSTANTS  \* of the proxies
  Senders, Logics, VERSION_NUMBER, Strangers, Proxies, BeaconProxies, BEACON,
  MaxDepth

VARIABLES
  administered,
  beneficiary, start, duration, released, balance, timestamp, paid_in, received,
  stored, beacon, beacon_of, stack

Vesting == INSTANCE VestingWallet WITH owner <- beneficiary, Accounts <- Beneficiaries

Uups == INSTANCE UupsProxy WITH Accounts <- Senders

ASSUME InstancesAssumption == Vesting!VestingAssumption /\ Uups!ProxyAssumption

CONSTANTS alice, bob, carol, default, minter, dave, one, uno, two

MCAccounts == {alice, bob, carol}
MCRoles    == {default, minter}
MCVersions == (one :> 1) @@ (uno :> 1) @@ (two :> 2)
MCSymmetry == Permutations({bob, carol}) \cup Permutations({one, uno})

accessVars  == <<vars, ownableVars>>
vestingVars ==
  <<beneficiary, start, duration, released, balance, timestamp, paid_in, received>>
proxyVars   == <<stored, beacon, beacon_of, stack>>

Begins(what, start_, idle) == IF administered = what THEN start_ ELSE idle

MCInit ==
  /\ administered \in {"access", "vesting", "proxies"}
  /\ Begins("access", Init /\ OwnableInit,
            Init /\ owner = dave /\ OwnableInit)
  /\ Begins("vesting", Vesting!Init,
            Vesting!Init /\ beneficiary = dave /\ duration = 0)
  /\ Begins("proxies", Uups!ProxyInit,
            Uups!ProxyInit /\ beacon = [implementation |-> two, owner |-> bob])

MCNext ==
  /\ UNCHANGED administered
  /\ \/ /\ administered = "access"
        /\ \/ Next /\ UNCHANGED ownableVars
           \/ OwnableNext /\ UNCHANGED vars
        /\ UNCHANGED <<vestingVars, proxyVars>>
     \/ /\ administered = "vesting"
        /\ Vesting!Next
        /\ UNCHANGED <<accessVars, proxyVars>>
     \/ /\ administered = "proxies"
        /\ Uups!ProxyNext
        /\ UNCHANGED <<accessVars, vestingVars>>

MCSpec == MCInit /\ [][MCNext]_<<administered, accessVars, vestingVars, proxyVars>>

-----------------------------------------------------------------------------
(* What a wallet has released is within its schedule and all accounted for, *)
(* whoever owned it when, and all of it can be released in the end.         *)
VestingIsKept == Vesting!VestingIsKept

(* Every proxy runs a logic contract whose version it recorded.             *)
ProxiesRunTheirVersion == Uups!ProxiesRunTheirVersion

(* And its version never falls, through nested upgrades too.                *)
UpgradesGoForward == Uups!UpgradesGoForward
=============================================================================
