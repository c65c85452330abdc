# A verification of OpenZeppelin Contracts for Stylus

The repository is a library of smart-contract components in Rust for Arbitrum
Stylus (`contracts/src`): tokens of five standards with their extensions,
access control, finance, proxies, and the data structures and arithmetic they
share. A contract embeds components as storage fields and decides which of
their functions it makes public; `examples/*` are such contracts.

This directory holds TLA+ modules that translate the components, TLC
configurations that check them on small instances, and theorems that TLAPS
proves for every value of the constants. `PROJECT.json` maps every definition
to the lines it stands for, and lists the hazards the properties are aimed at,
each at its line.

    tlc -workers 2 -config Erc721.cfg Erc721         # one run
    tlapm Erc20Proofs.tla                            # one module of proofs

## 1. Inventory

Paths are relative to `contracts/src` unless they start with `examples/`.

### 1.1 How a contract runs

A call of a contract is one transaction or part of one. The virtual machine
runs calls one after the other; there are no threads. A call that returns `Err`
or panics undoes everything it did, so it never shows as a step. What makes
sequences of calls hard is:

* **who calls, in which order**: any account may make any public call between
  any two others, so every property is about all interleavings of callers;
* **calls out**: `flash_loan`, the safe token transfers, the vault and the
  vesting wallet call other contracts, which may refuse, answer wrongly, or
  call back. The SDK refuses a call back into the contract unless it is built
  with the feature `reentrant`, which only `examples/erc20-flash-mint` is;
* **arithmetic**: `ruint`'s `+`, `-` and `Sum` on `U256` wrap, and so do the
  helpers `add_assign_unchecked` and `sub_assign_unchecked`
  (`utils/math/storage`). Each use of them relies on a fact about all earlier
  calls;
* **two records of one fact**: balances and owners, supplies and balances,
  lists and their indices, roles and their members are written separately;
* **composition by convention**: what calls an extension's hooks, and in which
  order, is up to the contract, and only the documentation says how.

Nothing in the library waits, retries or keeps state outside the chain, so
there are no crashes, lost messages or time-outs to model. Most functions are
straight lines; the loops are those over the lists of a batch, the searches of
the checkpoints, and those of the arithmetic and of the cryptography.

### 1.2 The components

| Component | State | Operations | Hard | What makes it correct |
|---|---|---|---|---|
| ERC-20 core, burnable (`token/erc20/mod.rs`, `extensions/burnable.rs`) | balances, allowances, total supply | transfer, approve, transfer_from, burn, burn_from; `_mint`, `_burn`, `_update`, `_spend_allowance` | unchecked credit and debit in `_update`; transfer to oneself; infinite allowances | supply is the sum of balances; allowances are metered; exact arithmetic |
| permit, nonces (`extensions/permit.rs`, `utils/nonces.rs`) | nonces | permit; `use_nonce`, `use_checked_nonce` | anybody submits, in any order, also after the allowance was spent | a signed message is good once, and grants what was signed |
| flash mint (`extensions/flash_mint.rs`) | fee, fee receiver | max_flash_loan, flash_fee, flash_loan | re-entrance between mint and repayment; the fee is read before the callback, its receiver after | every loan is recovered; a funded loan can be repaid, at the quoted fee |
| ERC-4626 vault (`extensions/erc4626.rs`) | asset, decimals offset; shares in an ERC-20 | deposit, mint, withdraw, redeem, previews and maxima | rounding; gifts of assets; previews read before the transfer | no rounding against the vault; what is promised can be paid |
| capped, pausable (`extensions/capped.rs`, `utils/pausable.rs`) | cap; paused | tests made by the contract | a path that forgets the test | the cap and the pause hold on every path |
| SafeErc20 (`token/erc20/utils/safe_erc20.rs`) | none; the other token's | transfers and approvals that fail aloud, `try_` and ERC-1363 variants, `force_approve` | tokens that return nothing or false, refuse, insist on a zero allowance, or have no code; up to three calls in one | a call that returns `Ok` did what it says, in full |
| ERC-20 wrapper (`extensions/wrapper.rs`) | underlying token | deposit_for, withdraw_to, `_recover` | two ledgers, one in other hands | every wrapped token is backed; everybody can leave |
| ERC-721 core, burnable (`token/erc721/mod.rs`) | owners, balances, approvals, operators | transfers, approvals, burn; `_mint`, `_update`, ... | unchecked balances; approvals that must end; existence is never tested in a transfer | balances count tokens; only those with authority move a token |
| ERC-721 enumerable (`extensions/enumerable.rs`) | a list per owner, a list of all, their indices | hooks the contract calls after the token's call | swap and pop over two maps; depends on balances already changed | the lists are the tokens that exist |
| ERC-721 consecutive (`extensions/consecutive.rs`) | checkpoints of batches, burn bits, the inner ERC-721 | `_mint_consecutive` in the constructor, then as the core | the owner is derived from three structures | derived owners behave like explicit ones |
| ERC-721 wrapper (`extensions/wrapper.rs`) | underlying token | deposit_for, withdraw_to over lists; `on_erc721_received`, `_recover` | two ledgers; callbacks between the ids of a list; a list with an id twice | a wrapped token is held, and released by leave of its holder only |
| ERC-1155 core, burnable, supply (`token/erc1155`) | balances, operators; supply per id and of all | single and batch transfers, mints, burns | a batch fails half way; ids repeated in a batch; the receiver is asked last; a wrapping sum | supplies are what is held; a batch is all or nothing |
| ERC-6909 and its supply (`token/erc6909`) | balances, allowances per id, operators; supply per id | transfer, transfer_from, approve, set_operator; `_mint`, `_burn` | operator and allowance at once; unchecked supply | tokens are taken only with leave for their id; supplies are what is held |
| ERC-2981 royalties, metadata | royalties; strings | setters, a quotient | rounding | a royalty is at most the price |
| AccessControl and enumerable (`access/control`) | roles, admin roles, an EnumerableSet per role | grant, revoke, renounce; `_set_role_admin` | admin relations with cycles; two records of membership | members are the holders; a role nobody administers stays so |
| Ownable, Ownable2Step (`access`) | owner, pending owner | transfer, accept, renounce | stale offers | a new owner was named by its predecessor |
| Vesting wallet (`finance/vesting_wallet.rs`) | start, duration, released | receive, release (ether, tokens); Ownable | products that overflow; owners that refuse; a wrapping subtraction | never more than the schedule; nothing is lost; all can be released at the end |
| Checkpoints, BitMap, EnumerableSet (`utils/structs`) | lists, words, values with positions | push and lookups; get, set; add, remove | off-by-one in three searches; swap and pop | lookups answer what a scan would |
| Proxies (`proxy`) | implementation and beacon slots, version | construction, upgrade_to_and_call, set_version, delegation; an upgradeable beacon | an upgrade calls the new logic, which may upgrade again, before the version is set | a proxy runs the version it records; it can always be upgraded again |
| Math (`utils/math`) | none | mul_div, sqrt, average | rounding; termination of Newton's iteration | reference definitions |
| Numbers and fields (`lib/crypto/src/arithmetic`, `field`) | none | carries, products, shifts, division, Montgomery forms | a modulus without a spare bit in the top limb; the bit shifted out of a remainder | the arithmetic of the integers and of residues |
| Curves, EdDSA (`curve`, `eddsa.rs`) | none | sums, doubling, multiples, normalisation in batches; sign, verify | zeros, equal and opposite points, points of order two | the group law; signatures verify |
| Merkle proofs, Poseidon2 (`merkle.rs`, `poseidon2`) | a sponge's position | verify, multi-proofs; absorb, squeeze | counts that must match; the end of a block | only nodes of the tree are accepted; one permutation per block |
| Macros (`contracts-proc`), `lib/e2e*`, benches | none | generated code, test drivers | | not part of a contract's behaviour |

How they interact: an extension holds or borrows the token it extends and calls
its internals (`flash_mint`, `permit`, `erc4626`, `wrapper` over `Erc20`;
`consecutive` over `Erc721`, `Checkpoints` and `BitMap`; the supplies over
`Erc1155` and `Erc6909`), or the contract calls both (`enumerable`, `capped`,
`pausable`). Proxies delegate to logic contracts that embed
`UUPSUpgradeable` and `Ownable`. `Ownable2Step` and `VestingWallet` embed `Ownable`;
`AccessControlEnumerable` embeds `AccessControl` and `EnumerableSet`. Calls out
go to the receivers of tokens and loans, and to the token under a vault, a
wrapper or a wallet.

## 2. The modules

Two conventions hold throughout. A *ledger* module gives the storage of a
component as a value and its internals as operators on the value: `CanF` is
when `f` returns `Ok` without a panic, `F` is the storage it leaves. A
component's module then has one action per public call or internal that a
contract can call; its guards are the early returns of the function, and a call
that fails is no step. Events, error payloads, strings and interface ids are
left out. `MaxU256` stands for `U256::MAX`: the words are `0..MaxU256` and wrap
where the code's do. A definition marked `mutant` is a plausible bug in the
definition after it, which `PROJECT.json` names; nothing else uses it.

| Module | Models | Correspondence |
|---|---|---|
| `Sums` | | the sum of a function, said as a cardinality so that it can be proved about without recursion, and the lemmas on sums |
| `FungibleLedger` | what a fungible token promises | abstract: `Issue`, `Move`, `Retire`, in exact arithmetic |
| `NonFungibleLedger` | what a non-fungible token promises | abstract: `Create`, `Give`, `Entrust`; an approval ends when the id changes hands |
| `Erc20Ledger`, `Erc20` | ERC-20 core and burnable | `token` is the storage; `quota` is history: what an approval granted and what was spent of it |
| `Erc20Permit` | permit and nonces over `Erc20` | `Signed` is all that owners sign; `nonces`, the clock `now`; `accepted` is history |
| `Erc20FlashMint` | flash mint over `Erc20Ledger` | `FlashLoan` is the code up to the call of `on_flash_loan` and pushes a frame, `Repay` the code after it; every other action may come between. `issued` is history |
| `Erc20Example` | capped and pausable as `examples/erc20` composes them with burnable | each public call asks for the pause and the cap itself |
| `SafeErc20` | SafeErc20, in a contract that exposes it as `examples/safe-erc20` does | `mock` is the kind of the other token, after the mocks of that example, `foreign` its storage; each function returns whether it is `Ok` and the storage it leaves |
| `Erc20Wrapper` | the wrapper over `SafeErc20` and the `Erc20Ledger` of its own tokens | `_recover` is exposed to everybody |
| `Erc4626` | the vault over the `Erc20Ledger` of its shares | the asset is `assets`, moved in full or not at all; `sender` is history |
| `Erc721Ledger`, `Erc721` | ERC-721 core and burnable | the operators take the present owner as an argument, because `consecutive.rs` repeats the code over its own `_owner_of` |
| `Erc721Enumerable` | the enumerable extension over `Erc721Ledger` | the order of calls is that of `examples/erc721`: the token first |
| `Erc721Consecutive` | the consecutive extension | over `Erc721Ledger` and the checkpoints and bit map of `Structs`; `constructing` says whether the constructor runs, `LateBatches` whether the contract mints batches after it |
| `Erc721Wrapper` | the wrapper over two `Erc721Ledger`s | `stack` holds the calls that wait for a receiver, with the rest of their list and the storage that a failure restores; the receiver's calls come between |
| `Erc1155`, `Erc1155Supply` | ERC-1155, burnable, supply | `Erc1155` is both a component and the abstract specification that `Erc1155Supply` implements |
| `Erc6909`, `Erc6909TokenSupply` | ERC-6909 and its supply | likewise |
| `Structs` | the data of `utils/structs`: the list of a `Trace`, the storage of an `EnumerableSet`, a `BitMap` | values, and the methods as operators on them; a word of a bit map is the set of its bits |
| `Checkpoints` | the searches of the checkpoints | one action per turn of a loop; `locals` are the variables of the call that runs. `mid` and the square root of `recent` are the constants `Midpoint` and `SquareRoot`; the runs give them the code's (`Arithmetic`), the proofs need little of them |
| `AccessControl` | roles with enumerated members | the extension's `_grant_role` touches the set only when the role changed |
| `Ownable2Step` | Ownable and Ownable2Step | `named` is history: whom the present owner named last |
| `VestingWallet` | the vesting wallet over Ownable | `paid_in` and `received` are history |
| `UupsProxy` | ERC-1967 and beacon proxies, the beacon, UUPS | `stored` has the slots of every context, a logic contract's own or a proxy's; `stack` the upgrades and constructions under way |
| `Arithmetic` | `sqrt`, `average`, `mul_div`; `Uint`, `WideUint`, the limbs, Montgomery fields; what curves use of a field | words of `WordBits` bits; numbers of `N` words of `LimbBits` bits, with the carries between the words that the code computes; residues for field elements. Its driver makes one call of these and compares the answer with the integers |
| `EllipticCurves` | both curve models, points, EdDSA | a curve is the record of its parameters |
| `MerkleProof` | single and multi-proofs | hashes are symbolic: the hash of a pair is the unordered pair |
| `Poseidon2` | the permutation and the sponge | a field of a few elements, small tables |
| `Erc20Proofs`, and the end of `Erc20Ledger` | | proofs about ERC-20 tokens, permits and flash loans |
| `Erc20CustodyProofs` | | proofs about what holds, moves or limits ERC-20 tokens: vault, wrapper, SafeErc20, cap and pause |
| `Erc721Proofs`, `MultiTokenProofs` | | proofs about ERC-721, its wrapper and its batches; about ERC-1155 and ERC-6909 |
| `CheckpointsProofs` | | the proof about the searches |
| `AdministrationProofs` | | proofs about roles, ownership, the wallet and the proxies |
| `MC*` | | instances for TLC, and compositions of components that share no state; `Erc4626` and `Erc721` need none, their sets are given in the configuration |

What the models assume of the code they call:

* the storage of a contract is changed by its components only, and a map that
  was never written reads zero;
* an ECDSA signature that is accepted was made by the owner for that message
  (`Erc20Permit`), and a hash has one preimage (`MerkleProof`);
* the asset of a vault, and a token of a wallet, move what they are asked to
  move or fail, and take nothing by themselves (`Erc4626`, `VestingWallet`).
  Tokens that answer otherwise are those of `SafeErc20` and `Erc20Wrapper`;
* the underlying token of an ERC-721 wrapper is an `Erc721`, which the code
  says it must trust;
* a receiver that is asked to accept a token answers at the end of the call,
  after every change is made; what it calls then are the other actions. Where
  the call goes on after the answer (`Erc721Wrapper`) its steps are split there;
* only `Erc20FlashMint`, `Erc721Wrapper` and `UupsProxy` re-enter: the first is
  built with the feature in its example, the second is checked with it, and in
  the third the calls are delegated.

**Fairness.** A contract acts only when it is called, and nobody must call it,
so the specifications of the components state no fairness and no liveness. The
exception is `Checkpoints`: the turns of a search are consecutive steps of one
call in one thread, which justifies weak fairness of the turns and of the
return (`CallsRunOn`), and `LookupsReturn` says that the loops end.

## 3. The runs

Every passing run explores the whole state space of its instance. Components
that share no state are run by one configuration, which picks one of them in
its initial state (`which`, `standard`, `administered`, `running`); the others
keep still, so each is explored as it would be alone.

| Run | Instance and why it is enough | Shows |
|---|---|---|
| `erc20` | two accounts and zero, `MaxU256 = 3` (0, 1, 2 and the infinite value), two moments; three signed messages, two for one nonce, one that expires | `SupplyIsSumOfBalances`, `AllowanceIsWhatIsLeft`, `MessagesAreUsedOnce`, `GrantsAreTheOwners`; `ImplementsLedger` (FungibleLedger) |
| `erc20_flash_mint` | the lender and two borrowers, loans two deep, `MaxU256 = 2`, fees 0 and 1, three pairs that approve: enough for a loan inside a loan repaid out of it, a fee changed during a callback, a fee receiver that is the borrower, the lender or nobody | `LoansAreTheOnlyExtraSupply`, `FundedLoanSettles`, `RepaymentIsAsQuoted` |
| `erc20_wrapper` | `which` is SafeErc20 over all ten kinds of token, the wrapper over the four that differ for it, or the capped and pausable example; a user, a contract with callbacks and the contract itself, `MaxU256 = 3`, four pairs that approve | `SafeCallsDoWhatTheySay`; `WrapperIsBacked`; `CapAndPauseHold` |
| `erc4626` | two users and the vault, six units of the asset, words up to 11, offset 0, one virtual share; `MCBound` keeps one pair's allowance and the vault's own shares small | `PromisesAreKept`, `PriceNeverFalls`, `CallersNeverGain`, `SharesAreSpentWithLeave` |
| `erc721` | three accounts, one rejecting, two ids | `BalancesCountTokens`, `OthersTokensAreSafe`; `ImplementsNft` (NonFungibleLedger) |
| `erc721_consecutive` | two accounts, batches of at most two, ids below the first batch, in the batches and above `U96::MAX`; words of two bits, so that two words are used | `BatchesAreCounted`, `BatchTokensAreSafe`; `BatchesImplementNft` |
| `erc721_wrapper` | a user, a contract that is called back and may call again, the wrapper; two ids, lists of one and two with the same id twice, calls two deep, the re-entrant feature on; `MCBound` limits approvals to those the wrapper or the contract can use | `WrappedIsHeld`, `ReleaseIsTheHolders` |
| `multi_tokens` | `standard` is ERC-1155 (two accounts, a contract that refuses batches and one that refuses everything, two ids, all batches of up to two lines, the same id twice and unequal lengths included) or ERC-6909 (three accounts, two ids; one allowance for one id and one operator, who also holds it); `MaxU256 = 3` | `SuppliesAreHeld`, `TakingNeedsLeave`; `ExtensionsImplement` (each supply extension implements the core it extends) |
| `administration` | `administered` is access (three accounts, two roles in every admin relation; three owners), vesting (ether and a token, an owner who refuses ether, zero and the wallet itself; schedules of no and of four moments, `MaxU256 = 8`, so that products overflow) or proxies (two logic contracts of version 1 and one of version 2, a stranger, a proxy, a beacon with its proxy, one upgrade within another) | `MembersAreHolders`, `DeadRolesStayDead`; `OffersAreCurrent`, `SuccessionIsInvited`; `VestingIsKept`; `ProxiesRunTheirVersion`, `UpgradesGoForward` |
| `algorithms` | `running` is one of: checkpoint searches (seven keys: the shortcut of `upper_lookup_recent` starts above five checkpoints); limb, Montgomery and word arithmetic (three limbs of two bits, primes with and without a spare top bit, all words of sixteen bits for `sqrt`); points of five curves of both models, with and without points of order two; signatures in a group of order five; Merkle proofs of a tree of four leaves; a sponge of three elements modulo five; the lists of an enumerable token (two owners, four ids); a set of four elements and a bit map of two words | `LookupsAreRight`, `LookupsReturn`; `ArithmeticIsExact`; `CurvesAreExact`; `MerkleIsSound`; `SpongesAreExact`; `EverythingIsEnumerated` |
| `erc721_enumerable_self_transfer` | the lists, with transfers to oneself | violates `OwnersCanEnumerate`, see section 5 |
| `erc1155_supply_overflow` | ERC-1155 with `MaxU256 = 4` and batches whose values add up to more | violates `SupplyAllIsSum`, see section 5 |

Deadlock is checked but in `administration`, where a wallet whose owner cannot
be paid, at the last moment of the bounded clock and with every bounded payment
made, really has nothing more to do, and in the runs of `MCAlgorithms`, where a
function that was called once has returned.

The invariant that says a component is sound includes the type invariant of its
module (`BalancesCountTokens`, `WrapperIsBacked`, ...). Bounds have names:
constants marked `bound` in the modules, and `MCBound`. Symmetry is used among
accounts, or ids, that the steps and the properties do not tell apart, and only
in runs without liveness.

The words of a run are small, but every comparison that the code makes with
`U256::MAX` is reached: overflowing mints, infinite allowances, wrapping
subtractions. Properties that depend on the size of a word, such as
conservation, are those proved in section 4. The limbs of `Arithmetic` are small too;
its loops depend on their width by `LimbBits` and `N` only, and two steps of
Newton do for sixteen bits what six do for 256, since each doubles the bits that
are right.

`ExtensionsImplement` is a refinement of a component by its extension: the
extensions write the internals again around their own `_update`, and this shows
that they ask for the same authority, ask the same receivers, and leave the same
balances.

## 4. The proofs

| Theorem | Module | Says |
|---|---|---|
| `Typed` | `Erc20Proofs` | `Spec => []TypeOK` |
| `Conservation` | `Erc20Proofs` | `Spec => []SupplyIsSumOfBalances` |
| `ZeroIsInert` | `Erc20Proofs` | `Spec => []ZeroAddressIsInert` |
| `AllowancesAreMetered` | `Erc20Proofs` | `Spec => []AllowanceIsWhatIsLeft` |
| `Refinement` | `Erc20Proofs` | `Spec => ImplementsLedger` |
| `Replay` | `Erc20Proofs` | `PermitSpec => []MessagesAreUsedOnce` |
| `PermitsKeepErc20`, `PermitRefinement` | `Erc20Proofs` | the invariants and the refinement above, of `PermitSpec` |
| `Grants` | `Erc20Proofs` | `PermitSpec => GrantsAreTheOwners` |
| `Recovery` | `Erc20Proofs` | `FlashSpec => []LoansAreTheOnlyExtraSupply` |
| `Solvency` | `Erc20Proofs` | `FlashSpec => []FundedLoanSettles` |
| `Quotation` | `Erc20Proofs` | `FlashSpec => RepaymentIsAsQuoted` |
| `WrappedTokensAreBacked` | `Erc20CustodyProofs` | `WrapperSpec => []WrapperIsBacked` |
| `EverybodyCanLeave` | `Erc20CustodyProofs` | `WrapperSpec => []HoldersCanLeave`, which no run repeats |
| `SafeCallsAreReal`, `WrapperCallsAreReal` | `Erc20CustodyProofs` | `[]SafeCallsDoWhatTheySay`, of `SafeSpec` and of `WrapperSpec` |
| `CapAndPause` | `Erc20CustodyProofs` | `ExampleSpec => CapAndPauseHold` |
| `Promises` | `Erc20CustodyProofs` | `Spec => []PromisesAreKept` |
| `Rounding` | `Erc20CustodyProofs` | `Spec => CallersNeverGain` |
| `Leave` | `Erc20CustodyProofs` | `Spec => SharesAreSpentWithLeave` |
| `Price` | `Erc20CustodyProofs` | `Spec => PriceNeverFalls` |
| `Balances` | `Erc721Proofs` | `Spec => []BalancesCountTokens` |
| `Authority` | `Erc721Proofs` | `Spec => OthersTokensAreSafe` |
| `Untouchable` | `Erc721Proofs` | `Spec => []NobodysTokensAreUntouchable`, which no run repeats |
| `NftRefinement` | `Erc721Proofs` | `Spec => ImplementsNft` |
| `WrappedAreHeld` | `Erc721Proofs` | `WrapperSpec => []WrappedIsHeld` |
| `ReleaseIsAskedFor` | `Erc721Proofs` | `WrapperSpec => ReleaseIsTheHolders` |
| `BatchBalances` | `Erc721Proofs` | `BatchSpec => []BatchesAreCounted`, if `BatchesComeFirst` |
| `BatchSafety` | `Erc721Proofs` | `BatchSpec => BatchTokensAreSafe`, if `BatchesComeFirst` |
| `BatchNftRefinement` | `Erc721Proofs` | `BatchSpec => BatchesImplementNft`, if `BatchesComeFirst` |
| `EachSupplyIsBacked` | `MultiTokenProofs` | `MCSpec => [](SupplyIsHeld /\ Erc6909!SuppliesAreHeld)` |
| `SuppliesAreBacked` | `MultiTokenProofs` | `MCSpec => []SuppliesAreHeld`, if `BatchesFit` |
| `ExtensionsAreExtensions` | `MultiTokenProofs` | `MCSpec => ExtensionsImplement` |
| `NothingIsTaken` | `MultiTokenProofs` | `MCSpec => TakingNeedsLeave` |
| `Membership` | `AdministrationProofs` | `Spec => []MembersAreHolders` |
| `Extinction` | `AdministrationProofs` | `Spec => DeadRolesStayDead` |
| `Offers`, `Succession` | `AdministrationProofs` | `OwnableSpec => []OffersAreCurrent`, `OwnableSpec => SuccessionIsInvited` |
| `Vests` | `AdministrationProofs` | `Vesting!Spec => []VestingIsKept` |
| `RunsItsVersion` | `AdministrationProofs` | `Uups!ProxySpec => []ProxiesRunTheirVersion` |
| `GoesForward` | `AdministrationProofs` | `Uups!ProxySpec => UpgradesGoForward` |
| `Lookups` | `CheckpointsProofs` | `Spec => []LookupsAreRight` |

They hold for any finite set of addresses that contains the zero address and any
word size of at least one; any finite set of token ids that words can count
(`Erc721`); any decimals offset (`Erc4626`); any owners, accounts, roles and
admin relations; any borrowers, fees and depth of loans (`Erc20FlashMint`); any
set of signed messages (`Erc20Permit`); any of the kinds of foreign token
(`SafeErc20`, `Erc20Wrapper`); any starts, durations and tokens of a wallet; any
logic contracts and versions, proxies and depth of upgrades (`UupsProxy`, whose
contracts have addresses of their own); any finite set of ids and any batches,
of any length (`Erc1155Supply`); any first id, size of a batch and of a word of
the bit map (`Erc721Consecutive`); any keys and values of a trace, and any number of
checkpoints (`Checkpoints`). The assumptions are the `ASSUME`s of the
modules, which TLC evaluates in the runs. A theorem about a component that an
`MC` module instantiates is about the constants declared there, which stand for
any values; the configurations alone give them some.

*ERC-20.* None of the invariants is inductive alone. The credit in `_update` is
unchecked: that it does not wrap follows from the supply being the sum of the
balances, and conservation in turn needs that it did not wrap. So the inductive
invariant is `IInv == Sound(token) /\ Metered(token.allowances, quota)`:
`Sound` is typing, conservation and an empty zero address; `Metered` relates the
allowances to the history. `UpdateIsExact` shows that `_update` of a sound
storage is sound and adds and subtracts in exact arithmetic, from the lemmas on
sums (`SumOfChange`: changing a function at one point changes its sum by the
difference). The refinement then maps every call to a step of `FungibleLedger`
or to a stutter.

*Permits.* `PInv` adds to `IInv` the history of the permits: the accepted
messages of an owner are in the order of their nonces, and each nonce is below
the one the owner is at. The last half is what makes the first inductive: a new
message carries the owner's present nonce, so it is above all that were
accepted. `Grants` needs it too, to know that a message that is accepted is not
an old one; that nothing else raises an allowance follows from
`SpendRaisesNothing`, `ApproveRaisesItsOwn` and `UpdateIsExact`.

*Flash loans.* `Inv` says that the ledger is sound and that the supply is
`issued` plus what the loans of the stack add up to. It says nothing about what
the callbacks did, so every call of anybody keeps it (`CallsMove`), and a
repayment ends exactly the loan on top (`OwedWithoutLast`, from the sums of the
ledger applied to a sequence). `SettledIsExact` composes the allowance spent, the
burn and the payment of the fee, each exact by `UpdateIsExact`. `Solvency` is about
enabledness, said by the guards of the code (`CanSettle`).

*The wrapper.* That the supply is covered is not inductive: somebody whom the
wrapper had approved could take what it holds. `Inv` therefore adds that the
wrapper never approved anybody (`Unapproved`) and that both ledgers are sound.
`UpdateKeeps`, `PaidUpdateKeeps` and `ApproveKeeps` show that no call of the
others can then lower the wrapper's balance: by `transferFrom` they move nothing
of it but zero. `FetchesAreReal` and `TransfersAreReal` show that a safe call
that returns `Ok` moved the value, whatever the token answers, so a deposit
mints what came and a withdrawal burns what went. `EverybodyCanLeave` follows:
a holder's balance is at most the supply, which is at most what is held.

*ERC-4626.* `Good` (the shares are a sound ledger, the assets are numbers) is
inductive, and under it each entry pays at least, and each exit takes at most,
the proportion of the virtual assets. The four roundings are the inequalities
`FloorBound` and `CeilBound` between products; `EnterIsFair` and `LeaveIsFair`
multiply them out; everything else leaves the price or raises it.

`Promises` adds to the invariant that nothing of the asset is created or lost
(`PromisesStand`), so that its balances are words; a floor of a share's
proportion, paid back through a ceiling, is at most the share, and the floors of
the parts add up to at most the floor of the whole. `Rounding` compares
what the caller could redeem before and after with the same two products;
`Leave` goes through the calls that debit shares, with `SpendAllowance` before
the burn in two of them.

*SafeErc20, cap and pause.* `SafeInv` is that the other token is sound and of
one of the kinds; `SafeCallsDoWhatTheySay` then holds of every call, kind by
kind: what the code accepts as an answer is given only by kinds that did the
transfer, or the approval, also where `force_approve` makes two calls and a probe.
`WithinCap` (the supply is the sum of the balances, and within the cap) is
inductive for the example, and `CapAndPause` follows for each public call.

*ERC-721.* `Steps` shows that whatever the call, the storage changes by one of
three operators: `_update` of a token away from its present owner, `_approve` of
a token that exists, or a change of the operators of an account. `Inv` adds to
`BalancesCountTokens` that nobody is approved for a token that does not exist and
nobody operates for the zero address, its owner on record; without it a token
could be minted by a `transfer_from`. `UpdateKeeps` is the heart: the debit is of
a balance that counts the token, the credit of one that has room for it, because
there are no more ids than words, and this also when both are the same balance.
`Authority` and `NftRefinement` then go through the three operators field by
field (`UpdateFields`).

*The ERC-721 wrapper.* `Pair` says of the two storages that each is sound as
above, that what is wrapped is held (`Backs`), and that the wrapper entrusts
nothing it holds to anybody (`Closed`), which the property does not say but
needs: an account approved for a token of the wrapper could take it. It holds of
the storages now and of those every waiting call would restore, so that a
failure keeps it too. Since it holds between any two ids of a list, it does not
matter what a receiver does there: `IterateKeeps` is about one id, `OthersKeep`
about anybody's calls in between. `Released` is what a step that takes something
out owes, and follows with the same case split.

*Batches.* A token of a batch has no owner of its own. `View` is the storage as
`_owner_of` answers for it, with the derived owners in the place of the recorded
ones, and what is proved of a plain `Erc721` is used again: `UpdateIsSeen` shows
that an `_update` from the derived owner is, to the view, the `_update` of
`Erc721Ledger`, whether the burn bit or the lack of a batch makes the owner
zero, and approvals are what they seem. `BatchInv` says that the view is sound
(`Good`), that the keys of the checkpoints rise and are ids of batches
(`Traced`), and that nothing is owned or burned one by one while the constructor
runs; the last is what lets a batch be counted at once (`GainsKeeps`), since
none of its tokens had an owner. `BatchIsAppended` is about `lower_lookup`: a
new checkpoint answers for the ids between the last one and its own, and for no
other. The hypothesis `BatchesComeFirst` says that batches are minted by the
constructor only and end below `U96::MAX`, as in the run `erc721_consecutive`;
section 5 says what becomes of the properties without either half.

*Checkpoints.* `SearchInv` says three things. The trace and the history of pushes
agree (`TraceInv`): keys rise, so that there are no more checkpoints than keys,
and each has the value it got last. The bounds of a search are in the list
(`Bounded`). And up to `low` everything is on one side of the key, above `high`
everything on the other (`SearchNarrows`). A turn of a loop keeps it because the
keys before the middle are smaller and those after it larger (`SidesOf`,
`TurnKeeps`); a call starts with it, also by the shortcut of `upper_lookup_recent`
(`CallKeeps`). Of `Midpoint` and `SquareRoot` the proof uses only that they stay
within their bounds. When the bounds meet, what is between them is what the answer
of a lookup is by definition, and by the history of pushes (`AnswerIsRight`). That
the loops end is left to the run (`LookupsReturn`).

*Access control.* `Inv` says of every role that its set is coherent (the value at
a position has that position) and contains exactly the accounts with the role.
`AddKeeps` and `RemoveKeeps` show it of an append and of the swap with the last
value, which may be the removed one itself; `Grant` and `Revoke` touch the set
only when the role changed, so neither set nor role is touched twice.
`SlicesAlwaysMeet` is the concatenation of adjacent subsequences. `Extinction`
needs no history: whoever may grant a role of the set holds one of the set.

*Ownable2Step.* `OffersAreCurrent`, typing included, is inductive, and
`Succession` follows from it for each action.

*The vesting wallet.* `WalletInv` says of each asset that what was paid in is in
the wallet or was received, that what was released is what owners received, and
(`Scheduled`) that no more was released than had vested of all there was. It is
kept by payments and by the clock, because what has vested of more, or later, is
no less (`QuotientIsLargest` and monotony of products), and by a release, which
raises what was released to just what has vested. That the products the code
computes may overflow, and the release then fail, is in the guards; once the
schedule has ended nothing is multiplied any more, which is why all can be
released at the end.

*Proxies.* Between transactions the property is inductive, but transactions
nest, and a failure takes the storage back to where the transaction began.
`ProxyInv` therefore says of the storage now and of `before`, what a failure
would restore, that logic contracts are as deployed (`Kinds`), that everything
that points at a contract points at code (`Linked`), and that a proxy whose
version was set runs that version (`Settled`), except the one proxy an upgrade
or a construction under way is about. Of that one `Upgrading` says how far it
is: each upgrade that waits was entered by code whose version is at most the
recorded one, and the innermost either has what it wrote still in place, with the
version to be set, or a setup nested within it has upgraded further and set a
later one. An upgrade that returns then either sets the version of what is
there, or fails because that version is lower than the recorded one, which is
the case that would otherwise break it (`FinishedUpgrade`).

*Many tokens.* A batch is a recursion over its lines. `Iterated` shows by
induction over the set of the numbers of lines that the recursion is defined,
`LineAfterLine` and `SummedLineByLine` that the recursions of the model are it;
`BatchMoves` goes from `LineMoves`, one line, to the batch: of each id, the
balances of sender and receiver change by what the batch amounts to, `Amount`,
though an id be named in many lines and the sender be the receiver. A burn,
unchecked, never takes more from a supply than there is, since what is burned
was held (`SupplyIsKept`). For the supply of all ids `AmountsAddUp` exchanges
two sums, over lines and over ids. That conservation needs `BatchesFit`: the code
adds up the values of a batch in arithmetic that wraps, and the run
`erc1155_supply_overflow` shows what happens without it. `EachSupplyIsBacked`
does not need it. The proof of ERC-6909 is that of single moves, and
`SuppliesAreKept` the heart of it.

What is only model-checked: `Erc721Enumerable` and the set it is like, and the
algorithms, that is, the arithmetic, curves, trees and sponges. Of these some are out
of the prover's reach: liveness (`LookupsReturn`), enabledness, and whatever
computes with the bits of a word (`&` and `^^` in `Arithmetic`), which the provers
know nothing about. That `Midpoint` and `SquareRoot` are what
`CheckpointsProofs` assumes is likewise evaluated by TLC for the words of a run.
Recursive functions are within reach, by induction over a set of numbers, as the
batches of `MultiTokenProofs` show.

## 5. What was met on the way

**Transfers to oneself in an enumerable token** (run
`erc721_enumerable_self_transfer`). `_remove_token_from_owner_enumeration`
takes the balance of the old owner for the index of its last token
(`token/erc721/extensions/enumerable.rs:256`), which is right when the token
has already left it. In a transfer to its own owner, which `Erc721` allows and
`examples/erc721` passes on, the balance has not changed, the slot past the end
is read instead, and the list of the owner loses a token. The passing run keeps
to transfers between different owners (`SelfTransfers`).

**The supply of all ERC-1155 tokens** (run `erc1155_supply_overflow`). A mint
raises `total_supply_all` by the sum of the values of the batch, which wraps
before it is checked (`token/erc1155/extensions/supply.rs:258`), while the
balances and the supplies of the ids are checked one by one. The documentation
(`:239`) says that the function panics when a supply would exceed `U256::MAX`,
the test at `:508` expects it of two single mints, and the burn's unchecked
subtraction relies on it (`:278-279`). The passing run takes batches whose
values add up to at most `U256::MAX`.

**Batches that end at the last id.** The next id is one more than the last of
the latest batch, in `U96` (`token/erc721/extensions/consecutive.rs:474`). After
a batch that ends at `U96::MAX` it is 0, and `_update`, which records a burn for
ids below the next one (`:453`), records none any more: `_burn` lowers the
balance, and the token stays with the receiver of its batch and can be burned
again. The documentation (`:622`) says "Destroys `token_id`." The run
`erc721_consecutive` and the proofs keep `MaxLastId` below `U96::MAX`; with
`MaxLastId = 3`, and so an id 3 among `Ids`, TLC finds both `BatchesAreCounted`
and `BatchTokensAreSafe` violated.

**Batches after the constructor.** `_mint_consecutive` is documented to be
enforced to run in the constructor (`:355-356`), but asks nothing, and
`ForbiddenBatchMint` is never returned. A batch that comes later over a token
minted alone raises the balance of its receiver by that token too, against the
comment at `:403-405`. The run and the proofs set `LateBatches` to false, as in
`examples/erc721-consecutive`; when it is true, TLC finds `BatchesAreCounted`
violated. That nothing is minted alone during the constructor is likewise up to
the contract, and the model takes it from the example.

The following bound what the runs enumerate; each is a place where the code
relies on its caller.

* The id 0 cannot be enumerated for an owner: an empty slot reads 0
  (`enumerable.rs:153`). The runs use ids from 1.
* `burn` of `examples/erc721-consecutive` (`lib.rs:123`), of
  `examples/erc1155-supply` (`lib.rs:116`) and of `examples/erc6909-supply`
  (`lib.rs:36`) may be called by anyone for anyone's tokens. The properties
  about authority are about the other calls.
* `releasable` of the vesting wallet wraps when more was released than has
  vested (`finance/vesting_wallet.rs:506`), which takes a token whose balances
  shrink by themselves. The model has none. Nor has `Erc20Wrapper` a token that
  takes a fee: with one, `_recover` panics (`wrapper.rs:363`).
* `_approve` of `Erc721` without its event and without an `auth` asks nothing
  (`token/erc721/mod.rs:907`), so a contract that calls it could approve a token
  that does not exist yet. The model has this call where the library makes it,
  in `_update` (`:674`).
* The order in which the vault moves assets and mints or burns shares
  (`erc4626.rs:1034` and `:1078`) matters only to an asset that calls back. The
  asset of `Erc4626` moves what it is asked to move, in one step with the
  shares.
* `MerkleIsSound` is about the nodes of the tree: an inner node is accepted as a
  leaf, as the warning at `merkle.rs:7-11` and the test at `:573-577` say.
  Telling them apart is up to whoever hashes the leaves.

And these are differences that no run is about:

* The documentation of `verify_multi_proof` (`lib/crypto/src/merkle.rs:105-107`,
  and the notes at `:86-90` and `:225-229`) says that a malicious proof panics
  out of bounds. It is refused with an error: where the queue of hashes runs
  out, the code asks with `get` and returns `InvalidRootChild` (`:306-308`), and
  its test `errors_manipulated_multi_proof` expects an error. No access by index
  (`:278`, `:301`, `:322`) leaves its bounds, which `MerkleIsSound` says of
  every call of its run.
* `on_erc721_received` of `examples/erc721-wrapper` (`lib.rs:134`) does not
  carry the selector attribute that `Erc721Holder` gives it, so that its
  external name has `Erc` where the standard has `ERC`. The model takes the
  library's function, called as the standard calls it.
* `_recover` of `Erc721Wrapper` is private to its module (`wrapper.rs:329`),
  although its documentation speaks of exposing it. The model exposes it.
* `withdraw_to` of `Erc721Wrapper` with the wrapper as the receiver always
  fails: the callback it causes is refused.
* `from_str_radix` (`lib/crypto/src/arithmetic/uint.rs:956`) computes a power of
  the radix for every digit of the text, leading zeros included, and panics when
  the power overflows, although the number would fit.
* The documentation of ERC-2981 (`token/common/erc2981.rs:10` and `:214`) says
  that the denominator defaults to 10000; nothing sets it unless the embedding
  contract does, as `:126` asks, and `royalty_info` fails until then.

## 6. What is left

In the order in which it would add most:

1. The internals of `Erc6909` that an embedding contract may call directly.
2. Values sent along with a call through a proxy, and hostile code behind one.
3. A token that takes a fee under the wrapper and the vault, with the properties
   that survive it.

## 7. Not modelled

* Metadata, interface ids, events, errors: nothing reads them.
* ERC-2981: two records written by their setters and a quotient.
* EIP-712 hashing, ECDSA, the precompiles: hashing and calls of the host.
* Pedersen and Keccak: a sum of multiples of fixed points, operations that
  `EllipticCurves` checks, and a function of an external crate. The tables of
  constants of curves and of Poseidon2: data.
* Encodings and random keys of EdDSA, hexadecimal literals and operator traits
  of the numbers, which only call what is modelled.
* The ERC-1967 admin slot, which nothing in the library reads, and the values
  sent to a proxy's constructor (`check_non_payable`).
* The macros of `contracts-proc`, and `lib/e2e*`, `benches`, `scripts`: no part
  of what a contract does at run time.

About a seventh of the lines of the repository's Rust is mapped. The rest is
unit tests beside the code, interfaces and errors, tables of constants, trait
implementations that delegate, test contracts and drivers, and the parts named
in this section.
