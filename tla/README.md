# FaniLab contracts: TLA+ models, checks and proofs

FaniLab is a set of Soroban (Rust) contracts for paid deliveries. A sender
deposits the price of a delivery with an escrow contract; the driver is paid
when the recipient confirms; disputes, deadlines, fleets of drivers and a
reputation record surround that exchange. This directory holds TLA+ models of
the contracts, TLC configurations that check them on small instances, and
proofs, checked by TLAPS, that hold for every instance.

Paths below are relative to the repository. "escrow:157" stands for
`contracts/escrow_contract/lib.rs:157`, and likewise for the other contracts.

## 1. Execution model

Every public function of a contract runs as part of one atomic transaction.
A panic, a refused `require_auth` or a failing nested call undoes the whole
transaction, nested calls to other contracts and token transfers included.
Concurrency is therefore the order in which the network runs transactions: any
order is possible, anybody may submit any transaction at any time, nothing need
ever be submitted. So:

- one action per public function, with the early returns and panics as guards
  and all its effects, nested ones included, in one step;
- `Next` is the disjunction over all functions, callers and arguments;
- a transaction that fails is no step: the state is unchanged;
- the ledger clock is a variable that advances between transactions;
- no fairness is assumed unless a property names it.

Events, storage lifetimes (`extend_ttl`), `created_at` stamps and formatting
leave no trace in the models, because no property speaks of them.

## 2. Inventory

### Escrow (`contracts/escrow_contract/lib.rs`, 1271 lines): modelled

*State:* the admin and a nominated successor, a pause flag, the protocol
token, fee and slippage settings, volume tiers, addresses of three other
contracts; per delivery a record (parties, token, amount, status, deadline,
dispute stamps); the total locked per token; completed deliveries per sender;
three secondary indexes.

*Operations:* init; administration (fee, slippage, settlement, fleet and
dispute contracts, pause, tiers, two-step admin transfer, sweep); creation,
single and in batches; holdback on confirmation; release, release of a
holdback, refund, reclaim after the deadline; raising a dispute, freezing,
resolving by release, refund or split.

*What makes it correct:* the money of a delivery leaves exactly once and to
the last unit, to whom the final status says; the hand-kept total agrees with
the records; sweeping takes surplus only; a closed record is never touched;
administration passes only by a nomination that still stands; an expired
deposit can come out.

*What is hard:* seven functions each repeat "move money, set status, adjust
the total" in their own code; any two of them may race on one record;
administration changes fees, tokens and partners under live records.

### Fleet management (`contracts/fleet_management_contract/lib.rs`, 795 lines): modelled

*State:* fleets (owner, treasury, signers, threshold, active flag, count of
active drivers), a status per fleet and driver, a roster per fleet, a pending
change of treasury.

*Operations:* init, identity contract, register, deactivate, configure
signers, propose and confirm a treasury, invite, cancel, accept, remove, and
the query of the payout address that the escrow calls while it pays.

*What makes it correct:* status, roster and count agree; a driver's income is
redirected only with that driver's consent; a treasury changes only after
notice.

### Delivery (`contracts/delivery_contract/lib.rs`, 777 lines): modelled

*State:* the admin, a counter, a record per delivery (parties, driver, status,
cargo, time of delivery), lists by sender and by recipient, addresses of the
escrow and identity contracts.

*Operations:* init; create, singly and in batches (nested: registration of the
parties); new metadata; assign a driver; start transit; confirm (nested:
holdback at the escrow, credit of the driver at identity); cancel (nested:
refund); raise a dispute (nested: dispute at the escrow).

*What makes it correct:* a delivery that has ended agrees with its escrow in
every later state; nothing that was delivered, disputed or cancelled gets under
way again; lists name every delivery once; a driver is credited once per
confirmed delivery.

*What is hard:* the escrow can be called directly as well, before, between and
after the calls of this contract, so each record can move without the other;
init may come after the first deliveries, and starts the counter again.

### Dispute resolution (`contracts/dispute_resolution_contract/lib.rs`, 706 lines): modelled

*State:* arbiters, as flags and as a list, two time limits, a penalty, a case
per delivery, addresses of three contracts.

*Operations:* init; add and remove arbiters; three settings and the identity
contract; open a case (nested: dispute at the delivery, through it at the
escrow, then the freeze); evidence; resolve for refund, payout or split
(nested: penalty, money); force a split after the window.

*What makes it correct:* delivery, escrow and case tell one story of a
dispute; a closed case names what became of the money; flags and list of
arbiters agree; an open case can come to an end.

*What is hard:* three contracts have to agree at each step, and each has its
own idea of who may call; all of them can be called around this one.

### Identity and reputation (`contracts/identity_reputation_contract/lib.rs`, 389 lines): modelled

*State:* user and driver profiles, a bounded score and a count of deliveries,
an allowlist of contracts that may change scores, two configured contract
addresses, the points of a delivery. *Operations:* init, allowlist, contracts,
points, KYC, registration of users and drivers, raising and lowering a score.
*Correct when:* scores stay in bounds, profiles are not replaced, a score rises
only with a counted delivery, and contracts out of office have no say. *Hard:*
the allowlist and the configured addresses are separate records; sums of
configured points are made in `u32`; any contract on the allowlist moves scores,
not only the two of this system.

### Settlement (`contracts/settlement_contract/lib.rs`, 99 lines): partly

A stub in this tree: it answers every query for a preferred asset with
"none", so that the escrow always pays directly. The escrow model keeps the
configured address and the direct payment.

### Shared types (`contracts/shared_types/lib.rs`, 1036 lines): partly

Records and statuses used by the modelled contracts are modelled with them.
The governance helper at its end (967-1036) is used by no contract.

### TypeScript client, scripts, documents: not modelled

They keep no protocol state.

### Interaction

    delivery --refund, holdback, dispute--> escrow
    escrow   --get_payout_address---> fleet
    delivery --register, completed--> identity
    fleet    --register-------------> identity
    dispute  --raise_dispute--------> delivery
    dispute  --resolve, split-------> escrow
    dispute  --score----------------> identity
    escrow   --preferred asset------> settlement (stub)
    escrow   --transfer-------------> token contracts

## 3. Reading a tree with unresolved merges

The commit holds places where two sides of a merge were both kept, so that it
does not compile as it stands. The models read each of them as the union of
what both sides state, where one reading is compatible with the cleanly merged
code around it:

| Place | Reading |
| --- | --- |
| escrow:393-439, three setters interleaved | each setter authenticates the admin and writes its own key |
| escrow:628-742, batch without the end of its body | loop and index writes as they stand; records lack the newer fields, which are read as absent (no deadline, no fleet) |
| escrow:763-825, release computes two fees | the computed one feeds the event, `settle_escrow_funds` pays with the base fee, as in the cleanly merged `resolve_dispute` (911-931) |
| escrow:1031-1101, release of a holdback pays in two blocks | the first block calls `payout_driver` with an arity that this tree does not have; the second, `settle_escrow_funds`, is modelled |
| escrow:881, caller compared as an option | compared with the driver of the record |
| fleet:265-277, header of `update_fleet_treasury` twice | the second header, with its body: propose, then wait |
| fleet:531-534, `match` without an arm for `Removed` | anything but `Pending` is refused |
| identity:119-141, two setters interleaved with a getter | each setter authenticates the admin and writes its own key |
| dispute:205-227, a getter and two setters interleaved | each setter authenticates an arbiter and writes its own key |
| dispute:432-442, two events | one event, which leaves no trace |
| delivery:45-56, two tables of transitions in one comment | the `match` below it (57-75) |

## 4. Modules

| Module | What it is |
| --- | --- |
| `Custody` | abstract promise: a deposit is held, then leaves once, in full, with a capped fee |
| `Escrow` | the escrow contract, with the balances of the token contracts |
| `MCEscrow` | tables of volume tiers for TLC |
| `EscrowProofs` | theorems about `Escrow` |
| `Sums` | lemmas on sums over finite sets |
| `EscrowTotals` | theorems about the sums that `Escrow` keeps: totals and volumes |
| `Charter` | abstract promise of a fleet: nobody enrolled unasked, treasuries changed as announced |
| `Fleet` | the fleet contract |
| `MCFleet` | lists of signers for TLC |
| `FleetProofs` | theorems about `Fleet` |
| `Identity` | the identity and reputation contract |
| `MCIdentity` | a configuration of points for TLC |
| `IdentityProofs` | theorems about `Identity` |
| `Delivery` | the delivery contract, with the escrow and identity steps it nests |
| `Dispute` | the dispute contract, over `Delivery` |
| `Carriage` | abstract promise of the four contracts: parcel, money and verdict move together |
| `Protocol` | the four contracts as one system, with all direct calls |
| `MCProtocol` | the order of deployment and the cargo for TLC |
| `ProtocolProofs` | theorems about `Protocol` |
| `CarriageProofs` | `Protocol` implements `Carriage`; what the escrow's totals mean in it |

Definitions bear the name of the code they translate in TLA+ capitals
(`release_escrow` is `ReleaseEscrow`). Names beginning with `Bug` are mutants:
the form a plausible mistake would give the definition below it. No
specification uses them; they show that a property would notice the mistake.

### Escrow

Storage keys become variables (`DataKey::TotalLocked(token)` is
`totalLocked[token]`, absent values are `None` or 0). `bal` holds the balances
that the token contracts keep; `Transfer` debits before it credits, so paying
oneself changes nothing, and `CanTransfer` is the token's refusal. Two
history variables serve properties only: `paid` (what left for a delivery, by
beneficiary) and `nominator` (who nominated `pendingAdmin`); no guard reads
them.

- Administration succeeds for one caller only, the stored admin, so its guard
  is that an admin is stored.
- `SettleEscrowFunds` pays the driver, or whatever treasury the fleet contract
  answers with when one is configured and the record names a fleet (every
  treasury is possible; which one is the business of `Fleet`), then the admin.
- The three indexes are kept as multiplicities, so that a duplicate shows.
- Money is computed as the code does it: saturating products of `i128`,
  division rounding down. `MaxI128` is a parameter.
- A batch's loop of transfers from one account succeeds exactly when the sum
  is covered, which is how `CreateEscrowsBatch` states it.
- A `MistakenTransfer` is anybody sending tokens to the contract: what
  `sweep_untracked_balance` is for.

### Fleet

A profile per fleet, `None` before registration. The roster is a set: the code
pushes only what it does not find, and removes every occurrence. The timelock
is a parameter. `announced` is history: the last proposal and when it was made.
The registration of the owner
with the identity contract, nested in `register_fleet`, leaves nothing in this
contract.

`Terms` maps the fleet to `Charter`: a treasury, "may ask drivers" (the active
flag), the invited, the enrolled (the roster), the size (the count), the plan
(the pending change) and the time. Callers, signers and statuses are not seen
there. `configure_signers`, and everything refused, is a stutter.

### Identity

Allowlist as a set, profiles as records. Cargo is abstracted to "heavy" and
"fragile", the two facts that earn points. A sum that passes `MaxU32` aborts the
transaction, since the release profile checks overflows (`Cargo.toml:12`).

### Delivery

`Delivery` extends `Escrow` and instantiates `Identity` as `Ident`, with the
clock shared. A transaction with nested calls is the conjunction of its own
step and of the steps of the contracts it calls: `CancelDelivery` contains
`RefundEscrow`, so the guard of the refund is a guard of the cancellation, and
nothing happens if either refuses.

- Cargo is abstracted to whether its metadata is accepted, and whether it is
  heavy or fragile. `created_at` and `transit_started_at` are left out.
- Batches do not validate metadata (delivery:296), so only single creation and
  the change of metadata require `valid`.
- `RegisterParties` is two nested registrations. The second one meets the
  first when a sender is the recipient, and both meet those of an earlier
  delivery, so that with an identity contract configured a party has one
  delivery (section 8).
- `early` is history: the numbers given out before `init`, which starts the
  counter again and so gives them out a second time.
- Lists are multiplicities, as in `Escrow`.
- `IdentityNext` is everything the identity contract offers to others than the
  delivery and the dispute contract: `Oversee` its administration (init,
  allowlist, configured contracts, points), `Enlist` registrations and the KYC
  mark, `Rate` the scores that any other contract on the allowlist raises and
  lowers by itself. `elsewhere` is history: how many deliveries such contracts
  counted for each driver.

### Dispute

Evidence is a count. A sum past `MaxU64` aborts the transaction. `OpenCase`
contains the whole `RaiseDeliveryDispute`, after which the escrow is Paused, so
that `freeze_funds` adds only its check that the caller is the dispute contract
which the escrow's admin has set. `ForceSplit` hands its caller on to the
escrow, as the code does, where an admin is asked for. `RewardDriver` is a call
with half of the arguments of the function it calls (dispute:597), which fails
whenever it is made.

### Protocol

The disjunction of all functions of the four contracts, direct and nested.
What an outsider can call directly at the escrow is in `EscrowDirect`. What
asks for the authorization of a contract happens inside the functions of that
contract: `freeze_funds` belongs to the dispute contract, the scores that the
delivery and the dispute contract change belong to those two. The identity
contract is there with all its functions (`IdentityNext`). Assumed is one
deployment: the contracts that are set point at one another
(`WiringAssumption`, one identity contract), and the identity contract's init
names the delivery and the dispute contract.

`Journey` maps the three records of a delivery to `Carriage`: the delivery's
status to the course of the parcel ("open" until one of three ends), the
escrow's to the place of the money, the case's to a verdict. Under a number
given out twice, course and verdict show nothing, as the record is lost; the
money is shown all the same.

## 5. Properties

**Escrow**

- `TotalLockedExact`: the total that seven functions adjust by hand is the sum
  of the live records of the token.
- `TotalLockedDrift`: with batches, the total falls short of that sum by
  everything ever deposited in batches, settled or not, and by nothing else.
- `Covered`: the contract owns what it has counted as locked.
- `LiveBacked`: the contract can pay all live records of a token at once, short
  at most of what batches ever deposited.
- `PayoutMatchesStatus`: nothing has left for a live record; for a closed one
  the whole deposit has, to whom the status says.
- `Lifecycle`: terms never change, statuses move forward, closed is closed.
- `VolumeCountsReleases`: a sender's volume is the number of releases, up to the
  width of the counter, where it stays.
- `DisputeStamped`: dispute stamps are there exactly when a dispute was.
- `IndexExact`: each index lists each record of the party once.
- `AdminHandover`: a change of admin is one the admin in office nominated.
- `ExpiredLeavesLocked` (liveness): a locked deposit with a deadline leaves
  that status after it.
- `PausedPayouts`: during a pause, money leaves only as a holdback that is
  released or an expired deposit that is reclaimed.
- `CustodyKept`: `Escrow` implements `Custody` under the mapping "no record,
  live, closed" to "empty, held, settled".

**Fleet**

- `MembershipConsistent`: status, roster and count of active drivers agree.
- `RoutedByConsent`: payouts start to be redirected by acceptance of the
  driver only.
- `TreasuryAnnounced`: a treasury changes as last announced, and a timelock
  after that.
- `CharterKept`: `Fleet` implements `Charter`.

**Identity**

- `ReputationEarned`: no profile is dropped or replaced, a score rises only
  with a counted delivery, and a counted delivery never lowers it.

**Protocol**

- `DeliveryMatchesEscrow`: a delivery never runs ahead of the money. Delivered
  means that the money is past Locked and not frozen, Cancelled that it is
  refunded, Disputed that it is frozen or settled with the stamp of a dispute;
  whatever is called at the escrow before or after.
- `CaseMatchesDispute`: a case has the disputer and the moment that the escrow
  recorded; it was opened by a party of its delivery, which has a driver and is
  Disputed while the case is open. The property is silent on which party may
  open one and when: section 8.
- `VerdictMatchesMoney`: a refund verdict stands over a refunded escrow, a
  payout verdict over a released one, a split over one that is closed.
- `NoWayBack`: no record is dropped or changes its parties or its driver; what
  was delivered, disputed or cancelled is never under way again; a closed case
  does not change. It leaves room for a dispute after delivery and for the end
  of a disputed delivery, which the documents promise and the code never
  reaches (section 8).
- `CompletionsConfirmed`: a driver has no more counted deliveries than parcels
  delivered, cases won and credits by other allowed contracts. (Fewer is
  possible: without an identity contract nothing is credited.)
- `ReputationAccounted`: score and count of a driver change only with a
  confirmation of a delivery of that driver, which counts it, with the verdict
  on a case over one, or at the word of another allowed contract, which
  touches no delivery and no case. What a verdict does to the score, the
  property leaves open: that the driver is rewarded for a won case is promised
  and fails (`VindicatedRewarded`).
- `CarriageKept`: `Protocol` implements `Carriage`. A parcel is delivered in the
  step that makes its money due, cancelled in the step that pays it back,
  disputed, on the way or after delivery, in the step that freezes it; a verdict
  is given in the step that carries it out, or is a split of money that has
  left, and may end the parcel. Directly, the money moves forward only.
- `DeliveryIndexExact`, `AdminListExact`: the lists hold what the records and
  flags say, each once.
- `CaseCloses` (liveness): once the window has passed, an open case closes, if
  the pause is lifted from time to time.

Where init gives out a number twice, the first delivery under it is lost with
what was said about it. `CaseMatchesDispute`, `NoWayBack` and the lists are
stated for the other numbers (`id \notin early`); `DeliveryMatchesEscrow` and
`VerdictMatchesMoney` hold for these too.

## 6. Runs and bounds

| Run | Instance | Shows |
| --- | --- | --- |
| `escrow_funds` | 2 deliveries, 1 token, amounts that do not divide evenly, a fee above the cap to refuse, one step past the deadline, surplus to sweep | the nine properties on funds |
| `escrow_batch` | 2 deliveries, 2 tokens, 2 drivers, batches of up to 2; and 1 delivery under 3 nominees, fees, tiers, fleet and settlement addresses | `IndexExact`, `TotalLockedDrift`, `LiveBacked`, `CustodyKept`, `AdminHandover` |
| `fleet_small` | 3 drivers, roster of 2, 2 signers, timelock of 2 ticks in 3 | the five properties of `Fleet` |
| `identity_small` | 1 driver (drivers do not meet), 2 contracts, points that overflow a small integer type | `TypeOK`, `ReputationEarned` |
| `protocol_small` | 1 delivery, all parties, one arbiter who is also the escrow's admin, one other contract that may rate drivers, one step past the window | the eleven properties of `Protocol` |
| `protocol_window` | as `protocol_small` | `WindowEndsDispute` fails |
| `protocol_paid` | as `protocol_small` | `PaidOrDisputable` fails |
| `protocol_driver` | as `protocol_small` | `DriverMayDispute` fails |
| `protocol_reward` | as `protocol_small` | `VindicatedRewarded` fails |
| `escrow_pause` | as `escrow_funds`, one delivery | `PauseHaltsPayouts` fails |
| `escrow_tiers` | 2 deliveries, one tier | `TierFeeCharged` fails |
| `escrow_batch_totals` | as `escrow_batch` | `TotalLockedExact` fails |

Two deliveries are enough for one to be paid with the money of the other,
which is how an error in totals or coverage would show; a third adds no kind
of interference. Amounts of 12 and 19 with a fee of 10% leave a remainder; a
share of 25% does too. An amount of 0 and shares and fees just above their
limit are there to be refused. A balance of 58 pays for both deposits and one
surplus. The deadline constant is 0, so one tick passes it. Batches are
switched off in `escrow_funds` since they do not keep `TotalLockedExact`
(section 8), and on in `escrow_batch`, where a balance of 38 pays for two
deposits, so that a batch and a single escrow can share a token. `MCEscrow`
makes two explorations of that run, which TLC need not interleave: any creation
under the settings of init, and a changing administration around one escrow
that was created singly. Batches under a changing administration, and the
deadline next to `CustodyKept`, are left to the theorems. The counter of
releases is 2 wide in `escrow_funds`, which two releases reach; that it stays
there is proved (`VolumesExact`).

Three drivers and a roster of two make the limit bite, and one threshold of
three is above the signers; a timelock of two ticks in three lets a second
proposal overtake the first.

In the runs of `Protocol` there is one delivery: nothing in `Delivery` or
`Dispute` relates two records except the counter, the lists and the counts, for
which the theorems speak of any number. A counter that is set back by `init`
gives out the one number twice, so that case is in the run. `MCProtocol` cuts
interleavings that differ only in settings nobody reads yet: the escrow, the
identity contract and the dispute contract are set up in a fixed order
(`Deployed`), and a setting changes only once something depends on it (`Read`).
The other contract is allowed once a parcel is on its way or delivered, counts
at most one delivery, and nothing but the delivery and the profile goes on
while it is allowed (`Rated`); so its credit is seen next to a confirmation, in
both orders, and cases are opened in other behaviours. Points and
configured contracts change in a run whose delivery was cancelled, one of them
once. The theorems hold of `ProtocolSpec`, which has none of these
restrictions. A penalty of 60
takes more than the initial score of 50, and a limit of 0 lets one tick pass
the window.

Sets of addresses are strings with different roles, so no symmetry is used.
Deadlock is checked in every run: some administration or membership step is
always possible.

**Fairness.** `ExpiredLeavesLocked` assumes that the clock advances and that
`reclaim_expired_escrow` is called as long as it would succeed. The second is
justified by the code: the function asks for no authorization and ignores the
pause, so the sender, who gets the money, needs nobody's cooperation and has
every reason. Weak fairness suffices, because nothing that other
parties do disables it except by moving the record out of `Locked`; that is
what the property says. It covers neither `Holdback` nor records made by a
batch: those have no deadline in the code.

`CaseCloses` assumes that the clock advances, that a party asks for the forced
resolution as long as it would succeed (weak fairness: a party asks nobody's
leave for that, and the code offers nothing that takes the chance away except
an end of the case), and that the sender withdraws a disputed deposit if the
chance keeps coming back (strong fairness, since the pause comes and goes;
`refund_escrow` pays the sender all of it). A forced resolution by a party
succeeds only over an escrow that is not Paused any more, which is why the
withdrawal is needed, and why `WindowEndsDispute`, without it, fails. No
arbiter is assumed to do anything: arbiters may all be gone.

## 7. Proofs

Everything is proved for arbitrary sets of addresses, deliveries and tokens,
any amounts, any width of integers and any bounds, from the assumptions named
in `Escrow`, `Fleet`, `Identity`, `Delivery`, `Dispute` and `Protocol`: roles
are addresses, the contract is no party of its own escrows, `None` is no value,
numbers are natural. The theorems on sums assume a little more, as said there.

`EscrowProofs`:

- *Arithmetic.* `ShareBounds`, `FeeCap`, `FeeBounds`, `SplitBounds`: a
  saturated share of an amount stays within it and under the cap; fee and
  remainder, and both shares of a split, add up to the amount.
- *Steps.* `TransferEffect`, `SettleEffect`, `RefundEffect`, `SplitEffect`: what
  each payout does to the contract's balance. `ProgressShape` reduces the ten
  actions on a record to two shapes, one that closes it and one that only moves
  its status; `RecordsFramed` says all others leave records alone. Properties
  are proved on the shapes.
- `TypeCorrect`, `AlwaysCovered` (inductive with the types: every payout takes as
  much off the total as off the balance, creation adds as much to the balance,
  and a sweep takes the difference), `PaidAsStated` (inductive with the types),
  `LifecycleHolds`, `DisputesStamped`, `IndexesExact`.
- `HandoverHolds` rests on `NominationCurrent`: a standing nomination was made
  by the admin in office: a change of admin consumes it, and only the admin in
  office makes another.
- `ImplementsCustody`: `Spec => Promise!Spec`; `Mapping` relates the two
  states and `CustodyStep` shows that each step deposits, settles one delivery
  or stutters, and that the fee is capped and not charged with a refund.

- `PauseKeeps`: each action that pays either asks that the pause is off or is one
  of the two that `PausedPayouts` names.

`Sums` and `EscrowTotals` deal with sums over a set of records. The operator is
a recursion over subsets, and no rule of induction is available to the provers,
so each induction of `Sums` is put as a smallest counterexample
(`SmallestSubset`: among the subsets of a finite set with some property, one has
no proper subset with it). `TableExists` and `TablesAgree` show that the
recursion defines one value, `SumRemove` that any element may be set apart,
`SumChange` that changing one term changes the sum by as much. On them rest:

- `VolumesExact`: a step releases at most one record, and counts one for its
  sender exactly then (`ReleaseCounted`).
- `TotalsDrift`: the inductive invariant `TotalsInv` says the same with one sum,
  in which a batch's record counts nothing while it is live and minus its amount
  once it is closed. `totalLocked` is computed with saturation, so a step keeps
  `TotalsInv` only where the sum stays within an `i128` (`Unsaturated`), which
  follows from `RecordsOffered` (amounts that are stored were offered) and the
  assumption.
- `TotalsExact` and `AlwaysBacked` follow from it, the latter with
  `AlwaysCovered`; `GuardNeverRefuses` draws the conclusion for one record: in a
  token that no batch deposited, the balance never refuses a payout, which is
  what `ExpiredLeavesLocked` needs of safety.

They assume that there are finitely many numbers (`IsFiniteSet(Ids)`: they are
`u64`), and those on totals `AmountsFit`: the number of deliveries times an
amount fits an `i128`. The code does not enforce the latter, and where it
fails the total does saturate; with all numbers that a `u64` has in use it still
holds for deposits below 2^63 units.

`FleetProofs`:

- `FleetTypeCorrect` needs `PendingAnnounced`: what is pending is the last
  announcement, effective a timelock later.
- `NoticeHolds` follows from it and from `Registered`: fleets are numbered
  without gaps, so that registration never overwrites a treasury.
- `MembershipAgrees`: `MembersInv` adds to the property that rosters are
  finite, so that one driver changes the size by one.
- `ConsentHolds` uses both: a number without a fleet has no active drivers, so
  registration redirects nobody.
- `ImplementsCharter`: `Spec => Terms!Spec`. A step changes one fleet and at most
  one driver, so that each mapped function changes at one point (`OnePoint`);
  `RegisterTold`, `ManageTold` and `EnrolTold` name the step of `Charter`.
  `MembersInv` is needed, since `Charter` speaks of the roster where the code
  looks at the status, and `Registered`, since `Found` asks that there was
  nothing under the number before.

`IdentityProofs`: `TypeOK` is inductive by itself. `JudgeProfile` shows what the
four actions on a profile do to it, from which both `IdentityTypeCorrect` and
`ReputationIsEarned` follow.

`ProtocolProofs`:

- `EscrowStep`: every step of the composition is a step of `Escrow` or leaves it
  alone. Hence `UsesEscrow` (`ProtocolSpec => Spec`), which carries over every
  theorem about the escrow, and `CustodyInProtocol`.
- *Shapes.* A step on a delivery books (`Booked`), drives, calls off, confirms
  or contests it (`CarryStep`); a step on a case files, supports or decides it
  (`HearStep`); what a step does to one escrow is a `Turn` (`EscrowNextTurn`,
  `RefundTurn`, ...). Properties are proved on the shapes.
- `RecordsAgree`: the inductive invariant `ProtocolInv` is the types, the
  escrow's `DisputeStamped`, `Agreement` and `Numbered`. `Agreement` strengthens
  the three properties on records: a case exists only over an escrow that is
  frozen or closed (so that none is opened over a Locked one, and a confirmed
  delivery has none), a Pending delivery has no driver, one that left Pending
  and was not cancelled has one, and the time of delivery is set exactly for
  Delivered ones. `Numbered` says
  that the counter is past every number given out since init, so that a booking
  overwrites none. `AgreeTurn` is the heart: whatever an escrow may still do, what
  a delivery or a case says of it stays true.
- `DeliveryAndEscrow`, `CaseAndDispute`, `VerdictAndMoney` follow from the
  invariant, `FinishedForGood` (`NoWayBack`) from the step (`KeptStep`), which
  shows more than is stated: in this code Delivered and Disputed do not change
  at all; `DeliveryIndexCorrect`
  and `AdminListCorrect` by an induction each on top of it; the latter needs that
  there is no arbiter before init, which would drop it from the list.
- `CompletionsAreConfirmed` assumes finitely many numbers (they are `u64`): a
  confirmation adds one to the count and one element to the set of delivered
  parcels of that driver, a credit by another contract adds one to the count
  and to `elsewhere`, and nothing else adds to the count. `IdentityCounts`
  shows that of every function of the identity contract, `HistoryGrows` that
  no reason is ever lost.
- `EveryChangeAccounted`: a standing moves only in a nested call of a
  confirmation (`ConfirmAccounts`), of a verdict (`HearAccounts`), or in `Rate`
  (`IdentityAccounts`, which goes through registration, KYC and settings as
  well); that the case judged is over a disputed delivery of that driver is
  `ProtocolInv`.

`CarriageProofs`:

- `ImplementsCarriage`: `ProtocolSpec => CarriageKept`. `Moved` relates the three
  entries of one delivery before and after a step as `Carriage` allows it, and
  `MovedStep` turns that into a step of `Carriage`. `CarryMoves`, `HearMoves`,
  `BookMoves` and `EscrowMoves` show it of the transactions, on the shapes of
  `ProtocolProofs` and from `ProtocolInv`: that a confirmed delivery was never
  disputed is what excludes a second end.
- `BackedInProtocol` carries `AlwaysBacked` over, so that no cancellation and no
  verdict of another contract fails for want of money. Likewise every other
  theorem about the escrow holds in the composition by `UsesEscrow`.

Model-checked only: `ExpiredLeavesLocked` and `CaseCloses`, since liveness under
fairness is beyond this prover. Every other property of a passing run is proved.

## 8. Where the code and its documents differ

Seven properties state what the repository says of itself, and TLC shows a run
of the code that does otherwise.

- **The pause does not halt all movements.** `escrow-design.md:159` says that
  a pause halts "all fund movements"; `release_holdback_escrow` (escrow:1031)
  and `reclaim_expired_escrow` (escrow:1134) do not look at the flag. These two
  are the only ones: `PausedPayouts`.
- **Volume tiers are not charged.** The release computes the discounted fee
  for its event (escrow:790-793) and pays with the base fee (escrow:157); the
  test at `escrow_contract/test.rs:1276` expects the discount.
- **Batches are not counted.** `create_escrows_batch` (escrow:669) does not
  add to the total locked, which every close subtracts from. The total then
  is too low, even negative, and a sweep treats deposits as surplus. `Covered`
  still holds: it speaks of what was counted. `TotalLockedDrift` says by how much
  the total is short, and `LiveBacked` what may be missing.
- **The forced resolution is closed to the parties.** "Any party (sender,
  recipient, or driver) may call this once the window has elapsed"
  (dispute:619-620); while the escrow is Paused, the call goes on to
  `resolve_dispute_split` with the party as caller (dispute:678), which takes the
  escrow's admin only. A case that the arbiters leave alone stays Open. The
  sender can end it by withdrawing the deposit at the escrow, after which the
  forced resolution skips the money (`CaseCloses`).

- **A delivered parcel is neither paid nor open to dispute.** The consistency
  query ("Delivered: escrow must be Released", delivery:742) and the table at
  `docs/protocol/delivery-protocol.md:146` expect Released for Delivered;
  confirmation leaves Holdback. The test at
  `delivery_contract/test.rs:1056-1061` and
  `test_post_delivery_dispute_can_be_raised_and_resolved`
  (`dispute_resolution_contract/test.rs:761`) expect that a delivered parcel can
  be disputed within `DisputeTimeLimit` (dispute:247-259); the nested
  `raise_dispute` of the escrow takes Locked only, so that this is refused for
  all who ask, always. Either claim would satisfy `PaidOrDisputable`; the run
  confirms a delivery and finds neither.
- **A driver cannot open a case.** dispute:240 names the driver among those who
  may, and `delivery-protocol.md:52` and `:130` say "sender or driver"; the
  nested `raise_dispute` of the delivery contract (delivery:621-625) accepts
  sender and recipient. `DriverMayDispute` asks it for a parcel under way whose
  money is Locked, where the other two parties succeed.
- **A driver who wins a case gets nothing.** "Increase driver reputation when
  they are vindicated" (dispute:584, and `delivery_contract/test.rs:366`); the
  call lacks arguments (dispute:597 against identity:291-298, `RewardDriver`),
  so that with an identity contract configured the whole verdict fails, and the
  money stays frozen. `VindicatedRewarded` compares it with the verdict
  for the sender, which an arbiter can give and which costs the driver.

With the definition repaired (the nested calls accept the driver, or pass all
arguments) TLC finds no violation of `DriverMayDispute` and
`VindicatedRewarded` on the same instances.

Without a run, each visible in the action named:

- After a verdict, `delivery-protocol.md:53-54` lets a Disputed delivery become
  Delivered or Cancelled; no function of the code does that, so it stays
  Disputed for good, and after the verdict the consistency query calls it a
  mismatch (`Disputed` expects `Paused`, delivery:745).
- One of the two tables in the comment at delivery:45-56 calls Delivered
  terminal, as the protocol document does; the `match` and the tests have
  Delivered to Disputed.
- The threshold of signatures is not used: one signer suffices to propose a
  treasury (fleet:288, `ProposeTreasury`), and nothing reads the number that
  `configure_signers` stores "for treasury and driver removal actions"
  (fleet:741-743).
- A replaced contract keeps its access to scores: `set_delivery_contract` and
  `set_dispute_contract` (identity:120, 143) leave the allowlist alone; the
  tests at `identity_reputation_contract/test.rs:283` and `:347` expect the new
  contract to be accepted and the old one to be refused.
- With an identity contract configured, a second delivery of the same sender or
  recipient is refused (delivery:151-163, `RegisterParties`).
- `init` does not look for deliveries made before it (delivery:104,
  `InitDelivery`).
- Batches skip the validation of metadata (delivery:296,
  `CreateDeliveriesBatch`); the minimum that `init` of the dispute contract asks
  of the time limit is not asked for when it is changed
  (`UpdateDisputeTimeLimit`).
Smaller ones in the other contracts, without a run: the comment at fleet:731 says that the roster
lists pending drivers, and it lists active ones; `API.md` names the owner as
the caller of `update_fleet_treasury`, and any signer may; `escrow-design.md:29`
says that funds of a paused escrow are frozen, and its sender may still refund
it (escrow:837), as the sender may a holdback that is due to the driver
(`MoneyMoves` of `Carriage`).

## 9. Not modelled, and what could follow

Every contract of the tree but the settlement stub is modelled, and composed
where it calls another one with effect.

- The query that the escrow makes of the fleet contract changes nothing, and
  `Escrow` is checked and proved with every treasury as its answer, so that a
  composition with `Fleet` could only restrict what already holds; which treasury
  may be answered, and by whose consent, is proved in `FleetProofs`.
- Settlement is a stub that moves no money in this tree.
- Storage lifetimes and events: no property depends on them. An entry whose
  lifetime ends is archived by the network and restored unchanged.
- The governance helper: no contract calls it.
- The TypeScript client and the scripts keep no protocol state.

Worth doing next: liveness of a delivery as a whole (which confirmed delivery is
paid in the end), once the code gives a holdback a deadline; and the same runs
with the repaired forced resolution.
