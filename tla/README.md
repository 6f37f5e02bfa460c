# QuantaSwap: TLA+ verification project

QuantaSwap swaps native coins and ERC-20 tokens between Ethereum and QRL with
hashed timelock escrows. A maker lists a signed order on a federated order
book, a taker proposes to fill it, both lock on their own chain, the maker
reveals a secret to collect, and the taker uses it to collect in turn. Either
side is a browser or a headless program. This directory models the parts of the
repository in which an unlucky order of events would cost money or lose an
order, checks them with TLC, and proves the central results with TLAPS.

## The system

| Part | State it keeps | Operations | What makes it correct |
|---|---|---|---|
| `contracts/hyperion/HTLCv3.hyp` | swap records, credits, outstanding totals, reentrancy flag | lock (4 forms), assign, release, claim, refund, withdraw, pushCredit | solvent; each settled swap pays or credits exactly one account exactly once, whatever tokens and recipients do during a call |
| Maker daemon, settlement (`marketmaker/src/index.ts`, `policy.ts`, `htlc.ts`) | one record per order in a state file: secret, terms, markers of what was sent | a pass: read both legs and the book, decide, persist a marker, send | never reveals the secret unless it is going to be paid; never forgets an escrow |
| Maker daemon, order life (`index.ts`, `state.ts`, `orderbook.ts`) | the signed order, the selected proposal, the fill or cancellation proof | list, select, sign, publish, cancel, drain, retire | at most one terminal proof leaves the process; no listing without a manager; what was written loads again |
| Scripted taker (`taker.ts`, `taker-policy.ts`, `taker-proofs.ts`, `taker-state.ts`) | one record per take: its proposals, the fill, markers | choose, propose, verify the fill and the maker's escrow, lock, claim, refund, abort | funds only the maker's answer to its own proposal; never pays without being able to collect |
| Process lease (`marketmaker/src/state.ts`, ported to `server/src/process-lease.ts`) | a lease file and a recovery guard file | acquire, heartbeat, fence, release, takeover | one writer of a state file |
| Order book (`server/src/store.ts`, `order-signing.ts`) | orders with their proofs, their conflicts and proposals | create, propose, fill, cancel, release, import, sweep, purge, reload | mirrors that heard the same documents show the same; a contradictory order is suppressed |
| Order book process (`server.ts`, `admission.ts`, `federation-reset.ts`, `process-lease.ts`) | leases, slots in use, the commit loop, two files | start, admit, commit, answer, lose the lease, shut down | an answer is a receipt; makers are served under load; a process that cannot commit ends |
| Federation feed (`federation.ts`) | a ring of events with sequence numbers and an append-only log | append, compact, page, reset page, reconcile, checkpoint | a peer's cursor never skips an event |
| Peer sync (`peer-sync.ts`) | a cursor per peer, a bounded queue of deferred events | fetch a page, apply, defer, retry, expire, reset | everything acknowledged is relayed |
| Browser swap flow (`PostOrderCard`, `MyOrderCard`, `SwapFlow`, `lib/swapMachine.ts`, `lib/activeSwap.ts`) | a staged pre-fund, an order handle and an active swap in local storage; what the page has read | stage, post, reclaim, start, lock, assign, claim, refund, release, discard | paid if it pays, save a taker that does not claim in time; an escrow of its own is always on record |
| Browser order list (`lib/mirrorBook.ts`, `lib/orderbookClient.ts`) | snapshots per mirror, a stream, a quarantine shared by tabs | stream, poll, merge, quarantine | fresh; an order signed twice stays hidden |
| Signing (`order-signing.ts`, `protocol-signing.ts`, `orderSigning.ts`) | none | sign and verify orders, proposals, fills, cancellations, releases | what one side signs, the other sides accept |

The parts meet on three kinds of shared state. The two parties and hostile
third parties share the escrows on the two chains, which they read with and
without a confirmation depth. Makers, takers and mirrors share the order book,
over requests whose answers can be lost and which can arrive late. Processes on
one host, or in several containers on one volume, and tabs of one browser, share
files and local storage.

What is hard here: calls that re-enter the contract; reorganisations between a
read and a send; timeouts on two chains that must stay ordered; crashes between
two writes; requests that take effect after their sender gave up; two processes
in the same protocol of file operations; signed documents that reach mirrors in
different orders; three implementations of one signing protocol that must agree
on every limit; and pages that act on what they read before a wallet prompt.
`PROJECT.json` lists such places under `hazards`, with the property that watches
each or the reason there is none.

## Modules

| Module | Models | Used by |
|---|---|---|
| `HTLCv3` | the contract, one action per function and one per return of a call it makes | `MCHTLCv3`, the proofs |
| `AtomicEscrow` | abstract specification of the contract: create once, fix the recipient once, settle once, give the amount to one account | `HTLCv3` (refinement), and the legs of `AtomicSwap` and `Browser` follow it |
| `MakerPolicy`, `TakerPolicy` | `decide()`, `decideTaker()`, `checkMakerLock()` and the retry rules as operators without state | `AtomicSwap`, `MakerOrder`, `Handshake` |
| `AtomicSwap` | one matched swap: two legs, both programs (each honest or hostile), a third party, reorganisations, lost sends, crashes | `MCAtomicSwap`, the proofs |
| `MakerOrder` | one listing of the daemon against the book | `MCMakerOrder`, the proofs |
| `ProtocolWire` | the signed messages and the limits of the protocol | the signing modules |
| `ServerSigning`, `MakerSigning`, `BrowserSigning` | the signers and verifiers of the server, of the headless programs and of the browser | `Handshake` |
| `TakerProofs` | what the scripted taker makes of a row of the book | `TakerState`, `Handshake` |
| `MakerState`, `TakerState` | what either headless program authenticates when it starts from its state file | `Handshake` |
| `Handshake` | order, proposal, and fill or cancellation between two parties and a book neither trusts | `MCHandshake`, the proofs |
| `SwapMachine` | the browser's decision table | `Browser` |
| `Browser` | one browser in one swap: storage, page, wallet prompts, chains | `MCBrowser`, the proofs |
| `OrderBook` | the store's order state on several mirrors | `MCOrderBook`, the proofs |
| `BookFeed` | acceptance, group commit, feed log, restart, and one mirror | `MCBookFeed`, the proofs |
| `BookLease`, `BookServer` | processes on one set of data files: leases, admission, commits, ends | `MCBookServer`, the proofs |
| `MirrorBook` | the browser's order list | `MCMirrorBook`, the proofs (`BrowserProofs`) |
| `ProcessLease` | the lease, one action per file operation | `MCProcessLease`, the proofs (`MakerOrderProofs`) |
| `HTLCv3Proofs`, `MakerOrderProofs`, `AtomicSwapProofs`, `BrowserProofs`, `HandshakeProofs`, `OrderBookProofs`, `BookFeedProofs`, `BookServerProofs` | theorems and their proofs | |

`PROJECT.json` maps every definition that models code to its lines.

**HTLCv3.** `swaps`, `credits`, `outstanding` and `entered` are the contract's
storage. `calls` holds the frames of running calls; each remembers the storage
to restore if it reverts, so a callee may re-enter, fail, or lie about what it
moved (`PullReturns`, `DeliverReturns`, `StrictReturns` choose the balance that
the contract finds afterwards). `paidFor` is a history variable: what left the contract for
each account. Gas is abstracted to whether a delivery succeeds. The uint128
amount cap and the uint256 word are `AmountCap` and `WordMax`.

**AtomicSwap.** `head` is what `getSwapState` reads, `deep` what
`getConfirmedSwapState` reads; `Reorg` takes `head` back to `deep`, after which
transactions in `sent` may be mined again or not. A pass is two steps, reading
with the decision and then acting; time, both chains and the book may move between them, and a crash
keeps what was persisted. A hostile party calls the contracts with the escrows
of the MC module: the agreed one, and one wrong in each field. `cast` says who is
hostile; one run covers either case.

**MakerOrder.** `disk` is the record in the state file, `pass` the running
`advance()` with one step per stretch between two awaits or two writes, `net`
the requests that may still reach the book, `published` the terminal proofs that
ever left the process.

**Handshake.** `cast` names the program on each side (`browser`, `headless`, or
a hostile maker), the kind of listing (public, private, prelocked), whether the
book is honest, how many answers or pages are lost, and how many proposals the
scripted taker retains. The state holds the parameters of signed documents
(`order`, `prelock`, `signed`), the two parties' records (`card` and `tab` for
the maker, `alice` for the taker, `swap` for the fill the maker went into the
swap with) and the book. A document is built by the signer of the side that makes
it and judged by the verifier of whoever receives it, so a limit that differs
between two implementations shows. A hostile book alters a row field by field and
replays old ones. The headless records are authenticated by `MakerState` and
`TakerState` in every state (`RecordsLoad`), rather than by a crash action: a
restart of those programs loses only memory, and what they do next depends on the
record alone. `ProtocolWire` takes hashes as collision free and signatures as the signer
and the message; a text carries its letter case, because verifiers refuse what
signers must convert.

**Browser.** `store` is local storage, `head` and `deep` the two legs, `sent`
the browser's own broadcasts, and the page holds what it last read of either leg,
which a later action may use. A prompt is opened on a reading and approved, refused or
fails after the broadcast later on. `claimLeg` re-reads the leg before it sends,
as its guard does. `careless` records a user who discards a record before its
lock was seen to land.

**OrderBook.** One order id. `row` is a mirror's row with its status, fill,
cancellation, proposals, releases and conflicts; `offer` the documents a mirror
has ever published; `heard` (a history) the ones its present row accepted. `Results` is
the set of rows a document can lead to; every request and every import sweeps first, as the
code does.

**BookFeed.** The book's public state is a set of signed events; `Needs` names
the event another one refers to (a fill refers to its order). `mem`, `dirty`, `pending`
and `waiting` are the store's commit loop, `file` the orders file, `feed` and `log`
the ring and the log on disk, `cache` the cached reset page. `proc = "append"`
is the moment between the two files, where only a crash or a failed write can fall. The
mirror has `cursor`, `deferred`, the `page` it is applying and what it `have`s.
`told` and `served` are histories: what callers were promised, what pages contained.

**BookServer** extends **BookLease**. A process is one incarnation with a place
(`pc`), the lease files it holds, the ones it knows it lost, and its failed
heartbeats. A request goes from arrival through its body to a commit and an
answer (`at`, `by`); slots are counted per lane and per source. `orders` and
`feed` are the two files as sets of mutations; `late` counts writes of a process
that was displaced between a fence and its rename. The acquisition of one lease file is one step here and several in `ProcessLease`.

**MirrorBook.** `ver` is the primary's payload, `snap` the list the page holds of
each mirror, `avail` what it believes of it, `req` a request under way and
whether its generation is still current, `source` the stream and `wire` the frames in it.
`conflicted` is a history: ids that any tab has seen signed in two variants.

**ProcessLease.** Every process has its own program counter and namespace. A
file is absent, empty (created, not yet written) or a record with an owner and
an mtime. Liveness of an owner is judged by PID within a namespace and by the
age of the heartbeat across namespaces, as in `isLiveLease`.

## Runs

All twelve pass.

| Run | Question |
|---|---|
| `htlcv3` | Does the contract stay solvent and pay each entitled account exactly once, with failing, lying and re-entrant callees? Does it implement `AtomicEscrow`? |
| `one_hostile` | Can anything make an honest program, maker or taker, pay without being able to collect? |
| `both_honest` | Does every escrow settle, and is a record only given up when nothing is left on chain? |
| `maker_order` | One terminal proof per order, no ghost listing, no lost secret? |
| `fill_resolves` | Is a signed fill always resolved? |
| `lease` | One holder, across containers, when no process stalls for a lease lifetime? With stalls and kills: at most one late write per displaced daemon, and no starter blocked for ever? |
| `book_feed` | Does every acknowledged event survive, and reach a mirror, without a skipped event or a reused sequence number? |
| `order_book` | Do mirrors suppress exactly the orders whose documents contradict each other, keep a release for a late fill, keep a filled order closed, converge, and load what they stored? |
| `handshake` | Do the three signing implementations agree, does a taker fund only the answer to its own proposal, do both sides hold the same fill, does what was written load, does the maker's card close? |
| `browser` | When can a browser be shorted, how long can a taker claim, and is an escrow of its own ever without a record? |
| `book_server` | Are answers receipts over kills and takeovers? Do racing starters leave a winner, does a lease never change hands unnoticed, are makers served in a rush, does a broken process end? |
| `mirror_book` | Does an order signed twice stay hidden, and does the list end on what the mirrors list? |

Every property has a mutant in `PROJECT.json`: a plausible bug in the
modelled code under which TLC reports the property violated.

### Bounds

- `htlcv3`: two accounts, two hashlocks, one token and the native coin, amounts
  up to one with zero and cap + 1 as inputs, two ticks of time. Two swaps are enough for one
  to be paid from the other's escrow; the theorems remove the bound. Accounts
  are symmetric.
- `AtomicSwap` runs: a tick is the shortest interval the policies tell apart, so
  every deadline is a small number and `MaxTime` lies at the last of them. One
  reorganisation and one crash or lost send; in `both_honest`, which checks liveness, there is no
  reorganisation. One fault is what one pass can meet between its two halves.
  `TimingAssumption` states the orderings that configuration checks and the
  finality policy (`docs/FINALITY.md`) enforce: a claim is final within the
  safety margins, and the taker's margin leaves room for one retry per fault.
- `MakerOrder` runs: two proposals (one in `fill_resolves`), two secrets, one
  fault. `OrderAssumption` includes
  `Expiry <= InitiatorWindow + LockingLinger`: a filled order's row outlives its
  signature. The code does not enforce it (see the gaps below).
- `lease`: three starters, in two containers or on one host: a
  holder, and two that race to replace it.
- `book_feed`: an order and its fill, a ring of one so that each append evicts
  the previous event, pages of one, one deferral, two faults. A second fault is needed for a failed commit followed by another crash.
- `order_book`: two mirrors, two variants of one order (the second prelocked and
  shorter-lived), one proposal, one unsigned taker, two terminal documents,
  two ticks. Two mirrors that hear the same documents in opposite orders are
  what convergence is about; a conflict list of two is full at the second conflict.
- `handshake`: six casts, chosen so that either program meets either program,
  each kind of listing occurs, and a hostile book and a hostile maker meet both
  takers; nine ticks, the life of a prelocked listing. The windows keep the code's
  orderings (a proposal lives shorter than an order, the responder's window is
  half of the initiator's, the prelock runway equals the initiator's window).
  The scripted taker retains two proposals, so that trimming happens, and one
  against the hostile maker. The clocks of all parties agree.
- `browser`: both roles, classic and pre-funded; a claim margin of 1, a response of 3, timeouts 6
  and 7; any number of reorganisations that replace the counterparty's open leg. The browser's own
  transactions and all settlements survive a reorganisation. `ClaimsKeepUp`: the clock
  does not pass the instant by which a claim must be mined whose guard has passed, one
  claim margin after the prompt opened; this is what the margin is there for. A
  claim that was not asked for holds the clock nowhere, so a taker can come too late,
  or find that its page refuses. `deep` stands for a depth that works: what is
  funded there is not reorganised away. The shipped configuration sets
  `confirmations: 0` for both chains (`frontend/src/config.ts:25`, `:40`) and accepts
  reorganisations of depth one (its comment at `:5`); against those neither the run nor
  the theorem says anything.
- `book_server`: five sites: one process under four requests of three lanes with
  two slots, one reserved; two processes in succession, in two containers or on one host, with
  one fault or with stalls of any length; three starters whose file sets overlap in a ring.
- `mirror_book`: three sites: a streaming tab among others with an outage, one
  alone, and one without `EventSource` beside a second tab, used until the
  quarantine expires. One order id, two variants, a forged row that makes a
  mirror's whole snapshot unacceptable.

`CHECK_DEADLOCK FALSE` stands where the system may rest: a finished swap, a
stopped process, an idle book or page, or the clock at its bound.

### Fairness

- `AtomicSwap`: both programs are supervised and poll on a timer, so their
  passes with working reads, and the second half of a pass, are weakly fair;
  a broadcast transaction the contract accepts is mined; blocks confirm; time passes.
  Crashes and lost sends are never fair and their number is bounded.
- `MakerOrder`: ticks, restarts, the book's sweep and answered requests are
  weakly fair. Reading the book, and a pass with a working node that finds the taker's leg unused, are strongly fair:
  outages end, though they may come back. A request that was given up on need not arrive.
- `ProcessLease`: a starter that is not killed keeps running.
- `BookFeed`: the book is restarted, its event loop turns, a process that failed
  a commit exits, and the mirror's sync timer fires. Expiry of a deferred event is not
  fair, but may happen at any time.
- `Handshake`: time passes and the maker's page polls.
- `BookServer`: the event loop of a process runs its commits and its callbacks, and the
  shutdown deadline and the exit handler run. No request, heartbeat or restart is fair.
- `MirrorBook`: the timers of page and server fire, requests end, frames are
  delivered, a connection attempt to a mirror that is up succeeds in the end. A
  mirror need not come back and the panel need not be opened.

## Proofs

| Theorem | Statement |
|---|---|
| `HTLCv3Proofs!TypeCorrect` | `Spec => []TypeOK` |
| `HTLCv3Proofs!SolvencyHolds` | `Spec => []Solvency` |
| `HTLCv3Proofs!EntitlementHolds` | `Spec => []Entitlement` |
| `HTLCv3Proofs!ReachabilityHolds` | `Spec => []CreditsReachable` |
| `HTLCv3Proofs!CreditFits` | `Spec => []CreditAlwaysFits` |
| `HTLCv3Proofs!Implements` | `Spec => EscrowSpec` |
| `MakerOrderProofs!OneDecision` | `Spec => []OneTerminalDecision` |
| `MakerOrderProofs!SecretNeverLost` | `Spec => []SecretKept` |
| `MakerOrderProofs!NoGhost` | `Spec => []NoGhostListing` |
| `MakerOrderProofs!Exclusive` | `LeaseSpec => []AtMostOneHolder`: if no process stalls and none is killed inside the guard |
| `MakerOrderProofs!Fence` | `LeaseSpec => []AtMostOneLateWrite`, with any stalls and kills |
| `AtomicSwapProofs!SwapTyped` | `Spec => [](TypeOK /\ ChainsAgree)` |
| `AtomicSwapProofs!MakerNeverShorted` | `Spec => []MakerNotShorted` |
| `AtomicSwapProofs!TakerNeverShorted` | `Spec => []TakerNotShorted` |
| `AtomicSwapProofs!RetiredLeavesNothingBehind` | if no chain reorganises, `Spec => []RetiredLeavesNothing` |
| `BrowserProofs!NeverShorted` | `Spec => []NotShorted` |
| `BrowserProofs!AlwaysRecoverable` | `Spec => []EscrowRecoverable` |
| `BrowserProofs!QuarantineStays` | `ListSpec => []QuarantineHolds`, of `MirrorBook` |
| `HandshakeProofs!FundedSafely` | `Spec => []FundsSafely` |
| `HandshakeProofs!SameFill` | `Spec => []AgreeOnFill` |
| `HandshakeProofs!RecordsAlwaysLoad` | `Spec => []RecordsLoad` |
| `HandshakeProofs!SignedAccepted` | `Spec => SignedIsAccepted`, an action property |
| `OrderBookProofs!RowsHold` | `Spec => []Inv`, the inductive invariant the next four follow from |
| `OrderBookProofs!SuppressedExactly` | `Spec => []Quarantined` |
| `OrderBookProofs!ReleaseCounts` | `Spec => []ReleaseStopsFill` |
| `OrderBookProofs!ReloadsFirst` | `Spec => []ReloadsOnFirstTerms` |
| `OrderBookProofs!FilledClosed` | `Spec => []FilledStaysClosed` |
| `OrderBookProofs!PeersHold` | `Spec => []PeersInv`, the inductive invariant the next one follows from |
| `OrderBookProofs!MirrorsConverge` | `Spec => []Convergence` |
| `BookFeedProofs!FeedHolds` | `Spec => []Inv`, the inductive invariant the next three follow from |
| `BookFeedProofs!SurvivesAnswer` | `Spec => []ToldSurvives` |
| `BookFeedProofs!SeqNames` | `Spec => []SeqNamesOneEvent` |
| `BookFeedProofs!NothingSkipped` | `Spec => []NothingInvisible` |
| `BookServerProofs!LeaseHolds` | `Spec => []LeaseInv`, the inductive invariant the next two follow from |
| `BookServerProofs!SomeoneAlwaysWins` | `Spec => []SomeoneWins` |
| `BookServerProofs!NobodySurprised` | `Spec => NeverSurprised`, an action property |
| `BookServerProofs!MakersServed` | `Spec => MakerServed`, an action property |
| `BookServerProofs!ReceiptsAlwaysHold` | `Spec => []ReceiptsHold` |

They hold for every set of accounts, hashlocks, tokens, processes, casts,
proposals, variants, mirrors and events, and every value of the bounds, windows
and sizes that the named assumptions allow. Every property named here is also
checked by a run, with a mutant that breaks it, except the invariants that are
there for the proofs (`ChainsAgree`, both `Inv`, `PeersInv` and `LeaseInv`).

### Assumptions

- `HTLCv3`: the amount cap is positive, the names are distinct, the sum behaves as
  a sum (`TotalOverSwaps`, `TotalOverCredits`), and, for `CreditFits` alone, not
  so many swaps are locked that capped amounts overflow a word together
  (`SwapsFit`: the contract's own argument, `HTLCv3.hyp:475-482`, is that it takes
  2^128 of them).
- `AtomicSwap`: `TimingAssumption`. The initiator's window is at least twice the
  responder's (`order-signing.ts`), and a claim is final within the submit margin
  and within the maker's safety margin. The taker's safety margin exceeds the
  submit margin by one unit for each reorganisation and one retry interval for
  each lost send that happens: the proof of `TakerNotShorted` shows where each of
  them is spent.
- `MakerOrder`: an order has life left when it is signed (`MinRemaining > 0`,
  `order-signing.ts:260`), and a filled order's row outlives its signature.
- `Browser`: `WindowAssumption`, the orderings of the constants in
  `swapMachine.ts` and `prelock.ts`, and, in the specification's clock, `ClaimsKeepUp`.
- `OrderBook`: a prelocked variant expires by its initiator timeout, at least one
  conflict proof is kept (`MAX_CONFLICT_PROOFS`, `store.ts:255`), ids of
  variants and proposals differ, and an order lives no longer than `OPEN_TTL_S`:
  `MAX_ORDER_LIFETIME_S` (`order-signing.ts:249`) and `OPEN_TTL_S`
  (`store.ts:218`) are both 48 hours. `Convergence` needs the last one: a mirror
  that received the order earlier would otherwise expire it by age while another
  one still offers it.
- `BookFeed`: ring and pages hold at least one event, and `federationSnapshot()`
  lists every event it has.
- `Handshake`: windows are natural numbers, the market maker lists public orders only,
  and the scripted taker takes none that is private (`HandshakeAssumption`); the
  order that is listed was signed (`ListingAssumption`); an order has life left when it
  is signed and a fill a moment to be answered in (`MIN_LIFETIME > 0` and
  `MIN_RESPONSE > 0`, 60 s each in all three signers). `DraftAssumption` is for a
  browser that plays the maker: the answer is due (`SIGNED_FILL_RESPONSE_S`, 300 s)
  more than the taker's runway (600 s) before `RESPONDER_TIMEOUT_S` (3600 s) is over, and
  twice that timeout fits into `INITIATOR_TIMEOUT_S` (7200 s) and into the prelock's
  runway (9000 s); `SignedAccepted` needs it, since the browser's signer checks none of
  this. `SameFill`, `RecordsAlwaysLoad` and `SignedAccepted` also assume that the value which
  stands for null is neither a number nor a record (`NullApart`).
- `MirrorBook`: the quarantine is kept longer than a signature lives
  (`QUARANTINE_RETENTION_MS`, and 48 hours in `verifyOrderV1Auth`), and what the
  mirrors list are rows of known ids.
- `BookLease`: a lease lives at least three beats, which `startHeartbeat()` asks; the
  lease files are finitely many and have one order (their resolved paths); any two
  processes of a site configure a file in common (`SitesAssumption`): without one
  they do not contend, and `SomeoneWins` says nothing about them.
- `BookServer`: each bound reserves at least one slot and not all of them, and a
  maker's share of the reads exceeds another source's (`admission.ts`).
- Wherever null occurs, `NullAssumption`: the value that stands for null is none
  of the values it could be confused with.

### Arguments

*HTLCv3.* Solvency and entitlement are about the states between transactions, and
neither is inductive: during a call storage is in an intermediate state, and a
revert restores the storage that a frame saved. The inductive invariant `IInv`
therefore says that storage is `Good` between transactions, and `InCall` says, for
each kind of frame, by what storage differs from the good storage it was entered
with (a lock whose tokens have not arrived, a settlement not paid yet, a credit
taken and not yet paid) and that the frame's restore point is good. There is one
lemma per action. The proofs use of sums only that they are natural numbers, zero
when all values are, and change by what one value changes (`TotalOverSwaps`,
`TotalOverCredits`); the runs evaluate these assumptions on the definition of the
sum that TLC uses. The refinement maps storage in a call to the last committed
storage, so that a function is one abstract step when it ends. `CreditFits` needs
more than `IInv`: that credits and open swaps together never exceed what was ever
locked (`BackedInv`), which a lock raises on both sides, a settlement moves from
one summand to the other and a withdrawal lowers.

*ProcessLease.* `MakerOrder` has one daemon because of it, so its proofs stand in
`MakerOrderProofs`. `Exclusive` rests on three facts that are inductive together: one
process at a time is inside the guard and the guard file names it; whoever holds
the lease is named in the lease file; while a process in the guard is installing
its record, nobody holds the lease. `Fence` needs another invariant: a displaced
process that is not in the middle of a write fails the next fence. The hypothesis
of `Exclusive` is needed, see the disagreements below.

*MakerOrder.* That at most one proof was published does not follow from itself:
the next publication could be another one. The inductive invariant `IInv` adds
that the record states at most one decision (`OneOnDisk`), that what was published
is that decision as long as the record exists (`PublishedAgrees`), and that a pass
about to send a proof has it on disk while a pass that selects or signs found none
(`PassAgrees`). Every step is then one of four kinds, a lemma each: it keeps the
decision (`QuietStep`), takes the first one (`DecidingStep`), sends the one on
disk (`SendingStep`), or happens elsewhere (`ElsewhereStep`). `SecretKept` needs
what `parseProtocol()` asks of a record (`RecordAgrees`), that a pass signs only
what is selected and locks only what is acknowledged (`PassKnows`), and that a
record whose secret was locked carries the lock's marker and its terms
(`LocksMarked`): a marked record is dropped only when `exposureExcluded` finds the
leg settled or its lock too late. `NoGhostListing` is about the book after the
daemon has moved on; its invariant says that a retired or acknowledged record has
a listing that is `Closed` for as long as the order is valid, whichever late
request arrives (`RecordOutlives`), and that the view a pass carries was true of
the book at some time and is still good (`ViewHolds`).

*AtomicSwap.* `ChainsAgree` says what a confirmation depth is worth: what is
confirmed stays, and an escrow with a payee is refunded after its timeout only.
The maker's part: it claims only what it saw confirmed (`MakerTrusts`), nobody
knows the secret before its claim is out (`SecretHeld`), and a claim that is out
is mined or still in time (`MakerCollects`), because the decision to claim leaves
the safety margin in which a claim becomes final. The taker's part is a deadline
argument. Once the maker's claim has paid, the taker has until `T2` plus what
reorganisations and faults may cost; `DueBy` is that moment, it moves by one unit
or one retry interval with each of them, and `Waiting` and `Claiming` say that the
taker's claim is due or out by then. The escrow it claims was checked to outlast
it (`Ample`). `RetiredInv` says that a retired record's leg is over, someone
else's, or was never funded. Its hypothesis is needed: both programs retire on
what they read at the chain head (disagreement 1).

*Browser.* A maker's escrow is claimed only after its own claim is out, and a
claim that passed `claimLeg`'s guard comes in time (`ClaimComes`). A taker locked
only against an escrow at depth that outlasts its own by the claim margin
(`TakerLocksWell`), so that escrow is not gone before a claim margin after the responder
timeout, and no cutoff stops its claim before the responder timeout. `NotShorted`
promises no more to a taker whose claim was not broadcast: it may have been away, or its
page may have refused (disagreement 8). The assumption behind the theorem is
`ClaimsKeepUp`. Old readings are harmless because a leg that was funded for
somebody at depth keeps its terms (`DepthHolds`) and a settled leg stays settled
(`OwnLegHolds`). `EscrowRecoverable` adds `PostingHolds`, which ties each step of
posting and reclaiming to what was already stored and to what the leg must be by
then.

*Handshake.* None of the properties is inductive; for `FundsSafely` and `AgreeOnFill` not, since a taker judges rows that a
hostile book composed. The proof first establishes what the wire formats guarantee: the three
signing modules make the same bytes of the same document (`WireAgrees`,
`TermsAgree`), bytes and signatures name what was signed, and a fill whose maker
signature verifies is one that a maker which is not hostile signed, for the
very proposal the taker holds (`FillNamed`): proposals are told apart by their
release commitment. The verdict to fund then means a sound fill (`BrowserFunds`,
`TakerFunds`). The inductive invariant `IInv` says that every document on the
card, in the tab's prompts and on the book is a well formed one of this order, that rows
keep the authentication of a fill that was signed (`RowGood`), and, for `AgreeOnFill`,
that the maker signs one fill until a cancellation is signed beside it (`OneFill`):
the fill is saved on the card before it is published, so a card without one, or a
wallet prompt still open, means that none was signed. There is one lemma per action.
`RecordsLoad` goes the other way, from what a program wrote to what its parser accepts
at the next start. The order on the card verifies whenever it is read (`HeadlessDoc`);
a selected proposal verifies for this order and its draft carries the timeouts of the
time it was chosen at (`CardLoads`, `FillBound`); what the taker holds is its own proposal,
and a fill that passed its checks (`TakeLoads`, `OwnStands`). A record is loaded at
any later time, so these say what was true when each document was signed, and that
the parsers verify at that time, not at the time of the start.
`SignedIsAccepted` is about every signer against every verifier. The order that is
listed would pass the book at the moment it was signed (`OrderSound`). A fill is
followed to the terms that all verifiers ask for, each in its own words: `FillFits` says
that the proposal is in force, that the fill answers it, and how its times lie, and from
it alone the book and both takers accept (`BookTakesFill`, `TakersTakeFill`).
The headless signer enforces `FillFits` itself for the orders it lists, which carry no
prelock (`HeadlessSignsFit`). The browser's does not: there the times come from a draft
that may have waited on the card or in a wallet prompt, and `PageFits`, inductive with `IInv`, says that every draft the page
still holds has the proportions of a fresh one and was made at most `RESPONDER_TIMEOUT`
before its end (`DraftTimely`); time that passes shortens both of its sides alike, so
the initiator's stays at least twice the responder's, and the draft's own deadline
leaves the taker its runway. What time does break is a prelock's runway, which the
property excepts (disagreement 7).

*MirrorBook.* While an order's signatures live nothing runs out of its retention
(`Pruning`), so merging keeps what either side has (`Merging`). The invariant is that
local storage has every id this tab retains and every id that any tab saw in conflict
(`HeldWell`), which `current()` establishes whenever it emits: it stores a conflict
in the step in which it sees it, and merges with what another tab stored.

*OrderBook.* A row is the verdict on the documents it accepted: `RowInv(r, h)`
relates a row `r` to its history `h`. It has at most one terminal document of its
own, is equivocated exactly if another document contradicts it (`VerdictHolds`),
keeps at most `MaxConflicts` distinct proofs (`ProofsHold`), marks a released
proposal while it is retained (`ReleaseHolds`), and says of its fill what was
signed (`TermsHold`). Each document a mirror can hear has a lemma that takes
`RowInv(r, h)` to `RowInv` of the result and `h` with the document; every action
is then a mirror that `Moved` or a world that went `Forward` (time, signatures).
The attempt to prove `FilledStaysClosed` refuted its earlier statement, which
named the timeout of the very fill that was announced: a maker that signs two
fills has the order open again after the earlier timeout, and one that also
cancels, when the cancelled row goes. The property excepts both. `Convergence`
compares two mirrors that have heard everything the other one announced, and needs
to know that announcements leave nothing out (`PeersInv`). A signed row is the
verdict on documents that belong together: the terms of each terminal were heard and
its fill verifies (`Judged`), and a document that changes nothing is one the mirror
had heard (`Story`). A public row has announced each
order and each terminal document it was judged by, never a terminal before its
terms (`Announced`), a row without a terminal is open until its terms expire
(`Idle`), and an unsigned order never shares an id with an announced one
(`UnsignedAlone`). Two such rows were then judged by the same documents, up to
those that no longer matter.

*BookFeed.* Everything that has a cursor is a `Holder`: the mirror, a page on its
way, the cached reset page, each with the events its owner has. `Covers(f, S)`
says that a holder whose cursor the feed `f` honours has every event of `S` or
will find it after its cursor. The feed covers what its digest vouches for
(`FeedOk`), and while the process is up it covers all of memory but the pending
events (`UpHolds`). A batch makes the feed grow (`Grown`), a torn one leaves a log
that is grown from the feed by a prefix, and covering survives growth; the case in
which it does not, a digest that vouches for what the file never saw, is what the
checkpoint's guard excludes. `Staged`, `Listed` and `Selected` are recursive
functions, and what they return for any sequence is proved by the least
counterexample (`Least`, `Upto`, `StageRuns`, `KeptRuns`): the set of positions at
which a claim fails has a least element, where one step of the recursion refutes
it.

*BookServer.* The leases come first, since a commit is safe only because of them.
`HeldInv` says that what a process holds is an initial segment of its files in
their common order and that a lease names a process that holds it; without faults a
process was turned away because another one has the very file it wanted. If all
were turned away, the holder of the greatest file anybody was refused would itself have been
refused a greater one, which is the proof of `SomeoneWins`. `AgeInv` says that a
lease in use is older than one beat only by the failures its owner counted, and
that the owner gives it up before the count reaches `failureBudget`: a starter that
finds it stale therefore comes after the owner declared it lost. `ReceiptsHold`
needs that a process which was not displaced has all of the orders file in memory
(`ReceiptInv`), because its next write replaces the file; a takeover establishes
this by the load that follows it, and no step of another process disturbs it while
the lease holds. `MakerServed` rests on a count: the lanes other than the makers'
never occupy more than `Ceiling`, which leaves a maker a slot (`LaneInv`).

### Model-checked only

- Every liveness property (`EscrowsSettle`, `FillResolves`, `StarterAnswered`,
  `Relayed`, `CardCloses`, `Stops`, `Fresh`): liveness under fairness is outside
  the prover's reach.
- `RetiredLeavesNothing` with reorganisations: it does not hold (disagreement 1),
  and `both_honest` has none either.

## Disagreements found while modelling

Each was met as a counterexample, or is a state that a property excepts by name.

1. `decideTaker()` aborts on a foreign escrow at the chain head, on the ground
   that "our own lock can never exist" (`taker-policy.ts:479-484`). If the
   foreign escrow is reorganised away, a lock that was broadcast earlier can be
   mined, and no record manages it.
2. `cancelManaged()` persists a cancellation for an order whose proposal was
   already selected; `parseProtocol()` refuses such a record, so the daemon does
   not start again (`state.ts:1638`, `index.ts:209`; `marketmaker/README.md:53`).
   `RecordsLoad` excepts exactly this record.
3. Two starters in one PID namespace can both take over a dead guard, and the
   second can install its record after the first has confirmed, although
   `state.ts:759-762` says the confirmation read catches it. `AtMostOneHolder`
   excepts kills inside the guard, so of this double takeover only
   `AtMostOneLateWrite` says anything: it bounds the late writes that follow.
4. The book accepts a fill or a cancellation of another variant of an order
   (`store.ts:409-436`, `applyFill`, `applySignedCancel`), but the constructor
   verifies it against the first variant and throws, so the next start fails
   (`docs/ORDERBOOK_API.md:185`, `docs/ARCHITECTURE.md:112`). A fill of a
   variant also replaces the hashlock and timeout of a prelocked order.
   `ReloadsOnFirstTerms` excepts it.
5. `startSignedSwap()` never looks at a saved cancellation, and
   `cancelListing()` saves its cancellation over a fill that is signed and not
   yet acknowledged, without the lock that serialises selection
   (`MyOrderCard.tsx:601-629`; `docs/ORDERBOOK_API.md:173`,
   `docs/ARCHITECTURE.md:110`). An honest maker's browser can sign both terminal
   documents and lose the fill's secret. `AgreeOnFill` excepts it.
6. `pushBook()` sends only what differs from the last broadcast payload
   (`server.ts:777`); a tab that connected in between was sent another payload
   and stays on it when the book returns to the first. `Fresh` excepts it
   (`returned`).
7. The signers differ: the headless `signFillV1` does not enforce the prelock
   runway, although `taker-proofs.ts` calls the two checks identical, and the
   browser's own one checks neither the factor of two, nor the runway, nor the
   prelocked terms. The browser re-signs a saved draft after the prelock's runway
   was crossed (`MyOrderCard.tsx:394`), which `SignedIsAccepted` excepts. The
   browser's taker verifies a fill with `allowExpired`, and does not compare the
   row's projection; `verifyMakerCancel` and `verifyCancelV1` accept a
   cancellation issued in the very second the order expires, which the server refuses.
8. A taker's lock is admitted when the maker's timeout is at least
   `responderTimeout + CLAIM_MARGIN_S` (`swapMachine.ts:216`), and its claim is refused
   from `timeout - CLAIM_MARGIN_S` on (`swapMachine.ts:364`, and before the broadcast
   `SwapFlow.tsx:510-516`). The margin is spent twice: `config.ts:162-163` says that
   the lock leaves "at least this much claim window beyond the responder timeout",
   but at the least timeout the page offers no claim from the responder timeout on. A maker
   that locks so, claims just before the responder timeout and refunds its own
   escrow later shorts a taker that did all its page let it do. `NotShorted` allows
   this by name (a taker, no claim broadcast, a claim margin or more after the responder
   timeout) and says what is left, that no cutoff stops the claim before the
   responder timeout; with `<=` for that `<`, TLC finds the maker's play in twelve states.

## Known gaps in the code's guarantees that no property states

- The record of a taker lock that was marked as sent and never mined is kept after
  the maker's escrow has settled (`taker-policy.ts:498`).
- A signed cancellation of an order the book no longer knows waits for the
  order's expiry, and a drain waits with it (`index.ts:499`).
- A deferred payout that becomes parked by the clock rather than by a failed
  withdrawal is retired without an entry in the stranded list (`index.ts:1011`).
- The taker persists a proposal's release before the book has answered
  (`taker.ts:1358`).
- A filled order's row is purged a day after its initiator timeout, while a signed order
  can live for 48 hours (`store.ts:1603`, `order-signing.ts:249`). `FilledStaysClosed` bounds
  when the order can be offered again; after that it can be. A peer that reset in
  between is not told of the re-import (`federation.ts:449`).
- "Discard swap" is offered while the legs are unread or the browser's own lock is
  pending (`SwapFlow.tsx:1049-1070`), and to a taker whose payment was claimed
  and who has not collected: `Browser` lets the user do it, `EscrowRecoverable`
  excepts what was discarded before its lock was seen (`careless`), and `NotShorted`
  allows a taker that never claims to go unpaid.
- A staging record of a settled escrow is cleared without reading whether its
  payout became a credit (`PostOrderCard.tsx:240-253`, `702-704`; the comment at 230).
- There is one active swap per browser: a second tab overwrites it
  (`activeSwap.ts:135`). `Browser` has one tab.

## Not modelled

- Cryptography and byte encodings: signatures are unforgeable, hashes and
  canonical messages injective. Gas, fees, nonces and the ERC-20 approval.
- Price feeds, quoting, inventory, refill, several orders of one daemon at once.
- Several peers that share deferred events, the rejected-event quota, back-off,
  token buckets, the request rate limiter, clock skew between hosts, the
  forced-exit timer and the Tor transport.
- In `MirrorBook`: a clock that goes back, local storage that fails, the cap of 1024
  quarantined ids, and the proof cache.
- In `TakerState` and `MakerState`: markers of sends (`AtomicSwap` has them),
  history entries, file poisoning, format versions and the deployment's descriptor.
- In `Browser`: the poll for deferred credits, the allowance step, a second tab;
  the taker's block on a fill whose response is late is left to the book's choice.
- A reservation of zero slots for makers, which the configuration allows, breaks
  `MakerServed` by definition; `book_server` has one.
- Wallet sessions, pages, deployment, compilation and load-test scripts, test
  contracts, and HTLC v2, which HTLCv3 supersedes. They keep no state that the
  properties are about.

`PROJECT.json` lists every component with its status.

## What would come next

1. A second tab and the credit poll in `Browser`; several peers in `BookFeed`.
2. The maker's stranded-credit ledger.
