# TLA+ models of ton-agent

This directory holds TLA+ modules that model the trading agent of this
repository (`apps/agent`), TLC configurations that model-check them, and proofs
that TLAPS checks.  Source paths below are relative to `apps/agent/src/` unless
they say otherwise.

The modules model the control flow: which state changes, in which order,
under which guards, and where another actor may come in between.  JavaScript
runs a piece of code between two `await`s without interruption, so one action
is one such piece.  Amounts, prices and texts are abstracted to what the
properties tell apart.

## 1. The system

A Node process watches the TON memecoin market, decides by LLM and by rule,
signs swaps on two DEXes from several wallets ("tiers" LOW, MID and HIGH), and
watches what it bought.  A web app displays what the agent pushes.  State is in
memory, in a SQLite file (`storage/store.ts`), and on chain.

| Component (files) | State | Operations | Talks to | What is hard | What makes it correct |
|---|---|---|---|---|---|
| Kill switch (`core/coordinator.ts` 677-827, `http/read-api.ts`) | flag, reason, auto-trip mark, miss counter; not persisted | 30 s poll, miss registration, operator override | remote endpoint; every gate reads the flag | answer in flight while the operator acts; silence; flapping; restart | no trading beyond the grace window without contact; a stubborn endpoint halts |
| SafetyCaps and gates (`safetycaps/check.ts`, `core/gate.ts`, `dex/swap-gas-guard.ts`, `risk/guardrails.ts`) | none (pure over ticket and tier snapshot) | `checkTicket`, `verifyCapBinding`, `evaluateTradeGate`, `evaluateBuyGasGuard` | coordinator, fast path, MCP tools | a dozen comparisons; two gates that must agree | a worse state never admits more; the second gate admits nothing the caps refuse |
| Authorization and execution (`core/coordinator.ts` 272-656, `safetycaps/registry.ts`, `telegram/approvals.ts`, `mcp/tools.ts`) | registry of greenlit tickets, approvals, cached tier handles, calls in progress | authorize, approve / deny / expire, execute, record position, refresh | router, store, operator, LLM | single use; stale results; halt between check and signature | a human is asked each time; results are spent once; a halt drains; deliveries are priced |
| Sniper engine (`sniper/engine.ts`, `sniper_positions` and `sniper_daily` in `storage/store.ts`) | rows, daily ledger, locals of passes and ticks | scan pass, buy, monitor tick, sell, timers | memepad router, operator's hand edits | no overlap guard; snapshots; lost answers; crash | exposure and daily loss bounded; cost basis kept; one exit; parked tokens left alone; every position ends |
| Sniper rules (`sniper/filters.ts`, `sniper/sizing.ts`) | trend tracker, peak | `evaluateLaunch`, size chain, `decideExit` | engine | precedence of exits; gas of exits; gaps | exits funded; the stop is reached; winners ride |
| Rate limiters (`http/rate-limit.ts`, `http/tonapi.ts`, `sniper/x1000-client.ts`) | per bucket: in flight, queue, last release, timers; attempts of a request | acquire, release, drain, retry | all clients of DeDust, TONAPI, toncenter | attempts dropped, put off and overtaken; slots held through retries; limits that are not the bucket's | a cap holds; everyone is served |
| DEX router (`dex/router.ts`, `dex/minout.ts`) | dead-pool cache | quote, buy, sell, verification of delivery | wallets, chain | baselines; delivery by polling; messages that land late | what is reported was delivered |
| Wallets (`wallet/*.ts`, `contracts/budgeting-wallet.tolk`) | per-tier mutex, seqno | send under lock, wait for seqno | chain; the sniper bypasses the lock | timeout against late landing; two signers of one wallet | whoever called returns |
| Position monitor (`hotpath/position-monitor.ts`) | positions table, pool subscriptions, trend, audit caches and baselines | tick, look, exit, forget | coordinator, router, audit, recovery | row changes under a tick; crash between exit and row; a cache that hides a stop; a value that drains | each result booked once; every lot watched; no rug without a measurement; stops served |
| Boot recovery (`recovery/position-recovery.ts`) | positions table | reconcile with the chain at boot | wallet, store | wrong wallet, unknown balance | no live position closed |
| Exit policy (`exit/*.ts`, `economics/trade-economics.ts`) | price series, confirmation counters, regime | trend, regime, drain, stop, structure rules | monitor | rules that hide one another; counters across restarts | the stop is reached; a trend exit has had its falls |
| Fast path (`core/fastpath-engine.ts`, `core/policy-*.ts`, `core/boc-template*.ts`, `core/fastpath-metrics.ts`) | policy, subscription, template cache, counters | publish, switch, process signal, compile template | coordinator, gate, router | stale policy or template; a cache and its access list | judged by its own policy; counted; at most the capacity cached |
| Market data (`market/*.ts`) | watched pools, dead pools, latest states | poll, emit, subscribe | monitor, radar | overlapping polls; failing rounds; a list cut off | no older reading replaces a newer one; prices arrive |
| Audit and scoring (`security/*.ts`, `risk/scoring.ts`) | four caches over one another | resolve pool, audit, score | monitor, radar, planner | ages that add up; an answer cached by mistake | evidence is recent; faults are forgotten; risk lowers the score |
| Radar, LLM brain, skills (`radar/*.ts`, `ai/brain.ts`, `skills/runtime.ts`) | seen set, call budget | scan, audit, propose | audit, MCP tools | - | - |
| Transport (`mcp/server.ts`, `http/read-api.ts`, `webhook.ts`, `line.ts`, `telegram/bot.ts`, `index.ts`) | sessions | requests, boot, shutdown | operator, web | - | - |
| Orchestration graph (`orchestration/**`) | graph state | plan, check, ask | not wired into the agent | - | - |
| Web dashboard (`apps/web`) | Supabase | ingest, display, kill-state route | agent polls its kill-state | - | - |

`PROJECT.json` lists the same components with their status, and under `hazards`
each hazard at the line where it bites with the properties that cover it.

## 2. Modules

| Module | Models | Abstracts |
|---|---|---|
| `KillSwitch` | the brake, the poller in two steps around its `await`, the endpoint (also the dashboard's own), the operator, restarts | body of the answer to `kill` / `clear` / `other`; URL to unset / insecure / secure |
| `SafetyCaps` | every failure code of `checkTicket`, the human ceiling, `verifyCapBinding`, `evaluateTradeGate`, `evaluateBuyGasGuard` | amounts in hundredths of a TON; a ticket stands for its hash |
| `TierGates` | a proposal under judgement while the coordinator's loops move the tier | nothing of the gates; one tier |
| `SwingEntry` | a swing position from the two gates on: `TierGates` decides what enters `PositionLife` | the tier while there is a position |
| `SwapPermits` | abstract: permits granted, moved, lost, spent | registries, hashes, ages, caches |
| `TradeExecution` | `authorizeForTier`, `executeForTier`, registry, approvals, `record_position`, the refresh loop | pool, quote and router to their outcomes |
| `SwapSettlement` | `executeSwap` and the four swaps, mutex, seqno, verification by balance, the sniper as a second signer; the wallet contract and the jetton | amounts to lots; one wallet; a seqno to "still the wallet's" |
| `SniperEngine` | `scanTick`, `buyToken`, `monitorTick`, `sellToken`, timers, table, ledger, operator handoff, crash, day change (live mode) | prices to "the router answers and no noise floor holds the exit" (`calm`); a buy to one lot; scoring, sizing and exit rules to their verdicts |
| `PositionMonitor` | the swing monitor's tick and overlap guard, audit and dead-pool caches, pool subscriptions, exits, rows, daily PnL, boot recovery, crash | prices to `up` / `crash` (beyond the stop) / `drained` (the exit value has lost what `rug-detector.ts` calls a drain); `executeForTier` to what `SwapSettlement` shows of it |
| `ExitRules`, `EntryRules` | the pure rules: EMA and MACD trend, ATR and structure stop, drain, costs, `evaluateExitPolicy`, `decideExit`; gates, score, size chain, viability | prices in percent of the entry, amounts in hundredths of a TON, fractions compared by cross-multiplication |
| `PositionLife` | one position from the launch that is gated and sized to the verdict that ends it, under either engine, with the trackers between the rules | what becomes of the verdict (`PositionMonitor`, `SniperEngine`) |
| `RateLimit` | one bucket: acquire, release, every `_tryDrain` attempt and the timers that carry it | time in units |
| `HttpRequests` | the requests of `x1000-client.ts` and `tonapi.ts` with their retries inside a slot; implements `RateLimit` | statuses to five kinds |
| `FastPath` | policies and their subscriber, the template cache (LRU, lifetime, version), `processSignal` cut at its awaits, counters | amounts, limits and the bytes of a template; pool states to an input |
| `OrderedSets` | deleting from the access list and from a source's watched pools | |
| `MarketData` | the pollers of both price sources, dead pools, the latest states | a price to the number of its moves; DeDust's list to what is always among its first 500 and what is not |
| `TokenAudit` | pool resolution, `fullAudit`, the four caches, the callers that share them | depth to known / unknown; minutes to ticks |
| `Scoring` | `computeConfidenceScore` and the execution gate, integer by integer | a grid of reports |
| `*_proofs` | theorems about the modules they extend; `Recursion_proofs`, what they need of recursive functions | |
| `MC*` | values for the constants; `MCMarketData` also has one source at a time | |

How they fit together.  `TradeExecution` ends where a swap is signed;
`SwapSettlement` begins there and says what an answer of `executeSwap` is worth;
`PositionMonitor` takes that answer (an ok means that the lot has left the
wallet, a failure means nothing) as the outcome of its sells.  `PositionLife`
composes `EntryRules` and `ExitRules` with the trackers and produces the
verdicts that `SniperEngine` and `PositionMonitor` act on.  `TokenAudit` shows how
old the verdict is that `PositionMonitor` compares with its baseline.
`TradeExecution` implements `SwapPermits`, and `HttpRequests` implements
`RateLimit`, in the sense of a refinement that TLC checks as a property.

How state maps to code: variables carry the names of the fields they stand for
and the comment beside each declaration says which; `PROJECT.json` "map" gives
the lines of every definition.  Variables listed under "History, not in the
code" only record what happened, so that a property can speak of it.  A
definition named `X_Something` beside `X` is a plausible bug in `X`, used to
show that a property can fail; no `Next` uses it.

Details worth knowing when comparing with the code:

* `TradeExecution.ExecuteWithHash` is the path with a pre-issued `ticket_hash`.
  The agent's own wiring calls `executeForTier` without a hash; approvals and
  pre-issued results are library code exercised by tests
  (`test/telegram-approvals.test.ts`, `test/safetycaps.test.ts`).  An
  authorization of the same ticket replaces the registered one, also one a human
  approved, and a hash presented with another ticket burns it: both are modelled.
* `Ttl` of `TradeExecution` counts ticks of the clock.  With `Ttl = 0` a result is
  usable until the next tick, and an approval may expire at once: every age that
  the code tells apart (fresh, expired) occurs.
* `positionsStore.upsert` always throws at this commit: its INSERT has 34 values
  for 35 columns, and one of them (`take_profit_t1_tx`) is not in the table.
  `TradeExecution.RowWrites` allows both outcomes.  `PositionMonitor` has a
  constant `UpsertCompiles` for it.  With FALSE, the code as it is, no row of a swing
  position is ever written or closed; what the run `position_monitor_upsert` makes of
  the stops of rows that an earlier build left in the database is in section 5.  The
  run `position_monitor` sets it to TRUE, since its safety properties would say little
  of a monitor that never gets to a decision.  The theorems hold for either value.
* A rug in `PositionMonitor` is a degraded audit or a drained exit value.  The value is
  per position, is compared with the best that this process has quoted, and counts
  only if that best was worth `RUG_LIQUIDITY_MIN_BASE_TON` (`Deep`).  A close forgets it.
* `SwapSettlement.StonfiTokens` are the jettons whose pool `resolvePool` finds on STON.fi.
  The monitor sells there what it holds of them, and on DeDust the rest
  (`hotpath/position-monitor.ts:573-594`).
* `PositionMonitor.HdLowWallet` says what the wallet that recovery derives for the
  LOW tier holds.  It is not the wallet that trades (`loadKeyPairForTier("low")`
  against `loadKeyPair()`, `core/coordinator.ts:218`, `dex/router.ts:1250`).  Its
  jetton wallets are not deployed, so that the balance cannot be read and
  nothing is closed; were they deployed and empty, recovery would close live rows.
* `SniperEngine.Handoff` is the operator's edit of `sniper_positions` that
  `handoffMasters()` looks for (`close_reason = 'manual_handoff'`).  A later
  close by the engine overwrites that reason.
* In `SniperEngine`, `due` is "entry_at lies further back than the maximum
  holding time".  A reprice and a second fill leave `entry_at` alone, and so
  does a new buy of a token whose row is closed, since ON CONFLICT does not
  update it: such a position starts past its time stop.
* In `RateLimit` a timer carries the limits it was set with.  A release always
  sets the limits of the DeDust bucket (`ReleaseMax`, `ReleaseGap`).
* `FastPath.UpdatePolicy` is driven as the tests drive it: nothing in the agent
  publishes a policy or fills the cache of pool states yet.
* `SwapSettlement.MeetsPoolMinimum` leaves out the minimum derived from a DeDust
  pool's reserves: that derivation is capped by the configured one and so refuses
  nothing more.
* `ExitRules.Histogram` is the code's: its signal line is a fifth of the MACD line,
  so that the "MACD corroboration" of the crossover never disagrees with it.

## 3. Runs

| Run | Instance | States | Shows |
|---|---|---|---|
| `kill_switch` | `MaxMisses` 3 (the default), one restart, all kinds of URL | 1,496 | `NoTradingInSilence`, `HaltsEventually` |
| `trade_execution` | 2 callers, 1 approval, a caution buy and an exit sell | 60,228 | `HitlHonoured`, `HaltContainment`, `HaltDrains`, `ImplementsPermits` |
| `swap_settlement` | 2 callers on 1 jetton, one kind of trouble per behaviour | 193,864 | `NoPhantomBuy`, `NoPhantomSale`, `CallsReturn`, `UnnoticedSaleIsBooked` |
| `sniper_engine` | 2 tokens, 2 scan passes, 1 tick, one kind of disturbance per behaviour | 218,112 | `ExposureBounded`, `DailyLossBounded`, `CostBasisKept`, `NoDoubleExit`, `ParkedStaysParked`, `PositionsEnd` |
| `sniper_engine_reopen` (violation) | 1 pass, 1 tick | - | a reprice re-opens a row closed under it, against the comment at `sniper/engine.ts:680` |
| `position_monitor` | 2 positions of one jetton in one wallet, 2 firings of the timer, one kind of trouble per behaviour | 1,472,040 | `NoDoubleBooking`, `NothingOrphaned`, `RugNeedsDegradation`, `WatchersCounted` |
| `position_monitor_upsert` (violation) | 1 position, no trouble, the store as it is | - | no stop is served, against the comment at `hotpath/position-monitor.ts:271` |
| `position_life` (`SwingEntry`) | both engines, prices 45, 90 and 115 %, windows of five prices, averages over 2 and 3; before a swing entry 5 balances and a grid of proposals at and around each limit, LOW and HIGH | 255,750 | `GateIsStricter`, `CapsMonotone`, `ExitsAreFunded`, `LossesAreCut`, `WinnersRide`, `WicksAreRidden`, `StaleEnds` |
| `fast_path` | 3 interchangeable signals, 2 policies out of 3 kinds, room for 2 templates | 240,504 | `TemplatesInOrder`, `JudgedByItsPolicy`, `SignalsAreCounted` |
| `market_data` | 2 STON.fi pools; 2 DeDust pools, one of them not always listed; 2 polls of a source, 1 fault | 587,637 | `ReadingsNeverGoBack`, `PricesArrive` |
| `token_audit` | 1 token, the monitor and one more caller, 2 changes on chain, 1 fault | 563,365 | `EvidenceIsRecent`, `RiskOnlyLowersConfidence`, `FaultsAreForgotten` |
| `rate_limit` (`HttpRequests`) | 4 callers, cap 1 and gap 2, releases that carry cap 2 and gap 1, 3 attempts | 91,695 | `CapKept`, `WaitersServed`, `ImplementsLimiter` |

`PROJECT.json` names for every property one mutant: a definition and a plausible
bug in it under which TLC finds the property violated in the same run.

### Bounds, and why they are enough

* `KillSwitch`: the miss counter stops one above `MaxMisses`; the code only
  compares it with that limit.  One restart reaches every state a second one
  would, since nothing survives it.
* `TierGates`: the grid has, for every comparison, a value on each side of it
  and one at it.  The theorems lift the grid.  `CapsMonotone` compares states of a
  tier, so that it would notice a comparison of balance, count, breaker, brake or
  unlocking that is turned round, and not one that reads the ticket alone (size,
  slippage, depth, score).  The gates stand in one run with `PositionLife` as
  `SwingEntry`: only a swing entry consults them, and the tier is not followed while
  there is a position, since every tier state is reached again before the next.
* `TradeExecution`: two callers race for one authorization and for one row; one
  approval can be approved once, and the history counter stops one above the
  number of approvals.  `MaxRows = 1` is the tier's `MAX_OPEN`.  More of each
  is what the refinement theorem covers.
* `SwapSettlement`: two callers queue for the mutex and contend for one seqno;
  with `Funding` 70 one buy may leave less than a sell needs.  `MaxPending = 2` lets
  a late message meet its retry.  Larger explorations with two jettons, two
  lots, and two kinds of trouble (1.1 to 3.0 million states) found nothing else.
* `SniperEngine`: with `MaxOpen = 1`, two tokens compete for the last slot.
  `MaxCost` lets a basis hold two fills; `MaxLedger` lies beyond the bound
  that `DailyLossBounded` asserts (3 against -3: the clamp at -3 is itself a
  violation).  A property names the disturbances under which it is not promised;
  the run checks it under every other one.  A longer exploration with two ticks
  and two disturbances (7.5 million states) found no violation of the safety
  properties.
* `PositionMonitor`: two positions share what is kept by jetton and by wallet
  (baseline, caches, subscription, balance); two firings are what an overlap
  takes.  The exit value of one position is worth enough to count as drained, that of
  the other is not.  `Confirm = 1`, since the counting is the subject of `PositionLife`.
* `PositionLife`: one price above the arming level, one below entry, one under
  every stop; the window is the least that the constructor allows for averages over
  2 and 3 observations, and every content of it occurs.  Such averages remember: a
  fall outlasts the recovery from it.  `Confirm` and `StopConfirm` are 2: one look
  does not confirm.  The theorems lift sizes and prices.
* `FastPath`: three signals use up two templates, so that one is evicted; two
  versions make a template current, one behind, or (after the clock) expired.
  An exploration with two tiers (3.0 million states) found nothing else.
* `MarketData`: two pools of one source stand one behind the other in a round;
  two polls are what an overlap takes; one fault comes in every kind and place.  The
  sources share nothing but the service's flag, so that one at a time has pools.
* `TokenAudit`: lifetimes of one tick each make every cache expire at each of
  the others' ages; an exploration with the audit's at 2 (2.2 million states)
  found nothing else.
* `HttpRequests`: the bucket is in the position of STON.fi's, whose releases wake the
  queue with a wider cap and a shorter gap: caps 1 and 2 for 1 and 3, gaps 2 and 1
  for 1100 and 200 ms.  Four callers leave two waiters while two slots are held; gap
  2 separates "just released", "waiting" and "over".

### Fairness

* `KillSwitch`: the 30 s interval keeps firing and the 5 s axios timeout ends each
  poll.  The operator and the endpoint owe nothing.
* `TradeExecution`: each await of `executeForTier` settles, since its HTTP clients
  have timeouts, and time passes.  Callers and operators owe nothing.
* `SwapSettlement`: every RPC call of a swap settles and the wait for the seqno is a
  bounded loop; the chain includes what it is sent; the wallet is topped up.
  `UnnoticedSaleIsBooked` also needs that the monitor's timer retries the sell of
  what its books say is held, on the DEX it has resolved (strong fairness: the gas may
  come and go).  It is about jettons sold on STON.fi; section 5 says why not of others.
* `SniperEngine`: the monitor's `setInterval` keeps firing, its requests time out
  (12 s for the router client, 8 s for TONAPI), and time passes.  Nothing
  is assumed of scan passes, the operator, or the market; `PositionsEnd` assumes
  in its premise that the router answers from some time on.
* `PositionMonitor`: the timer fires, the calls of a tick settle, a supervisor
  restarts the process, cached entries expire.  `StopsAreServed`, which only the
  violation run checks, assumes in its premise that the trouble ends, that the
  coordinator is up and that the price stays under the stop.
* `PositionLife`: the timer looks at a position that is past its deadline in a quiet
  market.  That the deadline passes or the market goes quiet is a premise of `StaleEnds`.
* `MarketData`: timers fire, requests time out, dead marks expire.  That a pool stays
  watched is a premise; that faults cease is the bound `MaxFaults`.  Nothing is assumed
  of a DeDust pool that is not always listed, and nothing is promised to it.
* `TokenAudit`: calls settle; time goes on between the ticks of the monitor
  (strong fairness, since a running call holds the model's clock for a moment).
* `HttpRequests`: requests end (timeouts, bounded attempts), due timers fire, time
  passes.  Nobody has to come.
* `FastPath` states fairness of `processSignal` in `FairSpec`; its run checks
  safety only.

## 4. Proofs

All theorems hold for every value of the constants within the named
assumptions (`LimitsAssumption` and the like, in the modules).

| Theorem | States | Rests on |
|---|---|---|
| `Gates_proofs!GraceWindow` | no trade after `MaxMisses` silent polls (`NoTradingInSilence`) | `WindowOpen`: the miss counter is below the limit while the brake is off; unlike the property it is inductive |
| `Gates_proofs!MarkFollowsBrake`, `LiftsOnlyOnContact` | what the brake's mark and its lifting depend on | the same invariant |
| `Gates_proofs!RefusalsStand`, `GateWithinCaps`, `SizeNeverNeedsHuman`, `ClampingLosesNothing` | the gate and the caps agree for every balance, size and configuration (`GateIsStricter`, `CapsMonotone`) | `CapsUnfold` turns the caps into linear inequalities, `ShareGrows` orders percentages |
| `Gates_proofs!CapHolds`, `SlotsReachWaiters` | at most the widest cap that an attempt carries (`CapKept`), and no free slot beside a queue | `NotReleased`: a request is waiting or in flight, never both |
| `Gates_proofs!RequestsUseTheLimiter`, `RequestsKeepCap` | requests with retries take every step as callers of the limiter, so that its safety is theirs | each action of `HttpRequests` is a step of `RateLimit` or a stutter |
| `Gates_proofs!ReportsAreRecent`, `AuditsHold` | no report is older than the caches together keep an entry (`EvidenceIsRecent`) | `AuditInv`, below |
| `Gates_proofs!ScoreFollowsRisk`, `GateFollowsRisk`, `RiskLowersConfidence` | a worse report never fares better in the score or at the gate, whatever its numbers (`RiskOnlyLowersConfidence`) | `LessIsCharged`: a scale with rising bounds and falling costs charges more for less |
| `TradeExecution_proofs!Refinement` | the path implements permits that are moved and never copied (`ImplementsPermits`) | `StepSimulation`: each action is a step of `SwapPermits` or a stutter |
| `TradeExecution_proofs!HaltContains` | a halt adds no executable ticket (`HaltContainment`) | the simulation and `MovesExposeNothing` |
| `TradeExecution_proofs!DeliveriesArePriced` | a delivered swap was bounded by a live quote | `PriceInv`: what is swapping is priced, or is a sell the router refuses |
| `TradeExecution_proofs!HumanIsAsked` | a caution ticket is signed at most as often as it was approved (`HitlHonoured`) | `HitlInv`: signatures and claims (callers on their way, a registered result) together are at most the approvals; each step drops a claim, adds one with an approval, moves it or spends it |
| `SwapSettlement_proofs!MutexHolds` | one caller of a tier is between its seqno and the end of its wait | `Mutex`: the queue lists the callers in line, each once, and only its head has a seqno |
| `SwapSettlement_proofs!BuysAreDelivered`, `SalesHappened` | what a swap reports is what the wallet shows (`NoPhantomBuy`, `NoPhantomSale`) | `Gaps` and `CallOK`, below |
| `SniperEngine_proofs!ParkedForGood` | a parked token stays parked (`ParkedStaysParked`) | `ParkedInv` over rows, passes and ticks |
| `SniperEngine_proofs!OneExit` | a position is sold once (`NoDoubleExit`) | `ExitInv`: what a tick still has in its queue was not sold, and an open row that was sold is the one being recorded |
| `SniperEngine_proofs!CostsAreKept` | rows know what their position cost (`CostBasisKept`) | `CostInv`: so do the snapshots of the ticks |
| `SniperEngine_proofs!ExposureHeld`, `LossHeld` | bounded exposure and daily loss (`ExposureBounded`, `DailyLossBounded`) | `RiskInv`, below |
| `PositionMonitor_proofs!BookedOnce` | an exit is booked once (`NoDoubleBooking`) | `Shape`: one tick at a time, over rows that are open, and a closed row is booked |
| `PositionMonitor_proofs!RugsAreMeasured` | an emergency exit follows an audit or an exit value that went worse while the monitor ran (`RugNeedsDegradation`) | `Measured`: what is remembered as safe, or as the best value, of a jetton that is no longer so has changed under the monitor |
| `PositionMonitor_proofs!PoolsAreHeld` | the count of a pool is that of its watched positions, and what is watched is open or was left behind by a booking that threw (`WatchersCounted`) | `Shape`, `LeftBehind`, and what adding to or removing from a set does to its cardinality |
| `PositionMonitor_proofs!LotsAreWatched` | no lot that is held is without an open row (`NothingOrphaned`), when the LOW wallet is not deployed as an HD wallet | `LotsWatched` |
| `PositionLife_proofs!ExitsFunded` | every lot bought leaves the gas of all exits (`ExitsAreFunded`), when `PortfolioPct <= 100` | `Entered`, and the arithmetic of the size chain |
| `PositionLife_proofs!LossesCut` | no branch hides the stop (`LossesAreCut`) | a structure stop, a drain and a widened stop never lie below the floor (`StopIsNotNarrowed`) |
| `PositionLife_proofs!WinnersAreHeld` | no rule but the trend closes at a new high (`WinnersRide`), when `DropPct > 0` | `Remembered`: what the trackers hold was observed, and is at most the best price |
| `PositionLife_proofs!WicksRidden` | a trend exit has all its confirmations on windows with a fall (`WicksAreRidden`), when `Fast <= Slow` | `Ridden`, and `RisingIsNotBearish`, below |
| `FastPath_proofs!PolicyBinds` | a signal is judged by its own policy (`JudgedByItsPolicy`) | `PathInv`: what the engine knows is the policy in force or one it kept while it was off, and no template is newer than that |
| `FastPath_proofs!EverySignalIsCounted` | what was received and has not fallen back is in flight (`SignalsAreCounted`) | `CountInv`, and what a step does to the sets of signals it counts |
| `FastPath_proofs!TemplatesKeepOrder` | the access list and the map of templates never part (`TemplatesInOrder`) | `Cached`: the list names each cached key once, sorted by use, and nothing was used after now; `UnlistedLeaves` says what deleting from a list leaves |
| `FastPath_proofs!NewestIsShown`, `RoundsAreSerial` | the price shown of a pool is never replaced by an older one (`ReadingsNeverGoBack`) | `FeedInv`: a source has one round, about its own pools, and what the round was answered lies between what is shown and what the pools are at |

The type invariant of every module under a proof is proved as well (`TypeCorrect`,
`GatesTypeCorrect`, `BucketTypeCorrect`).

What the proofs assume of the constants.  Sizes, limits and lifetimes are natural
numbers, and positive where the code divides by them or would do nothing at zero;
actors are finite sets where they are counted.  Beyond that:

* `SwapSettlement.ToleranceAssumption` (`MaxLots < 100`): lots are coarse, so that the
  1 % which `verifySellDelta` forgives is less than one.
* `PositionLife.MarketAssumption`: prices and lots are positive.
  `ExitRules.StopAssumption`: the ATR multiple lies where `exit/volatility-regime.ts:198`
  clamps it; stops are percentages of 1 to 99, and the cap of the widened stop is no
  tighter than the stop itself, as with the defaults (35 and 50).
* Three theorems about `PositionLife` carry a hypothesis that the defaults meet and
  `config.ts` does not enforce: an allocation of at most the whole wallet, a giveback
  drop above zero, a fast average no longer than the slow one.  What happens without
  them is in section 5.
* `SlotsReachWaiters` assumes that a release carries no narrower cap than the bucket's
  own, as is so of all three buckets.  `CapHolds` assumes nothing: for DeDust and TONAPI
  the widest cap is their own, for STON.fi it is DeDust's.
* `LotsAreWatched` is about a LOW wallet that recovery cannot read.

Recursion.  `ema`, the moves of a window and the access list are recursive functions in the model.
The library's induction theorems take an operator and so cannot be used.  The proofs
argue by the least counterexample instead, in first-order terms (`Recursion_proofs`):
`SmallestN` gives a set of naturals its least member, `AlongRange` carries a fact along
`0..n`, and `RecursionExists` shows that a recursively defined function exists, without
which nothing could be said of the CHOOSE behind it.

The sniper's exposure and loss bounds are the longest argument.  A pass reads the
open rows and the day's loss once and then buys; meanwhile the monitor sells at a
loss and the operator closes rows.  Neither bound is inductive: what has to be kept is
`Stake`, a trade between the two.  While a pass runs, what it claimed covers every open
row and fits the limit, and the day has lost less than the limit plus one lot for each
claimed token that is neither open nor being bought (`Gone`).  When no pass runs, the day
has lost less than the limit plus one lot for each place that is free.  A sale at a loss
takes a row away and pays one lot for it (`StakeFalls`); a pass that ends hands its
claims back as free places (`PassOver`).  A lot is never worth more than one trade since
no pass buys what is open (`Modest`).

What a swap reports.  "No phantom" cannot be kept caller by caller: a report is as true
as the baseline that it is measured from, and messages of attempts that were given up
land later.  `CallOK` says of a call under way what reached or left the wallet since its
baseline was read, `Gaps` what the books say beyond what is held; a report then moves an
amount from one to the other.  Two calls on one jetton and late DeDust baselines break
it, which is why the properties except them (section 5).

Wicks.  `shaken` counts observations in a row whose window holds a fall.  A window
without one has its fast average at or above the slow one (`RisingIsNotBearish`, by
recursion over the averages), so that a confirmation of the crossover always falls
on a window with a fall, and `conf` is at most `shaken` (`Ridden`).  TLC checked
`Entered`, `Remembered` and `Ridden` on the instance of the run before they were proved.

The audits.  A cache sits behind the next, so ages add up, and the sum is what has to be
bounded.  `AuditInv` says so per cache: an entry of the audit cache holds what was read no
longer ago than its own age, plus the meta data's lifetime for the admin; one of the
monitor's was that old when it was entered and has been there for at most `n` minutes,
where `n` is not its age: the code dates it from before the audit, so that it may be a
minute older than its stay.  TLC checked the invariant with lifetimes of two ticks
(664,386 states) before it was proved.

Only model-checked: liveness (`HaltsEventually`, `HaltDrains`, `PositionsEnd`,
`CallsReturn`, `UnnoticedSaleIsBooked`, `StaleEnds`, `PricesArrive`,
`FaultsAreForgotten`, `WaitersServed`) and the fairness of the limiter under
`HttpRequests` (`ImplementsLimiter`; its safety part is `RequestsUseTheLimiter`).  These
are outside this prover's reach.  Every safety property that a passing run checks is
stated by a theorem; some carry a hypothesis, named above.

No module under a theorem declares a RECURSIVE operator.

## 5. What the code does against its own words

The violation runs:

* `sniper_engine_reopen`: a handoff that the operator makes while a monitor tick awaits
  its quotes is undone by the tick, which writes back the status of its snapshot
  (`sniper/engine.ts:685`), against the comment five lines above it.
* `position_monitor_upsert`: `positionsStore.upsert` cannot be prepared (`storage/store.ts:291-314`:
  35 columns for 34 values, one of them not in the table), so that every look of the
  swing monitor throws where it writes the row back, before its decision.  For a
  position that an earlier build recorded "the static stop-loss stays the hard loss
  floor" (`hotpath/position-monitor.ts:271`) does not hold: it is never sold.

Met while modelling, with the code as the model has it (no run of its own):

* The poller lifts a halt the operator set through the API, which
  `http/read-api.ts:15-17` says takes precedence; and it lifts on any 2xx body
  without a truthy `kill`, where `core/coordinator.ts:755` says "Only lift if ...
  clear".  The dashboard's `GET /api/kill-state` answers `{engaged}`, not the
  `{kill}` that `.env.example:105-107` asks for, so that an agent pointed at it is
  never halted by it (`KillSwitch.DashboardAnswers`).
* A buy delivered just before a halt, a tripped breaker or a stale count is
  refused by `record_position` (`mcp/tools.ts:436-440`), and no stop watches it.
* A token bought again after its position closed inherits the old entry time and
  is sold at the next tick by the time stop (`sniper/engine.ts:528-530`).
* DeDust sells are verified against a baseline that is read after the send and is
  the TON balance of the jetton wallet (`dex/router.ts:838-844`, `:959`);
  `NoPhantomSale` excepts them.  The same baseline keeps a retry on DeDust from
  seeing that the tokens are gone (the TON of a jetton wallet is not zero), so that it
  may go on for ever, against `dex/router.ts:741-744`; `UnnoticedSaleIsBooked` is about
  jettons sold on STON.fi.
* Two scan passes or two ticks of the sniper may overlap, and then exceed the limits on
  exposure and daily loss, or sell twice; a crash or a lost answer between a sell and its
  row has it sold again, between a buy and its row leaves it without one.
  `ExposureBounded`, `DailyLossBounded`, `CostBasisKept` and `NoDoubleExit` name these
  disturbances and promise nothing under them.
* Two buys of one jetton at once measure each other, and concurrent buys all pass
  the gas floor, which is read before the mutex (`dex/router.ts:300`, `:532`).
* STON.fi releases wake their queue with DeDust's limits (`http/rate-limit.ts:57`):
  with cap 1 and DeDust's 3 up to three requests run at once.  `CapKept` bounds them by
  the wider cap; by the bucket's own they are not bounded.
* The giveback level is raised to the price that pays the gas back; a lot whose
  break-even is above the arming level is closed at a new high.  `WinnersRide`
  leaves such lots out.
* The sniper's volatility-widened stop never widens with the windows the engine
  passes, and the swing trend exit of a STON.fi position is never confirmed,
  since `fetchTradesWindow` has no trades of STON.fi.
* With averages of 7 and 25 one wick keeps the fast average under the slow one for
  several observations, so that all confirmations of a trend exit may come from it,
  and the exit at a new high: `exit/trend-monitor.ts:10-16` asks for confirmations
  "to avoid whipsaw on single wicks".  `WicksAreRidden` says what holds: each
  confirmation had a fall in its window.
* An allocation above 100 % of the wallet is accepted (`config.ts:223`) and spends the
  gas of the exits; so are a giveback drop of 0, which closes at the best price, and
  a fast average longer than the slow one, which reads a rise as a fall.
* `atrClose`'s doc says that it falls back to the floor with fewer than `period`
  deltas; the code averages those there are.
* `highWaterClose` is the maximum of a rolling buffer, its doc says "since entry".
* The dry-wallet check reads the LOW wallet and skips every tier
  (`hotpath/position-monitor.ts:526-529`); closing a position forgets the audit
  baseline and cache of its siblings in the same jetton; what throws between the
  row and the daily PnL leaves the PnL unbooked, and the pool of the closed row
  watched for as long as the process runs (`leaked`); a sell that landed unnoticed is
  closed as a phantom, without PnL.
* The fast path's placeholder recipient has 45 characters and is no address:
  nothing is ever broadcast from a template (`FastPath.Broadcast`), and every signal
  ends as a fallback.  The recipient wallet is not part of a template's key, so that
  a template serves other tiers.  `core/fastpath-types.ts:146-149` documents
  `fastPathExecutions` as "executed via FastPath"; `recordFastPathExecution` counts
  every outcome there, fallbacks too, and `SignalsAreCounted` says nothing of it.
* DeDust is asked for a list of pools with `limit: 500` (`market/dedust-pool-source.ts:32`)
  and a watched pool that is not in it is passed over without a word: it has no price
  for as long as that lasts.  `PricesArrive` excepts such pools.
* A STON.fi pool that answers 429 or 5xx ends the round, so that pools behind it are
  not asked while it persists; the pollers' back-off counter is never read, and
  `isFresh` compares a time with itself.
* A failed RPC read is reported as "LP unlocked" and cached as a fact
  (`security/audit.ts:106`); an age that cannot be parsed passes the sniper's age
  gate; with the default configuration the sniper's lot is below its own viability floor.
* The comment at `core/coordinator.ts:493` says that `HITL_DISABLE` makes
  SafetyCaps drop `hitl_required`; `safetycaps/check.ts` reads no such setting.

## 6. Plan

Done: what stands between a proposal and a signature, what an answer of the
router is worth, both loops that hold positions with their rules, the fast path, the
price feed, the audits and the limiters.  Left, in this order:

1. One abstract ledger of lots (bought, held, sold once, booked) that `SniperEngine` and
   `PositionMonitor` both implement, with the simulation proved as for `SwapPermits`.
2. The web application's ingest of trades and the budgeting contract of the agentic
   wallet, once the agent calls them.
3. The graph nodes and `executeTradePipeline`, once something runs them.

## 7. Not modelled, and why

* Key derivation, message building, migrations, wording and journals: no control
  of interest.  Amounts and minimum outputs of swaps are data of the router
  (`dex/minout.ts`), abstracted to lots.
* `sniper/execution-gate.ts`, `sniper/settlement.ts`, `wallet/position-manager.ts`,
  `executeTradePipeline`, `sizePosition` and the orchestration graph have no caller
  in the agent; neither have the agentic wallet and its budgeting contract.
* `ml/*` beyond the averages of the trend: floating-point features of a prediction
  that has no trained weights.
* `radar/llm-budget.ts`: the radar audits without a pool, such an audit is never ok,
  and the budget is not reached.
* The archive of prices (`market/time-series-store.ts`, `data-cache.ts`,
  `data-validator.ts`): no decision reads it.
* Transport (MCP, HTTP, webhook, Telegram, LINE) and the web app, except the
  operations that change trading state and the kill-state route: they relay.
* Dry-run and observe-only variants change nothing and are left out.

## 8. Running

    tlc -workers 2 -config KillSwitch.cfg MCKillSwitch.tla
    tlapm Gates_proofs.tla

and likewise for the runs that `PROJECT.json` lists.
