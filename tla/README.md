# Verification of the Dome WAF

The repository is a security training lab. Its one program of weight is the
**Dome WAF**, an HTTP reverse proxy that inspects requests, in two
implementations: the Rust one (`src/Dome/dome-rs`, 27 files, about 3800 lines)
and the smaller Python one (`src/Dome/dome`, `src/Dome/waf.py`, about 1100
lines). The rest of the tree (target containers, installers, Wazuh rules) is
straight-line scripts and configuration around them. This directory holds TLA+
models of the Rust WAF, their TLC runs, and TLAPS proofs.
Paths below are relative to `src/Dome/dome-rs/src/` unless they start with
`src/`.

## 1. Inventory

### The parts and how they interact

`main.rs` builds one `Engine`, `WafLogger`, `NotifierManager` and `Stats` and
serves two axum applications: the proxy and, optionally, the dashboard. Every
request is a task on a multi-threaded Tokio pool:

    proxy::handle -> challenge::verify_token      (may bypass everything)
                  -> Engine::inspect -> ReputationEngine::is_banned
                                     -> VPatcher::check
                                     -> RateLimiter::check
                                     -> rule modules
                                     -> ReputationEngine::record
                                     -> SessionTracker::record
                  -> logger, notifiers, stats -> proxy::forward -> upstream

`inspect` is synchronous but takes no lock across its body: tasks on different
threads interleave between any two operations on the shared maps.

| Component | State | Operations | What makes it correct |
|---|---|---|---|
| Rate limiter `engine/ratelimit.rs` | `timestamps`, `bans` (DashMaps) | `check` | at most the limit per client and window; no refusal without cause; a ban lasts |
| Reputation `engine/reputation.rs` | `scores`, `bans` (DashMaps) | `is_banned`, `record` | totals count only scores since the last idle period; a ban is earned, lasts, and is forgiven once served |
| Session tracker `engine/session.rs` | `map` (DashMap) | `record`, `purge_expired` | escalation rests on the current window only and does not step back in it |
| Pipeline `engine/mod.rs` | the three trackers, configuration | `inspect` | first applicable rule answers; trackers agree; forwarding is bounded; every request is answered |
| Statistics `stats.rs` | six atomics, event ring, top-N tables | `record`, `snapshot`, `recent_events`, `top_*` | the feed is the latest events in order; counters add up |
| Proxy `proxy.rs` | none of its own | `handle`, `forward` | what is forwarded was inspected; file, counters, alerts and answer tell one story; every request is answered |
| Challenge `challenge.rs` | none | `challenge_response`, `verify_token` | what the page's script makes is what the proxy accepts |
| Dashboard `dashboard.rs` | `mode` (RwLock) | `/api/*`, the page's script | shows and sets what the WAF does |
| Notifiers `notifiers.rs` | none | `dispatch`, `send_*` | each sink that wants an alert is called once, in order; requests are not held up for good |
| Logger `logger.rs` | the file (Mutex) | `log` | one line per record |
| Virtual patches `engine/vpatch.rs` | none | `check` | the first patch of the file that applies answers; more conditions match less |
| Normaliser `engine/normaliser.rs` | none | `normalise` | the rules see one text however it was encoded |
| Rules (the other files of `engine/`) | none | `check*` | match tables |
| Python WAF `src/Dome/dome/` | rate limiter maps | `handle`, `inspect`, `check` | as above, on one event loop |

### Where it is hard

* **Check-then-act on DashMaps.** `get` and `remove` of a ban, `get` and
  `insert`, the update of a score and the ban that follows from it are separate
  atomic operations.
* **Stale clocks.** `Instant::now()` is read at the top of `check` and `record`
  and used after any number of other threads' steps.
* **Two notions of time.** Reputation decays by idle time, sessions by a window
  that tumbles, the limiter by a window that slides.
* **Several accounts of one request.** Log file, counters, alerts and the
  answer are written at different places of `handle` and `forward`, between
  awaits at which the client may leave.
* **Blocking calls on the runtime.** UDP syslog resolves and sends on a worker.
* **Overlapping polls.** The dashboard's timer does not wait for its last answer.
* **Memory-only state.** A restart forgets every ban.
* **Abort on panic.** The release profile turns any panic into the end of the
  process and of every request in it.

`PROJECT.json` lists the hazards line by line with the properties that address
them.

## 2. The modules

| Module | Models | Uses |
|---|---|---|
| `WindowQuota` | abstract promise of a rate limiter: a log of admissions within a quota per span | |
| `RateLimiter` | `RateLimiter::check` between its map operations | `WindowQuota` (refinement) |
| `Reputation` | `is_banned` and `record` between their map operations | |
| `Session` | `SessionTracker` | |
| `Engine` | `Engine::inspect` between its operations on the trackers' maps, restarts, abort | |
| `RecentEvents` | abstract feed of the latest events | |
| `EventRing` | `RingBuffer` of `stats.rs` | `RecentEvents` (refinement) |
| `Stats` | concurrent calls of `Stats::record` over that ring, a reader of counters | `EventRing` |
| `Challenge` | the page's script and `verify_token` | |
| `Proxy` | `handle` and `forward`, with log, alerts and counters; hang-ups, restarts | `Challenge` |
| `Notifiers` | `dispatch` and the senders on the runtime's workers | |
| `Dashboard` | the mode, the page that polls it, the engine's own copy | |
| `Subsequence` | what a filter leaves of a sequence, without recursion | |
| `VPatch` | compilation and matching of virtual patches | `Subsequence` |
| `Normaliser` | the passes of `normalise` | `Subsequence` |
| `Screening` | the loops over both in `Engine::inspect` | `VPatch`, `Normaliser` |
| `InspectionProofs` | theorems about `Screening` (with `VPatch` and `Normaliser`) and about `Session` | |
| other `*Proofs` | theorems about the module they are named after (`StatsProofs`: also about `EventRing`) | |
| `SumTheorems` | facts about sums over finite sets, for the proofs about `Reputation`, `Session`, `Engine` and `Stats` | |
| `MC*` | constants and symmetry sets for TLC | |

Definitions whose comment begins "Mutant of" are wrong on purpose. Each stands
before the definition it alters and no specification uses it; with the
definition's body replaced by it, the run that checks the property named with
it in `PROJECT.json` must fail. They show that the properties can fail.

`Session`, `Engine`, `Notifiers`, `Dashboard` also define a `TypeOK` that documents the
types of their variables and is not among the runs' properties; it holds in
their runs when it is added to the cfg.

### RateLimiter and Reputation: processes between map operations

A request is a process with a program counter. One action is the code from one
atomic DashMap operation to the next, so that all interleavings of the Tokio
threads are explored. `ip` and `sensitive` are chosen once per request; the
score of a flagged request is chosen when `record` adds it. The clock is an
integer advanced by `Tick`; the code's `Instant`s are stored copies of it, and
`duration_since`, which saturates at zero, is `Age`.

* `timestamps[i]` holds request identities instead of `Instant`s; the instant of
  a request is `now[r]`. A Vec may hold equal instants; identities keep them
  apart.
* `bannedBefore`, `underBan` and `contested` are history variables. `contested`
  is the set of bans that were inserted while another check of the client stood
  between `get` and `remove`. No guard reads them.

### Session

`record` holds the entry's lock from its first line to its last and reads the
clock under it, so it is one action. `New` and `Reset` differ by one request, as
`SessionState::new` and the reset do. u32 additions are taken modulo `Modulus`.
The list of rule ids is left out: only `distinct_rules` reads it, and nothing
calls that. Nothing calls `purge_expired` either; `PurgeExpired` is there because it
belongs to the tracker. `log` is a history variable: the records with their times, answers and
the entries they left in the map. No guard reads it but the bound on its length.

### Engine

`Engine` composes the three trackers as `inspect` does. A tracker call is not one
step: as in `RateLimiter` and `Reputation`, a step is one operation on a shared
map or one read of the clock with the local work around it. A request goes
through

| Stage (`pc`) | Action | Code |
|---|---|---|
| `idle` | `Enter` | allowlist; `is_banned` reads its clock into `probe` |
| `gate`, `evict` | `LookupBan`, `EvictBan` | the `get` and the `remove` of `is_banned` |
| `rules` | `Screen` | steps 3 to 6; `check` reads its clock into `checked` |
| `rate`, `rateEvict`, `count`, `rateBan` | `LookupRateBan`, `EvictRateBan`, `CountRequest`, `InsertRateBan` | the `get`, `remove`, the locked `retain`/`push`/`len`, and the `insert` of `check` |
| `payload` | `Payload`, `Panic` | steps 8 to 13; `record` reads its clock into `now` |
| `add`, `reenter`, `recheck`, `reevict`, `repBan` | `AddScore`, `Reenter`, `LookupBan`, `EvictBan`, `InsertBan` | the locked update of `record`, its call of `is_banned` and its `insert` |
| `session` | `Escalate` | steps 15 and 16: `session_tracker.record` holds its entry's lock from first to last and reads the clock under it |

`Tick` lets no `Instant` of a request in flight grow older than `MaxSkew`. What rules
match is data: the verdicts of the static rules and patches, a score, whether the
path is sensitive (which limit applies) and whether one hit is in a challenge
category are nondeterministic. `compiles` says whether the payload rules' regular
expressions compile. In the repository one does not (finding 1 below); the module
explores both builds, since the rest of the pipeline is worth checking for the
build in which the pattern is repaired. `Stop` and `Restart` are the service
manager's (`src/Dome/dome-rs/install.sh`).

### EventRing and Stats

`push` and `tail` run under one Mutex and are one action each. `buf[k]` of the
code is `buf[k + 1]` here; `head` and its arithmetic stay zero-based. In `Stats`
a record is a process, named by its event: total, counter of its class, ring,
table of clients, table of rules, one step each. The reader loads the six
counters in the order of `snapshot`, one step each. `before`, `finished` and
`midway` are history variables.

### Challenge and Proxy

SHA-256 is a constant function `Digest` to sequences of hex digits. The script
counts zero *bits* (`LeadingZeroBits`), `verify_token` zero *hex digits*. A URL
is the sequence of its `_dome_tok` values. `Redirect` appends one, as the script
does; `Passes` looks at the first only, as `query_param` does.

A request of `Proxy` is a process; its actions run from one await to the next
or to the next write that others can see. `body` is what the client sends,
`held` the bytes that `handle` has read (a body over the limit is emptied),
`seen` the text the engine inspects, `sent` the bytes upstream gets. `seen` is
`Lossy(held)`, the `String::from_utf8_lossy` of `proxy.rs:91`, while the bytes
themselves are sent on. `HangUp` drops the task at an await,
which is what hyper does when the client closes. `lines`, `counted` and
`alerts` are the file, the statistics and the calls of `dispatch`, each grouped
by request. The verdict of `inspect` is free, since `Engine` models how it
comes about. `Send` may fail before the upstream is called, which the
code answers with a 500 and no record. `Own` are the steps that wait for nobody,
`Outside` those for which the client or upstream has to do something first.

### Notifiers

A request's handler and its alert are tasks on `Workers` threads. HTTP and TCP
sinks are awaited (`waiting`, no worker held); UDP syslog is not (`blocking`, a
worker held). `Delivered` and `Failed` end either; the time limits of the code
are that they end. `action_order` is kept, the default for an unknown word
included: `Settings` contains one.

### Dashboard

A call of the page is a message with a request and an answer leg, in one of the
page's `Slots`; legs complete in any order, and a call may fail at any point.
`mode` is the dashboard's, `start` the engine's, which `main` copies once.

### VPatch, Normaliser, Screening

A regular expression of a patch is the set of values it accepts, or `Broken`.

A text is a sequence of characters, each under a stack of encodings; a pass of
the decoder takes off the outermost one if it is its own. Encodings of whole
strings are the same stack on every character. The stacks include what no pattern
matches because it is written in capitals (`UPCT`, `HEX`, `ENT` for `%U003C`, `&#X3C;`
and `&LT;`): `Lower` makes encodings of them, after the rounds. `%XX` of a character
out of ASCII, full-width or not, decodes to one Latin-1 character for each byte of its
UTF-8 form, as in the code, which is why such a character is not recovered
(`Char(<<>>, "bytes")`). Digits of other scripts, which the `\d` of `&#n;` accepts and
`parse` then refuses, are left out. `TakeInput` takes any of the texts: which strings
of a request `collect_inputs` gathers makes no difference to `normalise`.

What a filter or a replacement
leaves of a sequence is `Kept(s, K)`, by the set `K` of the positions that stay; it
is `SelectSeq`, in a form that can be reasoned about. `PatchListsAssumption` and
`TextsAssumption` only say that lists and texts are sequences of the right things.

## 3. The runs

| Run | Result | Bounds |
|---|---|---|
| `ratelimiter_conc` | passes | 5 checks of one client, 2 at a time, limits 2 and 1, window 2, ban 5, preemption 1, clock to 6 |
| `reputation_conc` | passes | 4 requests, 2 at a time, scores 1 and 2 saturating at 3, threshold 2, ban 3 or 6, decay 1, preemption 1, clock to 1 past the ban |
| `session_main` | passes | 2 clients, 5 records of score 1 or 3, thresholds 1, 2, 3, max_requests 2, window 2, clock to 5 |
| `engine_main` | passes | 3 requests of 3 clients (ordinary, blocked, allowed), block mode, challenges on, both builds, limits 1 and 2 in a window of 3, preemption 1, 1 restart, clock to 4 |
| `engine_as_built` | `EveryRequestAnswered` fails | 3 requests of one client, both modes, the pattern that does not compile |
| `proxy` | passes | 2 requests, 2 addresses, 3 nonces, bodies empty, text, not UTF-8 or over the limit, 1 restart |
| `proxy_solved` | `SolvedChallengePasses` fails | 3 requests, 2 addresses, no restart |
| `stats` | passes | 3 records of 2 classes and 2 clients, ring of 2, feed of 0, 1 and 3 |
| `screening` | passes | 577 lists of up to two patches against 96 requests; stacks of up to 5 encodings on a character, of up to 3 with capitals or on a character out of ASCII; all texts of up to 4 plain characters |
| `notifiers` | passes | 2 requests, 1 worker, 12 configurations, 1 restart |
| `dashboard` | passes | 1 page with 3 calls at a time, 3 clicks or API calls, 1 failure |
| `dashboard_mode` | `DecisionFollowsMode` fails | started in detect, 2 pages with 2 calls each, 2 clicks, 1 failure |

**What passes.**

* *RateLimiter.* `WindowBound`: the requests let through within a window's
  length, less the time a thread may be preempted in `check`, stay within the
  limit. `RefusalEarned`: a RATE-001 rests on enough counted checks, a RATE-002 on a
  RATE-001 younger than the ban. `UncontestedBanHolds`: a ban is lost only through
  the remove race. `VecBounded`: a client's Vec outgrows the limit by no more than the
  checks on their way, given that a ban outlasts the window and the client has lost
  no ban to that race: each lost ban lets as many checks more push their entries.
  `ImplementsWindowQuota`: refinement of `WindowQuota`.
* *Reputation.* `TotalEarned`, `RefusalEarned`, `UncontestedBanHolds` as for the
  limiter; `ServedBanForgiven`: nothing resets a score when its ban ends, but a
  ban longer than `decay_after` makes the first record after it start from
  zero. (With the code's default, ban and decay are both 3600 s; with a shorter
  ban the old total stays and one hit bans again.)
* *Session.* `EscalationEarned`, `NoStepBack`, and what the tumbling window still
  guarantees: `TwiceTheThresholdIsCaught`.
* *Engine.* `SessionWithinReputation` relates the two accumulators of a client
  through interleavings of their map operations, stale clocks, decay and restarts.
  `ForwardedBound` bounds what the whole pipeline forwards, in spans of the rate window
  less `MaxSkew`: a check preempted after `ratelimit.rs:40` counts with an old `Instant`
  what a newer check has pruned meanwhile, so that the whole window may see one request
  more. That takes four requests of one client and a limit of two, more than this run
  has; the run and the theorem are about the shortened window.
* *Proxy.* `SameBody`: the body is read twice and inspected as text, yet what was
  inspected is the text of the very bytes upstream gets, unless a token led around the
  inspection. It does not say that these are what the client sent: a body over the
  limit is emptied before both. `FileAhead`: the file is
  never behind the counters. `FileTellsAnswer`: a LOG verdict has two lines, every
  other answered request one, except the 500. `EachNotifiedOnce`, `OwnTokenPasses`,
  and the liveness `AnsweredWhenServed`: if client and upstream play their part, every
  request is answered.
* *Stats.* `CountersAgree`, `TablesAgree`: nothing is lost or counted twice.
  `SnapshotBracketed`: how far a snapshot taken among records can be off.
  `FeedInRealTime`: the feed may permute overlapping requests only. `RingInv` and
  `ImplementsRecentEvents`: refinement of `RecentEvents`.
* *Screening.* `FirstPatchWins`, `NarrowerMatchesLess` (with its one exception);
  `EncodingDoesNotMatter`: what takes at most four rounds of decoding is seen as the
  same text whatever the encodings and their order.
* *Notifiers.* `FailureDoesNotSuppress`; `Served`: with the only worker held by
  the resolver, requests wait and are answered all the same.
* *Dashboard.* `BadgesConverge`: old answers may overtake new ones, but once the
  mode rests the badges come to show it.

**What fails, and says something about the code** (details under `findings` in
`PROJECT.json`):

1. `engine_as_built`: `engine/crlf.rs:30` uses a look-ahead that the regex crate
   refuses; the first request that reaches the payload rules aborts the process.
2. `proxy_solved`: the script appends its token to a URL that keeps its older
   tokens, and the proxy looks at the first (`proxy.rs:76`, `challenge.rs:103`): a
   client whose address has changed never gets past the challenge.
3. `dashboard_mode`: the button "switches the WAF mode at runtime"
   (`dashboard.rs:10`) for the dashboard alone (`dashboard.rs:106`, `main.rs:62`): set from
   detect to block, the WAF goes on letting through what its rules match.

**Refuted and kept as definitions.** These properties stand in their modules,
state what a reader of the code might expect, and fail. To see the
counterexample, put the definition into a cfg in the place of its properties (as
INVARIANT, or as PROPERTY if it is an action property or a liveness property) with the
constants given:

| Definition | Constants | What the counterexample shows |
|---|---|---|
| `RateLimiter!BanHolds` | `RateLimiter_conc.cfg` with 6 requests, limits 4 and 1, `Window = 1`, `BanDuration = 2`, `MaxSkew = 0`, `MaxClock = 4` | two checks at the end of a ban; the slower one removes the fresh ban of the faster one (`engine/ratelimit.rs:53`) |
| `Session!FloodAfterMaxRequests` | `Session_main.cfg` | a new session starts its count at 1 and counts the same request again (`engine/session.rs:82`): the flood block is one early |
| `Session!SlidingWindow` | `Session_main.cfg` | the "sliding" window (`engine/session.rs:6`) tumbles |
| `Engine!SessionOnlyEscalates` | `Engine_main.cfg` with `Requests = {r1, r2}`, `Ips = {a}`, no allowed or blocked ones, without SYMMETRY and VIEW | the session's challenge may replace a harder decision (`engine/mod.rs:250`) |
| `Engine!SessionBlockBans` | the same with `RepThreshold = 7` | "BLOCK + reputation ban" (`engine/session.rs:20`) rests on two independent thresholds: with reputation's above the session's, as shipped (`src/Dome/dome-rs/config.yml:27`, `:57`), a session block bans nobody |
| `Proxy!UpstreamCallEnds` | `Proxy_main.cfg` | `upstream_timeout_secs` (`config.rs:28`, `src/Dome/dome-rs/config.yml:5`) is read nowhere: a silent upstream holds a request for good (`proxy.rs:195`) |
| `Screening!QueryOrBody` | `Screening_main.cfg` | "query or body" (`engine/vpatch.rs:30`): a value in the query hides those of the body (`engine/vpatch.rs:104`) |
| `Screening!DecodedUntilStable` | `Screening_main.cfg` | "applied repeatedly until stable" (`engine/normaliser.rs:4`): a fifth layer stays (line 76), and lower-casing (line 92) makes `&lt;` of `&LT;` after the last round |
| `Notifiers!ProxyPathNeverBlocked` | `Notifiers_main.cfg` | "never block proxy path" (`notifiers.rs:2`): while UDP syslog looks its host up on the last worker (`notifiers.rs:127`), a request that is ready does not run |

Seen on the way and not checked, since it rests on a library: `main.rs:93`
writes its wildcard route in the syntax of axum 0.8, while `Cargo.lock` pins
axum 0.7.9.

**Why the bounds are enough.** Limits and thresholds are small but differ from
each other and from the window, so that every branch and both sides of every
comparison are met; in `ratelimiter_conc` the ban outlasts the window and twice the
preemption, so that a lost ban lets a request through early. Two requests at a time are enough for every race between
two steps of one check and another check; the number of requests allows a ban
to be earned, to expire and to be earned again. Clients share no map entry: one
client suffices for the limiter (the proofs cover any number) and for the
reputation engine; `Session` has two. The clock runs past one ban and one window. In
`reputation_conc` the ban of 6 outlasts `decay_after` and the delays of the calls,
which `ServedBanForgiven` asks for; under the ban of 3 a record can meet a ban that
has expired since it passed `is_banned`.
`MaxSkew` bounds how long a thread stands still between two steps. The code has
no such bound: properties that mention it say by how much a preempted thread
may weaken the guarantee. `Modulus` in `Session` lies above every reachable
total in the run: the wrap at 2^32 is not reached there. The theorems are about every
`Modulus` and name what does not survive the wrap, see section 4. In `engine_main`
only block mode is explored: the mode changes answers, and no
property about detect mode is checked there. Its `VIEW` takes states for one that
differ only in what no later step and none of the run's invariants reads: an `Instant`
whose call is over, a score after its decision, how a refused request was refused. In `proxy` two requests suffice
since requests share nothing but the tokens that `Follow` carries from one to
another; the digests put one nonce on either side of the difficulty. Three
records fill and overwrite a ring of two. Five layers of encoding are one more
than the decoder has rounds. Two alerts and one worker are the smallest pool
that can be held completely; one page with three calls has an answer
overtaken by another and a click between them.

**Deadlock** checking is off where requests are finite and the system comes to
rest when they are answered; it is on for `Stats` and `Dashboard`, whose reader
and timer never stop.

**Fairness.**

* `Engine!FairSpec`: a request's own steps (Tokio polls a runnable task) and
  `Restart` (`Restart=on-failure` in the unit file of `install.sh`). None on
  `Enter`, which is the client's doing, on `Tick` or on `Stop`.
* `Proxy`: weak fairness of `Own`, the steps that wait for nobody. No fairness of
  `Outside`: no line of the code ends an await for a body or for upstream.
  `AnsweredWhenServed` assumes it in so many words and shows that nothing in the proxy
  itself keeps a request from its answer; without that assumption `UpstreamCallEnds`
  fails.
* `Notifiers`: of `Answer` and `Step` (the runtime), and of a call's end (the
  limits of 5 s and 3 s; for UDP the resolver's own).
* `Dashboard`: of the timer and of the way of each call; failures are bounded.

## 4. The proofs

All theorems hold for every value of the constants that satisfies the named
assumptions of the modules. TLC evaluates these in the runs.

* `RateLimiterProofs!TypeCorrect`: `Spec => []TypeOK`.
* `RateLimiterProofs!WindowBoundHolds`: `Spec => []WindowBound`. The property is not
  inductive; `IInv` adds that no request's time is ahead of the clock and none
  on its way more than `MaxSkew` behind (`Fresh`), that a Vec holds only counted
  requests of its client (`Filed`), and that a counted request leaves its Vec only
  when it is a window old (`Forgotten`). When the last request of a span passes,
  `StillCounted` shows that all the others are still in the Vec it counts.
* `RateLimiterProofs!RefusalEarnedHolds`: `Spec => []RefusalEarned`. `RInv` adds to
  `IInv` that a check on its way to its ban already has its cause (`Caused`: what
  has been counted stays counted, so a cause only grows), that every entry of
  `bans` was made by a RATE-001 of its client (`Rooted`), and that every RATE-002
  was given under such an entry (`Refused`).
* `RateLimiterProofs!LimiterImplementsQuota`: `Spec => ImplementsWindowQuota`. A
  `Count` that passes is `WindowQuota!Admit` of its log entry (`CountAdmits`); the
  entries of a span are in a one-to-one correspondence with requests of
  `AdmittedIn` (`EntriesCounted`), so `IInv` gives the quotas (`LogRespected`).
* `RateLimiterProofs!UncontestedBanHoldsAlways`: `BInv` says that a ban which no remove
  raced with has an entry that lasts until it is due (`Standing`), that a remove of
  its key finds it due (`Ripe`), and that a check which saw it at its start and got past
  it did so when it was due (`Outlasted`).
* `RateLimiterProofs!VecBoundedAlways`: `VInv`. Of the entries of a Vec at most the limit
  are of checks that passed (`FewPassed`). The others are of checks that count after a
  RATE-001 of their client: they had looked for a ban before it was there, so all of
  them were in flight at one moment (`FewLate`, `FewInFlight`), and a ban that outlasts
  the window keeps the next of their kind away until they have left the Vec. The
  hypothesis on `contested` is needed: the proof led to a history of six checks that
  exceeds the bound without it, as TLC confirmed.
* `SumTheorems`: what `MapThenSumSet` of the community modules gives. It is defined
  through a recursive function; sums of all subsets exist and agree with it, because of
  the subsets on which they did not a smallest one (`SmallestSet`, from the
  well-foundedness of inclusion among finite sets) would have a smaller one. No theorem
  with an operator as parameter is used. The other proofs cite `SumOfSet`,
  `SumMonotone`, `SumSame`, `SumAdd`, `SumOfSmaller`, `SumOfClasses`; they are lemmas, not
  results about the code.
* `ReputationProofs!TypeCorrect`, and `UncontestedBanHoldsAlways` as for the limiter.
* `ReputationProofs!TotalEarnedHolds`: `TInv` adds that every entry of the map was left by
  a recorded request of its client, with that request's total and clock (`Entered`). A
  request that finds the entry young enough has the streak of the writer in its own,
  stale clocks included, and streaks only grow (`StreakGrows`), so its sum is at least
  the writer's and its own score.
* `ReputationProofs!RefusalEarnedHolds`: a ban in the map belongs to a request whose total
  reached the threshold (`Over`, `Rooted`); by `TotalEarned` its streak did.
* `ReputationProofs!ServedBanForgivenHolds`: the streak of a request recorded after the end
  of a ban does not reach back over it (`StreakAfterBan`): requests of the client are
  recorded about the ban's beginning or about its end or later (`Apart`), and the gap
  between is longer than `decay_after`.
* `EngineProofs!TypeCorrect`. `Stages` sums up where each of the 13 actions of an
  inspection leads and which `Instant` it takes; the invariants cite it. `Clocks` adds to
  the types that nobody inspects while the process is down (`Quiet`), that a request in
  flight is within `MaxSkew` of the last `Instant` it took (`Timely`), and that a session
  starts near its client's reputation entry (`Recent`).
* `EngineProofs!SessionsStayWithinReputation`: not inductive, since a score that reputation
  has may reach the session later. `Covered` counts it in: the open session and the
  scores of the requests that stand anywhere between `AddScore` and `Escalate`
  (`Pending`) are at most the total. `AddScore` adds to both sides, `Escalate` moves a
  score from what is pending to the session, and reputation does not decay under
  either (`NoDecay`), although `AddScore` works with an old `Instant`: hence the
  hypothesis with `2 * MaxSkew`.
* `EngineProofs!ForwardedBoundHolds`: `Passing` says that what passed the limiter with an
  `Instant` of the window less `MaxSkew` is in its Vec (`Stamped`), so that of any
  requests that passed in such a span the one counted last has counted all of them
  (`Limited`, `CountPasses`), and that nothing is forwarded but by the allowlist, a patch
  or a rule behind the limiter (`Refusals`). Bans do not enter: losing one to the
  remove race does not touch the Vec.
* `StatsProofs!RingCorrect`, `RingImplementsFeed`: `Spec => []RingInv` and
  `Spec => ImplementsRecentEvents`. The index
  arithmetic reduces to remainders of numbers below twice the size
  (`ModBelowTwice`); a push on a full ring is `OverwriteStep`, a growing one
  `GrowStep`, `tail` is `TailIsSuffix`.
* `StatsProofs!CountersCorrect`, `TablesCorrect`: a step moves one record from one
  set of a class to the next and adds one for it (`AddOne`); with `StatsTyped` both
  properties are inductive as they stand. `StatsRing`, `StatsImplementsFeed`: every
  step of `Stats` is a step of `EventRing` or leaves it alone (`StatsUsesRing`), so
  the theorems on the ring carry over. `FeedOrdered`: `FeedInv` says the same of the
  ring as unrolled, and that a record in it is past its push.
  `SnapshotAlwaysBracketed`: what had begun when the snapshot did and was not midway
  (`Settled`) is in every counter loaded since, and no load is ahead of what is counted
  (`Loaded`, `Snapping`); parts and total are compared by counting the classes
  (`SumOfClasses`, `SumOfSmaller`).
* `ProxyProofs!SameBodyHolds`, `OwnTokenAlwaysPasses`, `FileStaysAhead`,
  `NotifiedExactlyOnce`: from one inductive invariant, `ProxyInv`, which says for
  each stage of a request what its body (`BodyInv`: `held` is what was read, `seen` its
  lossy text, `sent` the same bytes), its token (`TokenInv`) and its
  books (`BookInv`) are; `Frame` carries it over for the requests that do not move.
  URLs hold only tokens the script made (`Made`), and `MadeVerifies` shows that
  these have enough hex zeros, from `WorkAssumption` and no other fact about the
  digest. `FileAlwaysTellsAnswer` says for each stage which lines a request has
  written so far (`Stories`). `TypeCorrect` bounds the tokens of a URL by the requests
  that have begun (`Sized`).
* `InspectionProofs!NarrowerPatchesMatchLess`: a lemma about two patches and a
  request, so it holds in every state.
* `InspectionProofs!FirstPatchAnswers`: `PatchInv` says that the patches before the one
  that is tried next do not match (`Tried`). The compiled list is a filter's result;
  `Places` shows once that a filter keeps the order and loses nothing: the positions
  that stay, numbered in their order, are a strictly increasing map onto the set of
  them. That a k-th position exists is shown by the least one that has k of them up to
  it, without induction (`PlaceExists`).
* `InspectionProofs!EncodingsDoNotMatter`: for stacks of every depth. A character in the
  loop is its input with some number of layers off (`Layers`), and five replacements
  take off exactly one round's worth of them: `Pass` says after each replacement that
  what has come off is in the order of `RoundOrder` and what comes next is earlier in it
  or still to come. So each turn of the loop lowers by one the number of rounds that
  the rest takes (`OneRoundLess`, on the number of descents in the stack), which
  `Decoded` carries through the loop. `MapFullwidth` takes off what a character of
  `Reached` may still have on (`ReachedBare`), and `Clean` looks at nothing else.
* `InspectionProofs!SessionTyped`, `EscalationIsEarned`, `EscalationNeverStepsBack`,
  `TwiceIsCaught`: from one inductive invariant, `SessionInv`. None of the three
  properties speaks of the tracker's windows, so the invariant has to: a record lies in
  the window it was filed under (`InTime`), a client's windows begin with a record
  (`Begun`) and do not overlap (`Apart`), the entry in the map is what the last
  record left (`Current`), and the counters are, modulo their width, the sum and the
  number of the records of the window, or one more (`Counted`). Every record of a window
  is in the sliding window of its last one, so an escalation rests on what is there;
  and a sliding window meets at most two of the tracker's (`TwoWindows`), which gives the
  factor two.
  `EscalationIsEarned` holds for counters of any width, since a counter that has wrapped
  is too small, never too large. The other two are false once a counter wraps: TLC
  finds both counterexamples with `Modulus = 4`. They are proved as
  `Spec => [](Fits => ...)`, where `Fits` says that within any window the scores of a
  client, and the number of its records and one, stay below `Modulus`. For the code that
  is 2^32 scored points, or requests, of one client in one window.
* `NotifiersProofs!NotifiersTyped`, `FailuresNeverSuppress`: `NotifiersInv` says that
  an alert at place n has called exactly the sinks up to n that want it
  (`Progress`).

Every invariant and every action property of the passing runs is the statement of a
theorem. Only model-checked are the liveness properties `AnsweredWhenServed`, `Served` and
`BadgesConverge` (with them all of `Dashboard`): liveness under fairness and ENABLED
are out of the prover's reach. So is induction over data in general; where the code
folds or filters, the models use a form that needs none (`Subsequence`,
`SumTheorems`).

## 5. What is not modelled, and the plan

Not modelled for good: the rule tables (stateless matches, whose result is a
choice in `Engine`), formatting of logs, notifications and pages, the start-up
code, headers and response bodies, failing writes of the log, the dashboard's
other endpoints (they read `Stats`, whose reader is modelled), and the lab
around the program.

Left open, in the order of their worth:

1. `PythonDome`: the handler on one event loop, its limiter, the exceptions of
   detect mode, the upstream timeout.
2. The composition of `Engine` with `Proxy`: verdicts that come from the trackers
   instead of a free choice.
