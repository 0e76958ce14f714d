# The ClawChat gateway in TLA+

This directory specifies the Hermes ClawChat plugin (`src/clawchat_gateway/`): TLA+ modules for its
components, TLC configurations that check them on small instances, and TLAPS proofs of what matters
most for every value of the constants. The code is the reference; `PROJECT.json` ("map") says for each
definition which lines it stands for.

    tlc -workers 2 -config MCDelivery_safety.cfg MCDelivery.tla
    tlapm ReliableDeliveryProofs.tla

## 1. The system

One Hermes process runs one `ClawChatConnection` per profile home (more during a replacement): an
asyncio program whose tasks (supervisor, reader, one worker per chat, recovery, timers, callers of
`send_frame` and of the HTTP client) share the connection's memory, and whose storage and HTTP calls
run on worker threads. The threads outlive the tasks that wait for them. Other processes share the
profile's SQLite database, its files and the account: a second gateway, command line tools, and
standalone senders.

| component | state it keeps | operations | here |
|---|---|---|---|
| Reliable inbound delivery (`connection.py`, `reliable_delivery.py`, `storage.py`, `notify_signal.py`, `standalone_send.py`) | receipt table, connection sequence, ack tracker, order gate, lanes, recovery and retry tasks | handshake with registration, read, upsert, ack, dispatch, lane turn, finish, recover, retry, teardown, stop, crash; a sibling sender | `ReliableDelivery`, `DeliveryContract` |
| Outbound frames (`connection.py`) | bounded reconnect queue, pending acks, rejected conversations | `send_frame`, enqueue, flush, ack, error reply, timer, teardown, stop | `SendQueue` |
| Instance locks (`instance_lock.py`, `connection.py`) | kernel locks, reference counts, results held by connections and refresh workers | acquire, retain, release, start, replace, standby, change of identity, stop, crash | `InstanceLock` |
| Credentials (`token_refresh.py`, `connection.py`, `activate.py`, `storage.py`, `api_client.py`) | activation row, revoked marker, session memory, flight of the refresh | poll, adopt, ask, join, refresh, rotate, persist, log out, suspend, resume | `TokenRefresh` |
| Connection supervisor (`connection.py`) | state, backoff, takeover streak, retries | connect, close codes, waits, standby, suspension, retry limit | `Supervisor` |
| Superseded installation (`install_identity.py`, `connection.py`) | durable event, memory-only block, reclaim generation, owner notice | latch, record, wait, reclaim, notify | `Superseded` |
| Activation and bootstrap (`activate.py`, `storage.py`, `config.py`) | claims, activation row, `.env`, `config.yaml` | redeem, repair, replace, seed, log out, migrate | `Activation` |
| Message ledger and batching (`storage.py`, `group_message_coalescer.py`, `adapter.py`) | ledger rows, recalls, batches, timers, busy waiters, the group's settings | claim, recall, enqueue, flush, hold | `GroupBatches`, `HeldJournal` |
| History (`history_maintenance.py`, `history_budget.py`, `storage.py`) | held journal, the conversation's row with its generation, summaries | hold, drain, recover, maintain, publish, reset, show | `HeldJournal`, `HistoryMaintenance`, `HistoryBudget` |
| Access requests and grants (`tool_requests.py`, `tool_grants.py`, `storage.py`, `tools.py`, `adapter.py`) | requests with their wakes and notices, grants | ask, send the card, confirm, grant, refuse, revoke, wake, notify, recover, expire | `AccessRequests` |
| Turn policy and tool guard (`turn_grants.py`, `host_tools_guard.py`, `adapter.py`) | snapshots of running turns, compiled rules, approvals and their codes | capture, join, narrow, decide a tool call, ask, answer | `TurnAuthority`, `ToolDecision`, `Confirmations` |
| Replies and greeting (`adapter.py`) | streamed runs and their ledger, the greeting's claim | open, edit, finalize, sweep, hush, greet | `Replies`, `Greeting` |
| Skills, sample page, widgets, notes (`skill_update.py`, `liveware_sample.py`, `widget_send.py`, `clawchat_memory.py`, `clawchat_metadata.py`) | manifest and files; row, children and app; pending document and timer; the notes' halves | check, prompt, publish; launch, watch, remove; submit, flush; refresh, edit | `SkillUpdate`, `LivewareSample`, `Widgets`, `SocialNotes` |
| State files, restart, HTTP client, tools, media, frames, prompts | little of their own | lock, replace, parse, format, request | not modelled |

How they interact: the server's frames enter through delivery, which hands them to handlers of the
adapter; the adapter claims a message in the ledger, may hold it in the history journal or a batch,
and runs a turn of the host under a snapshot of its authority; tool calls of the turn are decided from
that snapshot, may ask the owner or file an access request; replies leave through `send_frame`. The
handshake and every HTTP request take their tokens from the credentials and need the instance locks;
a refresh worker holds leases of the locks until its request is over. A logout, a suspension or a
superseded installation tears the connection down, and delivery, queue and locks must survive that.

What is hard: every `await` is a place where another task runs, and every storage call a place where
the connection can be replaced; writes commit after their task is gone; acknowledgements promise
durability to a server that then forgets; tokens are rotated by the server before they are stored
here; and two processes may do all this at once. `PROJECT.json` ("hazards") lists those places by
line, with the properties that cover them, or a note when none does.

## 2. The modules

Code between two awaits is one action; a call that leaves the event loop (storage, HTTP, a sleep, the
socket) ends one. Faults, crashes and whatever the environment starts are bounded by constants named
`Max…`, and a bound is a guard of the action it bounds.

### ReliableDelivery, DeliveryContract

The opt-in `reliable_delivery_v2` path. Variables and code: `rows` is the table `inbound_receipts`
(sequence, generation, dseq, provisional flag, status; `at` is the rowid order), `seq` the account's
newest registered connection, `claimed` the once-only ledger claim of a message; `inbox` and `base`
are the server's unacknowledged frames (external); `gen`, `link`, `state`, `stopping`, `main`, `gate`
are `_delivery_generation`, `_ws`, `_state`, `_stopping`, the place of `_run_one_connection` and
`_receipt_recovery_ready`; `trk` is the `DseqAckTracker`; `rd` the reader with the frame in its
hands; `lanes` are `_inbound_lanes`; `rec` the recovery at READY and the retry task; `seen` the
`NotifySignalObserver`. Calls of storage run on threads: a registration, an upsert and a finish are
records in `regs`, `writes`, `finishes` that commit in a step of their own, awaited or not. The
30 s retry timer cannot fire within a handshake, which has its own 10 s time-out, and that is the
only place where time is used.

`DeliveryContract` is the abstract promise (the server holds a key until it is stored; only stored
keys are handled). `KeepsContract` says the detailed module implements it, with `held` read as the
keys of the inbox, `stored` as receipts that exist or were pruned, `handled` from history.

### SendQueue

One frame per call of `send_frame`, numbered in call order. `queue` is `_send_queue`, `flushing` the
frame `_flush_send_queue` is sending, `call` what each call does or answered, `pending`
`_pending_acks`. Sockets break, swallow bytes (`deaf`) and suspend senders. History variables keep
what the server accepted, which sends raised, and which frames the flush removed or left behind
while the queue changed under it (`lost`, `displaced`). Patient calls are those to be queued when the
connection is not ready; `GivesUp` says that `reconnect_max_retries` is finite.

### InstanceLock

`owner` is the kernel's lock per file, `refs` the process's registry, `holds` the references of
connections and refresh workers. A connection goes through its start (alone or replacing the prior
one of the slot), the waits for the profile's and the identity's lock, an adoption of other
credentials, and its stop, each of which may be cancelled by the host. A refresh worker retains the
locks its client was built with, sends its request and releases. `Unlockable` names the files whose
file system has no locks: the code then goes on without.

### Supervisor

The loop that keeps one connection up: `pc` is its place, `lock` whether another process holds the
identity, `row` and `mem` the stored and the remembered pair, `rejected` the marker of a refused pair,
`streak` the takeovers in a row, `retries` and `delay` the counter and the wait, `stable` the mark
`_stable_ready_reset_done`. An action is one end of a connection with its close code, one wait, one
reading of the store or one handshake. Waits are counted in units of the initial delay. There is one
identity lock (the profile's lock and the references are `InstanceLock`'s); the recheck of credentials
that come from the environment and a refusal kept pending (which `TokenRefresh` has) are left out.

### Superseded

`disk` is the event file, `gen` the generation file, `guard` the file's lock, `failed`/`failedGen` the
block a process keeps in memory when it cannot write the file, `pc`, `flag`, `event` and `snapshot`
what each connection does and has read, `notices` the tasks that tell the owner. `began`, `blind`,
`stood` and `told` are history: the generation under which each event began, the events whose
generation could not be read or was rolled back, the generation of the last completed reclaim, and who
was told of what. One identity; a reclaim that begins while the generation is being read
does not count as overtaking the conflict; the notice's own connection cannot itself be taken over.
Events in `blind` are exempt, since the code has nothing to compare for them.

### TokenRefresh

`row` and `dbMark` are the activation row and `revoked_refresh_tokens`; `gw` the connection's memory
(credentials, markers, the suspended flag, the failure count, the refusal kept pending); `flight` the
`RefreshManager`'s refresh in progress; `caller` the tasks that ask. A pair is an activation and a
rotation number. Between two awaits a task is one step, and every await is open to the other tasks:
also the turn of the loop between asking and the refresh's first step, when its callbacks are bound to
the credentials then in memory, and the notice to the owner in the middle of a logout. The history
`strays` names the pairs that a task tied to a refresh of another pair there: it joined the flight of
another pair, or the callbacks were bound to a pair adopted meanwhile. `LogoutIsEarned` and
`RefusedNotResent` excuse those pairs and no others; finding 3 and `OnlyRequestedRotates` show what happens to them
(see the note in section 4). Sessions
bootstrapped from `.env` are in `Activation`, not here.

### Activation

A pairing redeems a single-use code against the backend and writes three slots: the activation row,
`.env`, `config.yaml`. The steps of the program between those writes, a crash between them, the
gateway's backfill, seeding and logout beside it, a cloned profile and the migration of old tokens are
actions of their own. The migration (`moving`) reads `config.yaml`, looks into `.env`, and writes the
two files, in four steps between which another process may activate, log out or die. One owner and
backend, one activation at a time; the fallback to the process's environment and the planning of a
restart are left out. History variables: `trusted` and `seeded` name the pairs for which a slot was taken
on trust or seeded by a clone, `cut` the profiles whose slots a crash or a lost write split, `overtaken`
the slot of each profile that a migration overwrote from a reading older than what the slot held.
`SlotsAgree` excuses the cut profiles, and of an overtaken one that slot alone (the note in section 4); a migration
whose reading still stood, and everything else in the profile, is judged.

### GroupBatches

The chat's lane, the coalescer's batch `pend` with its idle timer, its max-wait timer and its busy
waiter, the dispatches under way, the host's turn with what it queues, and the group's settings: the
fetches that run by sequence number, the newest one applied, the cache and the gate messages wait
at. One group; the text of a merged turn is left out.

### HeldJournal

`claimed` is the ledger, `row`, `snap`, `hand` and `term` the columns of `clawchat_held_inbound`
(state, the nonce in the snapshot, the process that recorded the hand-over, the terminal), `run` where
each message's dispatch stands and whose it is (the lane's or a drain's), `drain` the release of an
instance, `took` what the host took under which nonce. Crashes, lost links, failures and the
maintenance deadline come at any point. Exempt are messages offered while the journal was closed
(`blind`), and order is promised only without failures and deadlines, as the code does.

### HistoryMaintenance, HistoryBudget

`row` is `clawchat_history_state` with its generation, replaced by compare-and-swap by the worker, the
shielded reset it leaves behind, the turns being prepared and the observers of the host. What a fold
costs is data: the plan may fold any prefix, a block is one message, and the window shown, behind the
summary or without one, is any end of the rest that the budget allows (`Windows`, for
`recent_window_for_injection`). The history `left` keeps what the budget left out of the last window of
each session. `HistoryBudget` has what is abstracted there, as functions of a ledger of
costs, dates and authors: which entries are folded, how they are cut into blocks, what is shown.

### AccessRequests

A guest's turn calls `request_tool_access`; the owner decides on a card; the guest's conversation is
told. A row of `tool_grant_requests` is an element of `Rows` with `status`, `wake` (`wake_state`),
`claim` (`notice_claim_key`) and `notified` (`wake_notified_at`); `grant` is the table `tool_grants`
reduced to one rule for each guest and capability. Each operation of the tables is one SQLite
transaction, hence one step; what the tasks do between two of them interleaves:

- the tool call reserves a row (`Reserve`: the refusals for access, an open or recent request and the
  quota are `MayAsk`), hands the card to the socket (`SendCard`) and records it (`MarkSent`,
  `MarkFailed`); the owner can answer as soon as the card is out (`Decide`), or grant the access of
  his own accord (`Grant`, which decides every open request it covers);
- the decision's receipt is sent, and then one task for each decided row (`ReceiptEnds`) claims the
  row's wake, resolves the conversation, waits until it is idle, prepares the turn and gives it to the
  host, checking at three places that the wake is still its own (`Checked`);
- a real turn of the guest carries the notices of failed wakes (`TakeNotice`), after taking wakes and
  leases older than ten minutes for dead, and consumes or releases them when the host has answered;
- a start that reaches READY recovers the wakes that are left (`Recover`); `Disconnect` cancels the
  wakes' tasks but not the turns, `Crash` ends all of them.

Time is the set of rows that are past the thresholds the code compares with (`cooled`, `aged`,
`overdue`, `lapsed`), reached at any moment. `told` counts how often the host took a decision and
`doubted` names the rows for which the record of a delivery was lost (an error after the host took the
event, a stop in between) or whose ten-minute lease ran out under a task or turn that still goes on:
there a second delivery is the price the code pays for not losing the first. Each guest asks from one
conversation, and rules for single tools or for all tools are left out, so `LiveCardsAreOpen` says
nothing of a capability whose tools are granted one by one.

### TurnAuthority, ToolDecision, Confirmations

`TurnAuthority`: `reg` is the registry of turn snapshots, `phase` each input's way through the
adapter, `held` the owner's messages that wait for a guest's turn, `run`, `pend`, `steer` the host,
which may run, merge or queue an input as it likes, `call` an orchestration call between its check and
its handler. Left out: the texts of a downgrade, the origins of released turns, holding of granted
guests' inputs, and the disconnect.

`ToolDecision`: the answer of the tool hook as a function of the frozen rules, the host's abilities
and the call, in the order of its stages; the catalogue and the schema's toolsets are computed by
other code from the same rules, and the model has both. Tools are sets, in place of the code's tables
and name patterns. Path normalisation and shell parsing are left out.

`Confirmations`: the host's queues of waiting requests (external), the plugin's routes from codes to
requests, the cards, the owner's replies by code, by quote or alone, and the confirmations of slash
commands. Exempt are replies that reached a request before its card did (`stray`) and prompts that
failed while another was pending (`crossed`).

### Replies, Greeting

`Replies`: the frames of one direct chat's runs (`run`, the `ledger` of open replies, what is on the
`wire`), with the sweeper, the host's writer and its aborts between two frames of one call. A text is
one of six kinds that the code tells apart. The host ends its writer before the turn's typing stops.
Groups, media, status notices that are held back, the reasoning prefix and command receipts are left
out. A run whose writer was cancelled between two frames is exempt (`torn`).

`Greeting`: the claim columns of the activation row, the tasks of each READY, and the visible sends of
the conversation. An unrelated visible message counts as the greeting, as it does in the code.

### SkillUpdate, LivewareSample, Widgets, SocialNotes

`SkillUpdate`: one file per skill and the manifest, two writes apart; check, prompt, download outside
the lock, publication inside it, load at start, and crashes in between. A skill that is not bundled
and whose file a crash cut off from its manifest is not healed by the code and exempt (`cut`).

`LivewareSample`: the row, the two children with their watchers, the start and relaunch ladders, each
await of a launch a step. An agent that an earlier process left running (`left`) never dies; a URL is
one value.

`Widgets`: one key of the throttle with its clock, timer handle, pending document and deliveries, and
the lookup of the owner's chat under its lock. Chats' cache is left out. A delivery whose task is
cancelled before its first step never runs its `finally`: `sending` stays raised, as in the code, and
later snapshots wait for the timer. One dropped by a shutdown before its task ran is exempt (`dropped`).

`SocialNotes`: the metadata and the body of one conversation's notes, written by refreshes and by
tools under the file's lock, with the versions of signals. When the deletion of an unknown conversation's
note fails, the note stays and its version goes, as in the code. The deletion by a tool that got a 404
(`tools.py:814`) is left out. The code has no order between two reads of the same version, so the
older may overwrite the newer; nothing here says otherwise.

### The MC modules

`MCDelivery` has scopes of one module. The other passing runs explore several components, each alone:
`MCConnection` (locks, queue, supervisor, takeover), `MCProfile` (credentials, activation, skills, sample,
greeting, widgets, notes), `MCTurns` and `MCLive` (eleven components) extend one module and hold an INSTANCE
of each of the others, whose variables are the shared slots `x1`, `x2`, …; `part` names the component and
never changes, and the slots a component does not use stay 0. The state space is the disjoint union of the
components' own; an invariant `XSafe` is the conjunction of its module's under `part = …`, and a temporal
property the conjunction of `[]<>` of states, which for constant `part` means each component's own. In
`MCLive` a conjunct of the fairness condition is, for constant `part`, one conjunct of the component's own.
In `MCProfile` the tasks that ask for a refresh are symmetric, in `MCTurns` the turns that may carry a notice:
no action or property names one, and these runs have no liveness property. `MCReliableDelivery`, `MCSendQueue`, `MCTokenRefresh` and `MCConfirmations` serve the
runs that exhibit a violation.

A definition under a comment "Mutant:" is a faulty variant of the one it stands before; no
specification uses it. It shows by substitution that a property depends on that definition.

## 3. What the runs check

All runs allow deadlock (`CHECK_DEADLOCK FALSE`): behaviours end when the bounds on sends, sockets,
starts or activations are used up, and a stopped gateway stops.

| run | instance | checked |
|---|---|---|
| `delivery` | three scopes of one instance with 2 connections: a message sent twice with one storage fault, stop or crash (with two for a single copy of it or of a signal); two messages of a chat, or a signal, with a stop or crash; one message with a standalone sender and a suspension | types; acknowledged frames are durable (`AckedIsDurable`); a done receipt was handled (`NothingDropped`); the live connection is never fenced and signals have one handler (`OneReader`); turns begin in sending order and a pending receipt no handler has had has an owner (`HandledInOrder`); receipts move forward, written by the newest only (`ReceiptWrites`); the contract (`KeepsContract`) |
| `connection` | locks: 2 processes, 3 connections, 2 users, a worker each, an unlockable home. Queue: 3 calls, bound 1, 2 sockets. Supervisor: 2 pairs, one without refresh token, 3 ends, 2 retries, a floor of 3 units for each takeover in a row and a cap of 5. Takeover: 2 connections of 2 processes, 2 conflicts, 1 reclaim, fault and restart | the registry's counts and exclusion between processes; what a caller of `send_frame` may conclude, and order (`QueueSafe`); only usable pairs connect; a reclaim stands and the owner is told once (`TakeoverSafe`); every takeover in a row is waited at least for the floor of all of them, up to the cap; no stale first refresh, no refresh once taken over (`ConnectionSteps`) |
| `profile` | credentials: 2 tasks, 2 activations, a rotation each, 2 mishaps, every await open; activation: 2 profiles, an activation with a code that is fresh, an agent's reconnect code or spent elsewhere, a seed, a logout or a fault, migrations; skills: a gateway and an older command line, 3 skills, 2 checks, an edit by hand, a crash or a failure; sample, greeting, widgets and notes with a fault or crash each | memory is never ahead of the store (`MemoryIsStored`); only the pair in use is replaced (`OnlyOwnPairReplaced`); what is logged out was refused, or tied to another pair's refresh (`LogoutIsEarned`), and is not sent again (`RefusedNotResent`); a code is spent on this profile's agent, with the device it was paired with (`ActivationSafe`); the three slots agree (`SlotsAgree`); the manifest is true, only what the owner saw is applied, and whole, what was delivered is known to the host (`SkillsSafe`); one app, no child unwatched; one greeting; a pending widget has a timer and starts are a minute apart; notes keep both halves; removed apps stay removed, snapshots go forward and to their owner only (`ProfileSteps`) |
| `turns` | access: 1 request, 2 turns, a fault or a stop; groups: 2 of 3 messages (plain, mention, command); journal and its messages: 2; history: 4 messages, 1 plan and fault; budget: ledgers of up to 4 entries; authority: 1 owner, 2 guests, a receipt and a wake; tools: 2 people, 2 rules; approvals and confirmations: 2 each; replies: 1 run, 2 sweepers | cards are unique and needed, decisions told once, records true; held batches have a flusher and leave in order, settings are the newest; held messages reach the host under one nonce and in order, interrupted ones are told once; an informed session was shown everything but what the budget left out of its last window, and a renewed one follows the fold; a turn never has borrowed authority, tool decisions agree with every speaker's rules and with the catalogue; a call runs on the answer to its own card; one reply stands for a run; summaries only grow, no stale check (`TurnSteps`) |
| `live` | eleven components on smaller instances, each under its own fairness | callers are answered, messages handled, standby ends (`TransportLive`); the supervisor recovers, the sample runs again, every task that asked for a refresh returns, and memory and store agree again (`ProfileLive`); decisions are told, batches leave, held messages and held turns are settled (`TurnsLive`) |
| `delivery_drop_sender`, `sendqueue_hang`, `token_joined`, `history_renewed_twice`, `over_code`, `backoff_stale`, `repair_device` | the smallest instance of each finding of section 4 | the one property each finding names is violated |

Why the bounds are enough. Two connections give an old and a new writer, a late registration, an
orphaned write and a replay; a third adds no new relation, since fencing compares with the newest
only. One message sent twice gives the provisional and the final copy; two messages of one chat are
needed for order, and more repeat pairs. A queue of one overflows on the second frame, with a head
that changes under the flush. Two processes and three connections give replacement and standby at
once; two conflicts, one reclaim and a restart give an older event that must not come back. Two
activations and a rotation give "another pair" in both ways; two mishaps make a suspension (two failed
reads). Two retries give the supervisor takeovers in a row: the floor of the second
is above the first's, and over the cap. Two profiles and the one that was paired before give a clone, a
repair and an activation that a migration overtakes. One request with two turns has every race
for its decision: the wake of the owner's task, a recovered one and two notices. Two guests and an
owner give a merged, a queued and a held turn at once.

Larger instances were explored while the modules were written and are too long for the regular runs:
delivery with mixed kinds of frames (2.2 million states) and three acknowledged frames (1.8), the
queue with three calls and three sockets (4.1), access requests with two rows (3.4), with a fault and
a stop together (0.4), the supervisor with three pairs (1.3), two owners and greetings in a turn (0.5 and 1.0), two changes of the rules
(1.0), two replies of the owner (0.2 each), two kinds of events in the journal (0.4), a longer clock
for the widgets, credentials with three mishaps (1.0), activation with a seed, a logout and a fault together
(3.3), skills with a crash and two failures (1.1), widgets with a drop and a failure (0.5), three connections taken over (4.5, not to the end).

What is limited on purpose: the `requests` part of `turns` has a fault or a stop but not both; the
`delivery` part of `live` has one mishap, and its `tokens` part two activations or two mishaps but not both
(`OneKind`; `profile`, which has both, checks safety only); the `activation` part of `profile` has one of a
seed, a logout and a fault, its `skills` part a crash or a failure, and its `widgets` part a drop or a failure
(`Mishaps`); `NothingDropped` and `OneReader` say nothing of behaviours with a
standalone sender (finding 1), the former nothing of those that left READY (a hazard below).

Fairness. Weak fairness stands for the event loop and the thread pool: what can run does run, timers
ring, and handlers that began end. Strong fairness in `TokenRefresh` is on a definite answer of the server only, and in `Supervisor` on noticing
a changed row, since faults and other tasks can disable these again and again but only finitely often, as
mishaps are bounded. Nothing is assumed of the environment where its silence is excused: it need not send, fail,
stop, suspend, activate or reconnect to a dead server. In `SendQueue` the calls, and in `InstanceLock`
the host's stops (except the one a replacement waits for), are not fair. Where only the environment
can bring the good thing about, its part is assumed and said: in `AccessRequests` the conversation
becomes idle, the guest writes again, the host answers and a stopped process is started again; in
`LivewareSample`, `HeldJournal` and `GroupBatches` the connection comes back and the host's turns end;
in `Superseded` a reclaim that began ends or dies. It is not assumed that the owner decides, or that a
start reaches READY.

## 4. Findings

1. A standalone sender drops the gateway's pending receipts (`standalone_send.py:95`): it shares the
   account and the database, recovers every pending receipt at its READY with the handler that drops
   everything, and marks it done. Its comment says ephemeral sessions consume nothing on the real
   device's behalf. Run `delivery_drop_sender`.
2. The flush removes a frame it has not sent (`connection.py:2607`) when the queue's head changes
   while it sends; the caller of that frame is never woken. Run `sendqueue_hang`.
3. A refresh joined for another pair takes over that pair's refusal (`token_refresh.py:200`) and logs
   out a new activation. Run `token_joined`.
4. A session is renewed twice for the same pending work (`history_maintenance.py:1310`): the reset
   outlives the deadline, a released message writes the row first, and the reset's own write is refused.
   `docs/history-budget.md:87` says it is never started twice. Run `history_renewed_twice`.
5. The code of an approval that is over resolves another request of its session
   (`adapter.py:8867`): routes are pruned by whether their session blocks.
   `docs/architecture.md:361` says of such a code that nothing is resolved. The same page qualifies it: the
   code selects the session and not the request (`:366-369`), and a route goes when its session blocks no
   more (`:375-379`); that a code that is over answers another request follows from neither. Run
   `over_code`.
6. After one stable connection, connections that never become READY reset the delay
   (`connection.py:1862`) and do not back off; `docs/client-integration.md:1521` wants all to. Run
   `backoff_stale`.
7. Pairing a logged-out identity again presents a fresh device id (`activate.py:414`) although the row
   still has the paired one; `docs/configuration.md:84` gives the row's id the first place. Run
   `repair_device`.

Noted without a run of their own. Two properties of the modules fail too, as TLC shows on the smallest
instances. A refresh binds its callbacks one turn of the loop after its request was made (`connection.py:564`):
a new activation that the poll adopts in that turn is replaced in the row by the rotation of the old one.
`docs/token-refresh.md:546` says that only the request's original pair is replaced, `:551` that a late
result cannot overwrite a newly adopted activation (`OnlyRequestedRotates` in `TokenRefresh`, on the instance of
finding 3). And the migration of old tokens writes `.env` (`activate.py:718`) by what it saw there 27 lines
before: an activation of another process that has written it meanwhile is overwritten with the old pair,
and its `config.yaml` with the copy read at the start; its own comment says "env wins — never overwrite"
(`activate.py:652`; `EnvWins` in `Activation`, with one profile, two codes and no seeds, logouts or faults).
As hazards: a frame waiting at the order gate when READY is left is
ignored and its receipt marked done (`connection.py:3226`); a widget's delivery that is cancelled before
it has begun leaves the later snapshots to the timer (`widget_send.py:309`); a start that returns
in standby or without credentials does not recover pending wakes (`adapter.py:1370`, against
`docs/non-owner-boundaries.md`: "Startup dispatches unexpired pending wakes"; `LeftPending` names the
rows concerned); a request whose call died before its card was sent answers repeated requests as if
the owner had been asked (`tools.py:1879`, against `docs/tool-grants.md`: "Only successful sending
permits"); a recovery may mark a signal done that the reader is still handling; and the observer
remembers a signal before its handler runs (`connection.py:3006`), so that when the teardown cancels
the handler and keeps the receipt pending, the next connection's recovery takes it for a duplicate and
marks it done unhandled (`PendingHasOwner` excuses such a signal; `docs/client-integration.md:1439`:
"inline handlers mark done/failed on completion/error"). Differences from the docs met while modelling: an abnormal close after a long READY does not reset the delay
(`docs/configuration.md:455`); the order in the watchdog of a maintenance
(`history_maintenance.py:1175`, `docs/history-budget.md:73`); a default behaviour text is blanked by the
next refresh of a note (`clawchat_memory.py:208`, `docs/reference/prompts.md:14`); the row of a cloned
profile may be seeded with the pair it was cloned with (`connection.py:1123`, `storage.py:1447`).

## 5. What is proved

The proofs assume the named assumptions on the constants, which say what sets and functions the
constants are; the bounds are arbitrary numbers. `KeysAssumption` keeps messages, signals and the
control mark apart and `OwnersAssumption` the names of chats and of the other tasks that handle frames,
as the types of the code do. `TakeoverConstants`, `SupervisorConstants`, `JournalConstants`,
`ConfirmNames`, `GreetingConstants`, `MaintenanceAssumption` and `AuthorityNames`, the hypotheses of the
theorems about `Superseded`, `Supervisor`, `HeldJournal`, `Confirmations`, `Greeting`,
`HistoryMaintenance` and `TurnAuthority`, are operators because the MC modules instantiate those
modules; they state them, as assumptions, of the instances they run. That of the supervisor says that
the limits are numbers, that the floor's unit is at most its cap (60 s and 600 s in the code), and that
the environment's pair is the first one minted, or none; that of the greeting that there is a pairing;
the journal's and the confirmations' that `NoMsg` is no message and `None` no confirmation; the
history's that its bounds are numbers and the commands messages; the authority's that the inputs are
finitely many and each of one kind (a guest's is no notice, receipt or event of the host). The theorems
about `GroupBatches` assume nothing. Eight modules hold proofs (`ConnectionProofs` those about
`Supervisor`, which it extends, and `Superseded`, which it instantiates; `TurnsProofs` those about
`HeldJournal`, which it extends, and `GroupBatches`, `Confirmations`, `Greeting` and
`HistoryMaintenance`, and `AccessRequestsProofs` those about `AccessRequests`, which it extends, and
`TurnAuthority`); their theorems are listed in `PROJECT.json`.

**Delivery.** `ReliableDeliveryProofs`: `DeliveryTypes`; `AckedFramesAreDurable`. Durability of what is
acknowledged is not inductive: the ack is sent from the watermark, so the invariant `DurabilityInv`
adds that every number the tracker covers names a stored frame (`WatermarkInv`), that the write the
reader waits for is the number it read last (`ReaderInv`: only then may its commit be recorded), and
that an absent row gives way to any write (`AbsentInv`: otherwise an old writer's refusal to update
could be taken for success).

It ends with `DeliveryKeepsContract`, the refinement of `DeliveryContract`. Every step
maps to a step of the contract or a stutter: a push adds a held key, an ack forgets keys that
`DurabilityInv` shows stored, an upsert or a pruning moves `stored` forward, and a handler may run only
on a stored key. The last needs an invariant of its own, `TasksHoldStored`: whatever a lane, a
recovery, the reader after its write, or a pending status update holds has a receipt or had one.

`DeliveryHandlingProofs`, in four parts:

- `ReceiptsMove`, the action property `ReceiptWrites`, from the types and `DurabilityInv`: a late
  write, a replay and a late status update leave a row or move it forward.
- `OneReaderReads` (`OneReader`), from `HandlingInv`. Its parts: where the reader, the supervisor and
  the recoveries can be together (`PlaceInv`: without it a registration could end READY under a
  recovery that still runs); a connection that reads is registered with the newest number unless a
  sender ran (`WriterInv`); a status update that a task waits for is the update of the frame in its
  hands, and nobody's for the others (`OwnerInv`: otherwise a commit would wake the wrong task); the
  observer remembers every signal in a handler (`SeenInv`), which excludes the second handler; and the
  recoveries defer signals only (`DeferredSignals`).
- `DoneWasHandled` (`NothingDropped`). A row is finished by a status update, which may be started long
  before by a task that is gone, so `DoneInv` says of every update on its way, not only of rows, that
  its message was claimed (and that a recovery itself notes only signals), and `ClaimInv` that a claimed
  message was handled and that a lane's worker has only claimed messages in hand: a second lane that
  finds the claim taken calls the message a duplicate, and that may be so only for this reason.
- `OrderedHandling` (`HandledInOrder`), two claims with an invariant each.
  *Every pending receipt has an owner.* `AccountInv` names the owners while the connection is up: the
  message was claimed, the signal seen, its frame waits in a lane, the reader has it before the gate,
  or a recovery holds it, which a recovery that has not succeeded, or is asked to run again, does for
  every key (`Holds`). It rests on `WriteInv` (of the newest connection there is one write at most, and
  the reader waits for it: a late commit would make a row pending that nobody holds), `InHandInv` (what
  is being noted was seen, and no recovery leaves rows behind), `FreshInv` and `ReadyInv`.
  *Turns begin in the order of sending.* `OrderInv` follows a message from the server to its turn. What
  was sent before a frame is stored, or before it in the inbox (`SentInv`, `InboxOrder`), so it is
  stored when the frame is written (`ReadInv`, `StoredOrder`) and, until it is claimed, its row stands
  before the frame's row (`AtOrder`, which pruning and the reuse of a row do not disturb). In a lane it
  was claimed or stands before the frame (`LaneOrder`, with `LaneChats`), among the rows of a recovery
  it was claimed, is queued, or has an earlier row (`RowsOrder`), and turns follow the heads of the
  lanes (`TurnsInv`). The order gate is where the two claims meet: the frame that passes it was sent
  after messages that a crash left pending, and that these are in their lane by now follows from
  `AccountInv`, because without failures the gate of a READY connection is shut until the recovery has
  queued its rows (`CalmInv`). `OwnersStay` and `TurnsFollow` draw the conclusions.

**Outbound frames.** `SendQueueProofs`: `SendQueueTypes`; `CallersAreOwned` (a parked caller has a
timer or a place in a queue that is not stopped) and `TrueIsAccepted`, two parts of `QueueSafe`;
`QueueIsSafe` (all of it: besides these, False means unsent, the server reads frames in the order of their calls, and once). The
order of what the server has read is about frames that are still to be sent, so it is not inductive:
`QueueInv` says that the queue itself is in the order of the calls (`CallsInOrder`, `InOrder`), that a
frame not yet called is nowhere (`FreshIsNowhere`), that the frame being written is ahead of what is
queued (`WritingIsAhead`, `YoungerThanRead`), that what was read is queued no more (`ReadAndQueued`)
and that a frame answered False is not queued (`QueuedNotRefused`), each except for the frames whose
send raised or that the flush missed; the queue is cut at either end or extended at either, and each of
the four keeps the order for a different reason.

**Locks.** `InstanceLockProofs`: `LockTypes`; `LocksAccounted` (`refs` is the cardinality of the
holders and the kernel lock follows it), from which `RequestsExclude`, `RefreshesExclude` and
`ReadyExclude`, together `ProcessesExclude` (`Exclusion`), follow with `RequestsAreBacked` (a request on
the wire holds the lock of the identity it is for) and two facts on new connections and replaced slots.

**Takeover.** `ConnectionProofs`: `TakeoverIsSafe` (types, a completed reclaim stands, the owner is
told once) and `TakenOverDoesNotRefresh`. That the event on disk began after the last completed reclaim
(`DiskInv`) rests on a comparison made earlier: a connection that settles its conflict has in
`snapshot` the generation its event began under, and a process that failed to write has it in
`failedGen` (`SnapshotInv`), and generations only grow (`GenerationInv`). An event that is not settled
yet is nowhere else (`UnsettledInv`, with `EventsInv` for fresh numbers), so two connections never
settle the same one. The owner is told once because an epoch of reclaims has one event on disk and
one notice (`NoticeInv`), which lives only while its connection stands by. `FlagInv` gives the
second theorem: the flag is up from the conflict to the release.

**Supervisor.** `ConnectionProofs`: `UsablePairsConnect` (`SupervisorSafe`), `RotatedPairsStay` and
`EvictionsAreWaited`. A pair in memory is not known to be rejected (`RejectedInv`), because what is
rejected was minted before the newest pair (`PairsInv`); a pair that was rotated during the standby and
is still in memory has its successor in the row (`RotatedInv`) and its recheck still to come
(`AwaitedInv`); `PlaceInv` says what the loop holds at each place. That the waits follow the ends of
the connections is `StreakInv`: the streak the code counts is the run of takeovers at the end of the
history.

**Journal.** `TurnsProofs`: `HandedUnderOneNonce` (`HandedOnce`), `TakenInOrder` (`LedgerOrder`)
and `InterruptedToldOnce` (`ToldOnce`), the parts of `JournalSafe`, from one invariant, `IInv`. A message
that is being dispatched has its row open and is in the hands of its lane or of the drain that waits
for it (`RunInv`: two dispatches of one message would need two nonces), and the ledger names each message
once (`LedgerInv`). A nonce that was given to the host, and that of an offer on its way, is the one in
the snapshot as long as the message may be given again (`NonceInv`); so a replay after a crash or a
refusal repeats the nonce, unless the offer was made with the journal closed. What was told is marked
and its row stays closed (`ToldInv`). The order is about calm runs, without failures, lost links, crashes
and deadlines. There every open row has somebody, its dispatch, the maintenance that holds it or a
drain, which leaves no row behind that it tried (`OwnedInv`); and whatever is still to come was claimed
after what the host has taken, and what is being dispatched is the first of it (`FirstInv`). The two
need each other: a message may be offered past an earlier one only if that one is nobody's.

**History.** `TurnsProofs`: `InformedIsShown` (`InformedSession`), `FoldBeforeRenewal`
(`RenewedAfterFold`), the parts of `HistorySafe` but its types, and `SummaryGrows` (`SummaryKept`), from
one invariant, `HistoryInv`. The row is read by turns, runs and resets long before they replace it. What
makes the compare-and-swap enough is that the row grows in every step (`RowGrows`): a copy that is not
the row is of an older generation, and its summary and its boundary are behind (`CopiesInv`), so a
writer whose generation is current holds the row itself. The interval a run set out to fold is its copy's
summary, what it has still to fold, or left for the next run, and what is to fold comes next without
gaps (`WorkInv`); the summary therefore stays exact under `Fold` (`SumInv`), and the reset of a run that
left nothing commits over a summary that holds all the plan set out to fold, whatever became of
the row since. That an informed session was shown everything, but for what the budget left out of its last
window, needs the lane and the host: the turns before one that runs are done (`TurnOrder`), a turn that
carries the history accounts for all after its row's boundary, in its cover or in what it left out
(`CoverInv`), so a request observed in the session it was made in, with a current row, informs a session
that has seen every other turn so far, and each later turn adds its own message (`ShownInv`).

**Batches.** `TurnsProofs`: `HeldIsFlushed`, `OneBatchAtATime`, `GateOpensForNewest` and
`CacheStaysNewest`, all of `GroupsSafe` but its types and the order in which the host takes messages, which
is stated over concatenated batches and stays with TLC. One invariant, `BatchInv`, gives the four. The
chat is marked busy while a batch is on its way (`BusyInv`), so neither a timer nor the lane flushes a
second one; a dispatch the lane waits for is its own and its only one (`LaneInv`); nobody waits at an
open gate (`GateInv`: the time-out of a wait for an older refresh would put that one in the place of the
one given up last); and what the newest refresh was answered is the setting until a change is
signalled (`AnswerInv`), so applying it is safe whenever it comes.

**Confirmations.** `TurnsProofs`: `AskedCallsAreAnswered` and `BareWordAnswersNewest`. Several paths mark
the record of a call, and the host runs it later on its own word and that record, so `AnsweredInv`
says of every record that says "once" that the owner said so of its card (or of an older card with its
code): a decision for several records, or by a word with a scope, comes out as "deny" (`DecidedOnce`),
and a reply reaches the code it names or the only one pending (`MeantBy`). The second needs the same
of prompts still on their way (`PromptInv`). That a failed card denies (`FailedCardDenies`) filters the
host's queue and stays with TLC.

**Greeting.** `TurnsProofs`: `OwnerGreetedOnce` and `MarkIsOwn`. Unless the pairing is excused, its turn
holds the row's claim and the row is unmarked (`RowInv`, with `ClaimsInv`: claims are not shared), so
a second turn cannot claim it; and whoever has greeted is there until the row is marked (`OnceInv`:
otherwise the claim would be free again after the greeting). `SeenInv` says what a turn may conclude
from the count of visible messages: if it rose since the turn began, a message went out while a turn of
its pairing was under way.

**Credentials.** `TokenRefreshProofs`: `RefreshTypes`; `MemoryNeverAhead`; `OwnPairOnly`
(`OnlyOwnPairReplaced`); `LogoutsAreEarned` (`LogoutIsEarned`). No gap of the event loop is assumed away.
The invariant `Inv` says where pairs come from: those in memory and with tasks that were told "success"
were in the row (`GoodMemory`, `GoodCallers`, `Stored`), a flight is for a real pair (`GoodFlight`), and a
refusal is kept pending only for the pair in use and during a suspension. `OwnPairOnly` follows because
storing and blanking compare the row with the pair the callbacks are bound to, whichever that is. That a
logout is earned needs `RInv`: a refusal takes with it the flight's pair, which the server refused, the pair
its callbacks are bound to and those of the tasks that joined, and the latter are the flight's pair or a
stray (`FlightIsTied`, `WaitersAreTied`); so every marker, every pending refusal, every logout half done and
every task told "permanent" names a pair that was refused or strayed (`MarksAreOver`). Which strays there
are is not bounded by the theorem: finding 3, and the late binding of section 4, are two ways to become one.

**Access requests.** `AccessRequestsProofs`: `TypesHold`; `CardsStayOpen`; `DecisionsToldOnce`;
`DeliveriesRecorded`; together `CardsStayRight`. That a decision is told once is not inductive:
`Records` says for each row who may still tell it. A row not in doubt is told by the host's call of its
wake or of the one turn that carries it (`Once`: the two exclude each other, and a failed wake nobody
claims was told to nobody); a claim is held by a turn that carries the notice, and what was accepted
was told (`Sound`, which holds of doubted rows too). `RecoveryRecords` is the step where it could go
wrong: a wake or lease taken for dead.

**Authority.** `AccessRequestsProofs`: `NothingBorrowed` (`NoBorrowedAuthority`), `RestIsOwners` (`OwnerAtRest`)
and `ChecksAreFresh` (`NoStaleCheck`), from one invariant, `AuthInv`. What must hold when a call is judged
is established much earlier, by steps of other actors. From its announcement to the binding of its own
turn a guest's input narrows everything: all that is registered loses the owner's verification when it is
announced, and when it is registered all that is live, and all that comes after, has no more than the
guest (`SnapsOf`, `RegisteredSnaps`: a registration weakens what it overlaps with and is weakened by it,
and what an announced input overlaps with includes what an earlier batch consumed). A guest's input that
the host has is still announced, or a turn is bound to it (`MarksOf`), and turns are bound to one input
each, which they run (`BoundsOf`); so the snapshot a turn with that input is judged by is narrowed, or is
the guest's own. Which unbound turn `bind_turn` takes does not matter. What could break it is the idle
session that is dropped while an input is on its way (`_grant_session_busy`): `IdleSession` shows that
none is registered then but events of the host, and `TidiedSession` that the announcement of the one being
prepared stays. `RestOf` and `RestInv` carry the owner's rest from the arrival to the registration.

Each inductive invariant was checked by TLC before it was proved.

Only model-checked:

- liveness (`TransportLive`, `ProfileLive`, `TurnsLive`): fairness and ENABLED are out of
  the prover's reach;
- that a refused pair is not sent again (`RefusedNotResent`): the argument needs the order of the pairs in
  the row and in memory beside `RInv`;
- the order of the batches, the denial of failed cards, the numeric types of the history and of the
  registry of turns, and the safety of replies, activation, skills, sample page, widgets and notes. `HistoryBudget` and
  `ToolDecision` compute over sequences and folds, where a proof for every input is an induction over
  data that the provers cannot do; TLC compares them with their reference definitions on every input
  up to the bounds.

## 6. Plan

For the proofs: `RefusedNotResent`, and the safety of activation and of the skills. For the models: rules for single tools in
`AccessRequests`, the state lock under `SkillUpdate` and `SocialNotes`, and a second conversation in
`HeldJournal`.

## 7. Not modelled

Wording, formatting and parsing of frames, prompts, messages and notices; HTTP and subprocess I/O;
media files; the host's own turn; clocks, except where a time-out races another event; the SQLite
engine beyond serialised transactions; the state lock and the atomic replacement of files, which the
models take as one step; the restart of the gateway. Components without a module are in the table
above and in `PROJECT.json` with the reason.
