# UmmahCast: models and proofs

UmmahCast is one Node process (`src/server`) that relays live audio from a mosque's broadcaster to its
listeners over WebSockets, records it, notifies subscribers, and keeps everything else in SQLite. This
directory holds TLA+ modules of its stateful parts, TLC configurations that check them on small instances,
and TLAPS proofs that hold for every instance.

Contents: [inventory](#inventory), [plan](#plan), [modules](#modules), [runs](#runs),
[fairness](#fairness), [proofs](#proofs), [findings](#findings), [observations](#observations),
[not modelled](#not-modelled).

## Inventory

JavaScript runs every handler to completion, and better-sqlite3 is synchronous. So a handler is atomic
between two `await`s, and the concurrency of this program is: other handlers at an `await`; events and
callbacks of sockets, streams and timers in any order; the network; restarts of the process.

| Component | Module | State | Operations | Interacts with |
|---|---|---|---|---|
| Live streaming hub (`streaming.js`, room table of `rooms.js`) | `Streaming`, `Stage` | per socket: the closure of `handleConnection` (latch, role, heartbeat, recording stream); per room: the `liveRooms` entry (broadcaster, listeners, init segment, live, notified) | upgrade, `join`, media frame, `go-live`, `stop`, `close`, heartbeat, stream `error` | room rows (deletion), recordings, all notifications (on a registration's first frame) |
| SMTP chain and quota (`email.js` 7-123) | `MailQuota` | `smtp_daily_counters` | `sendEmail`: reserve, send, release, fail over | every mail of the system |
| Subscriptions, fan-out, digests (`email.js` 312-676) | `Digest` | `email_subscribers`, `email_subscriber_rooms`, `email_digest_queue`; pools and dispatcher runs in memory | subscribe, quick follow, verify, toggle, preferences, unsubscribe, resubscribe; `notifyEmailSubscribers`, `runPool`, `sendDigests` | hub (go-live), rooms (deletion), SMTP chain |
| Accounts and sessions (`auth.js`, `index.js` 662-846) | `Login` | broadcasters, sessions, TOTP secrets and steps, backup codes, pending logins in memory | two-stage login, password change, enrolment, disabling, emergency reset and disabling | hub (session of an upgrade), organizations |
| Organizations and their broadcasters (`index.js` 1300-1863, `auth.js`, `rooms.js`) | `Membership` | organizations, broadcasters, invites, applications, pending logos | apply, review, set up, invite, transfer, delete | accounts, archives |
| Organization deletion and archives (`rooms.js` 66-254) | `Archives`, `Deletion` | `pending_deletion_at`, archive path, token and expiry; zip files | request (awaits the archive), cancel, execute, download, hourly sweep | hub (its rooms go), accounts, all tables |
| Recordings and transcription (`transcripts.js`, `rooms.js` 511-607, `whisper/app.py`) | `Recordings`, `Captions` | recording rows, transcript status, in-flight set, the sidecar's lock | publish, unpublish, delete, retranscribe, dispatch, callback, reaper | hub (a recording's end), organization settings |
| Clients (`broadcast.js`, `listen.js`) | `Clients` | sockets, reconnect counters and timers, recorder, media source and queue, what the page shows | select and leave a room, join, go live (awaits the microphone), stop, test the microphone, reconnect with back-off | hub |
| Schedules (`rooms.js` 340-510, the pages' form and countdown) | `Schedules` | `schedules` rows; the countdown of an open page | add, delete, list the next occurrences | - |
| Push and Telegram (`push.js`) | - | `push_subscriptions` | subscribe, notify, remove stale endpoints | hub |
| Rooms, categories, analytics, contact forms | - | SQLite rows | one or a few statements per request | - |
| Logo files, chat filter, CSP hashes, OG injection, configuration, schema, pages | - | files, or none | pure functions, start-up, presentation | - |

What is hard, and what makes each part correct (every hazard is listed at its line in `PROJECT.json`):

- **Hub.** A listener's join suspends at the password KDF while others are admitted, the room is deleted or
  its own socket closes. A reconnecting broadcaster takes over from a socket whose `close` has not been
  delivered. Half-open connections send nothing. The rows of the room go while its memory stays. Correct: one owner, one source and at most the cap of
  listeners per room; only the owner ends a broadcast; whoever dies is found; every recording is ended.
- **Quota.** Many sends overlap; a send fails, or fails only for its caller; midnight changes the counter
  under a pending send. Correct: the daily limit holds, and failures do not eat it up.
- **Fan-out and digests.** A pool and a dispatcher work on what they read before their awaits, while
  subscribers change their minds, broadcasts begin and runs overlap. Correct: nothing queued is lost or
  starved, the SMTP concurrency is bounded, quiet hours and unsubscriptions are respected.
- **Accounts.** The two stages of a login are a token in memory apart, and in between the account may be reset,
  enrolled anew or relieved of its TOTP. Correct: a code or backup code is taken once; a reset leaves open no
  more than the window of a pending login; the block for want of two-factor is met by an enrolment and by nothing else.
- **Organizations.** Each request is atomic; what is hard is the order of many. Setup links, invites and pending
  logos outlive what they were made for. Correct: no row names one that is gone; an organization that has a
  leader keeps one; the shared account is given out once.
- **Organization deletion.** `requestOrgDeletion` checks, awaits the archive, then writes by id; tokens are
  consumed by slug, and a slug is given away again. Correct: no organization is deleted unarchived, no link leads
  to another organization's zip, a link is single-use and ends.
- **Transcription.** Jobs, callbacks, reaper and retries meet in any order; a result names its recording, not
  its job. Correct: nothing is stored for a recording that is gone, nothing stays pending, and the reaper is patient
  with a job that was dispatched again.
- **Clients.** The two ends of a connection learn of its loss at different times, and each page has a ladder of
  timers. The microphone is asked for and answered later, perhaps twice. Correct: one ladder; a listener the hub
  counts sees what is live; a decoder begins with the head of a stream.
- **Schedules.** Rules are expanded in a zone whose clock is put forward and back, only so far, and with a start
  that may lie far behind. Correct: local time is kept, and what is listed is what comes next.

## Plan

Built in order of what matters most to the users, each with proofs:

1. `Streaming`, with the abstract room `Stage` it implements.
2. `MailQuota`.
3. `Digest`.
4. `Archives`, with the abstract `Deletion` it implements: the overlap of requests, downloads, expiry and crashes.
5. `Recordings`, with the abstract `Captions` it implements: the transcript's state machine with the sidecar and
   the reaper.
6. `Login` and `Membership`: the two-stage login; who belongs to, and leads, what.
7. `Clients`: both pages composed with the handlers of the hub they meet.
8. `Schedules`: recurrence against a definition.

Left for later: the push fan-out with its stale endpoints, the password throttle of the hub, the logo files of
pending branding. `Clients` states what the hub does to its pages in steps of its own: one of them may be a whole cascade of
`Streaming` (a restart closes every socket), so that a step-by-step refinement between the two does not fit.

Each module states its constants with named assumptions and uses no recursive operators, so that it can be
proved about. The chain from a broadcast to a mail is one of one-way calls (the hub calls the fan-out, which
calls `sendEmail`; nothing comes back but the end of the send), so each module leaves its successor to a
nondeterministic environment: calls of `notifyEmailSubscribers` may come at any time in `Digest`, which covers
those the hub can make, and `Mailed` and `DigestSent`/`DigestFailed` may come at any time and with either result,
which covers what `MailQuota` answers. Likewise `Add` in `Recordings` covers the recordings the hub ends, and
`DeleteOrg` in `Membership` is what `Execute` in `Archives` does to its rows. `Clients` is the one module that composes
two sides in full, because what can go wrong there is that they disagree.

## Modules

### Streaming.tla: the hub of one room

Rooms share no state: every handler works on the entry of its own room. One is modelled, with the entry
kept by *generation*, because `deleteRoom` drops it from the table while a suspended join still holds it.

| Variables | Code |
|---|---|
| `conn`, `peerUp` | the `ws` socket: `readyState`, and whether the peer still sends. `closing` = `close()` was called here; `ending` = destroyed, `close` not yet emitted |
| `joinHandled`, `role`, `at`, `kdf` | `joinHandled`, `assignedRole`, the state object looked up by the join, suspended at `verifyPasswordAsync` |
| `alive`, `ticking`, `rec` | `alive`, `heartbeatTimer`, `recordingStream` |
| `org`, `dbRoom`, `gen`, `broadcaster`, `listeners`, `initSegment`, `live`, `notified` | the rows of the organization and the room; the entry of `liveRooms` |
| `stream`, `writer` | the write streams and the closure that opened them |

An action is a handler. The only await, the listener's password KDF (`streaming.js:195`), splits the join into
`JoinPassword` and `KdfDone`; the rest of a join is one of `JoinNoRoom`, `JoinNotAllowed`, `JoinOccupied`,
`JoinBroadcaster`, `JoinListener`, `JoinThrottled`. `GoLive`, `Frame`, `Stop`, `OnClose`, `Heartbeat`, `Pong`,
`StreamError` and `DeleteRoom` are the other handlers. `DeleteOrganization` is what the deletion of the organization does to a
room on the air: the rows go, and the `liveRooms` entry stays, with its sockets. `Connect`, `PeerClose`, `PeerVanish`, `CloseTimeout`
and `StreamFlushed` are the library and the network, from how the handlers use them.

Abstracted: messages to clients, chat, reactions and analytics (nothing modelled reads them, and the statements
that throw once the organization is gone come after every change a handler makes here); passwords (any
join may find one, any attempt may fail); the throttle (any attempt may be refused); media (an init segment
is the socket it came from); a recording's length (a stop saves or discards).

### Stage.tla: what a room promises

The place of the broadcaster only: who has it, whether the room is on the air, whose connection is open.
Taking an occupied place needs the owner's connection to be gone; only the owner starts and ends. `Streaming`
implements it for the first generation by `connected <- OpenSockets`, `owner <- broadcaster[0]`,
`onAir <- live[0]`.

### MailQuota.tla: sendEmail

`at[s]` is the provider whose `sendMail` the call `s` awaits. `TryFrom` is the loop up to its next await,
`Accept`, `Reject` and `LostAnswer` resume it. `counter` and `rows` are the table; each statement uses the
date of the moment it runs (`todayUTC()`), so `Midnight` may fall between reservation and release.
`accepted`, `slack` and `lost` are history: what the providers took, what the counter may miss (in flight at
midnight, or taken although the caller saw a failure), and slots held by calls a crash ended.

### Digest.tla: subscriptions, fan-out, digests

One organization and one of its rooms. Subscribers are the row ids, in whose order the SELECTs return them;
`known` counts the rows. `queue` holds `<<event, subscriber>>` pairs: one call of `notifyEmailSubscribers`
adds at most one row per subscriber, so an event number orders a subscriber's rows as their
AUTOINCREMENT ids do. All subscribers are in one time zone. `LocalHour` is what `Intl` prints of its clock in
`localHour` and `inQuietHours`: 24 and not 0 in the hour after midnight, since `email.js` takes it without the `% 24` of
`rooms.js:389`. A digest is due, and a window of quiet hours (`<<start, end>>` in whole hours, wrapping if it ends first)
is kept, by that hour.

`NotifyEmailSubscribers` runs to the first await, at which the pool's workers have started; `Mailed` resumes a
worker. `SendDigests` runs to its first await or its end; `DigestSent` and `DigestFailed` resume it and
run on to the next subscriber (`Visit`). A run keeps `rest` (rows of its SELECT, with the digest hour as it was
then), `current` and `items`. Every request of a subscriber is an action; `told` remembers what the
subscriber was last shown, for the button of the preferences page (`UnsubscribeOnPage`), which changes
nothing on the server. `DeleteRoom` takes opt-ins and queued items with it; `Crash` loses pools and runs and
keeps the tables.

Left out: the Telegram fallback of a server without SMTP, verification and preference-link mails (they change
no state), the administrator's daily digest, differences between time zones.

### Login.tla: two-stage login and emergency resets

`pending` is the map of `auth.js` from login tokens to accounts, in memory only (`Restart` empties it). The first
stage is `LoginPassword` or `LoginStage1`, the second `LoginCode` or `LoginBackup`; `AbandonLogin` is a failed second
stage, or the cleanup of old tokens. Time is in TOTP steps, so that a code *is* the step it is for; `CodeWindow`
is what the library accepts, `ClaimOk` the compare-and-set of `totp_last_step`. A password is the number of times
it was set; `basis` (history) is the password a session rests on. Wrong passwords change nothing and are left out, as
are the cryptography, rate limits and display names.

### Membership.tla: organizations, invites, leaders

One action per route, since none of these handlers awaits before its last write. A slug is a number and
`_uniqueSlug` takes the least free one; an organization is identified with its slug and can be made again after a
deletion, while old applications and their links remain. An invite has the states `live`, `stale` (expired by the
clock, but not by the comparison of dates as text that `SharedTaken` uses), `expired` and `used`.
`DeleteBroadcaster` fails on its second statement when an invite or a pending logo names the account, after the
sessions have gone: so the code has it, and so has the model. Only the default organization has superadmins,
who are one actor, `Root`.

### Recordings.tla: recordings and captions

The app side is `row`, `transcript` and `inFlight`; the sidecar's is `waiting` (threads before `_job_lock`) and `job`
(its holder). `posts` are requests on their way: after its ten seconds the app gives a dispatch up
(`DispatchSettles`) and the request may still arrive. The look at the lock in `do_POST` and its acquisition in `run_job` are
two steps, so threads pile up. A transcript's age counts reaper periods since `updated_at`; `sinceMark` is the same
counted from the dispatch, as history. A delivered callback is stored whatever job it is of; deleted ids are not
used again. `JobEnds` has either result at any time, which covers transcription and its limits.

### Archives.tla: deleting an organization

One slug and the organizations that hold it in turn. A request is identified with its zip and its token (both
random). `RequestStarts` is `requestOrgDeletion` up to its await, `ArchiveDone` and `ArchiveFails` resume it; downloads
are `DownloadStarts` and `DownloadEnds`/`DownloadAborts`, as the token is consumed on `end`. `owner`, `archived`
and `consumed` are history: whose data a zip holds, who was archived, which zips were sent.

### Deletion.tla: what the deletion of an organization promises

Without zips, tokens and expiries: who has the slug, whether its deletion is pending, who was archived, whose data the one link gives
and whom each reader is being sent. Only what was archived is deleted; a former holder's archive that is ready too late gives
nobody a link; a finished download ends the link. `Archives` implements it by `holder <- org`, `doomed <- pending`,
`link <- LinkTo` (the owner of the zip that the row names, while the token is there and has not expired) and
`served <- ReadOf`.

### Captions.tla: what the captions of a recording promise

Without requests, threads and jobs: only a published recording is submitted, and only while the organization wants captions; an
answer is taken only for a recording that was submitted and is still there; giving up touches nothing that was answered.
`Recordings` implements it by `caption <- Status`, the status column of the transcript's row.

### Clients.tla: two pages and the hub between them

Each page has sockets of its own that are used again once both ends are done with one: `closing` and `dropped` are seen
by one end only, `half-open` by neither but the page that left. A socket may break at any time, whatever becomes of the others, and
either end may see it first. The hub's handlers are
those of `Streaming` as far as the pages can tell (`BroadcasterOpens`, `ListenerOpens`, `Chunk`, `ClickLive`,
`ClickResumes`, `ClickStop` and `ServerCloses` are a page's step with the handler it triggers; a frame under way when a
connection breaks is lost). On the broadcaster's page: selected room, current socket, reconnect timers, button,
microphone stream, recorder. Go Live and the microphone test each await `getUserMedia` when the page has no stream: `ClickAsks` and
`TestAsks` are the parts before the await, `ClickResumes` and `TestResumes` those after it, which look at nothing again, and `asks`
counts who waits. So a recorder may be replaced while it runs (`strays`; its chunks are `StrayChunk`), or run on a stream
that the page no longer has (`apart`). On the listener's: latch, attempts, timers, what it shows, and the media source: a chunk
is the *head* of a recorder's stream or from the *mid*dle of it, and the first one appended decides whether the decoder
works. Left out: chat, meters, the recording player, autoplay unblocking, password prompts (a refusal for any reason
closes the socket with one of three kinds of code).

### Schedules.tla: recurrence over a switch of the clock

Time is in ticks of UTC; `Day`, `Week` and the lengths of the months are constants, and a zone is an offset before and
after one switch. That is a bound: eight weekly shows look two months ahead, eight of a monthly rule some eight months, in
which a clock may be switched twice. `LocalToUTC` is the two-step correction of `_localToUTC`;
`Walk`, `MonthlyDay`, `InRange`, `FirstOf` are the loops of `_expandRow` as sets; `Upcoming` is `getSchedules`. The form of the
broadcaster's page (`AddEvent`) derives a monthly rule from the day that was picked; a request may have any rule and
end (`PostSchedule`), which the server drops or caps. `LoadPage` gives a listener's page its countdown, which is not
computed again. Against it stand `Named`, `DaysOf` and `ToCome`: the days of a rule by definition, without a walk, a
horizon or a first step. Titles and durations are left out.

Two named assumptions say when the list can be right. `SchedulesAssumption`: the walk is long enough to fill the list with the
sparsest rule (`Horizon >= Count * Week + 2`; the code has 800 steps for 8 shows and weeks of 7 days), and every day
of the calendar is in one month. `ZonesAssumption`: a switch moves the clock by less than a day and does not
put it back over a midnight, the local time it skips is made up on the same day when its switch lies before it as UTC, and the
starts and the present are in the calendar. A zone that skips a whole day (Samoa in 2011) is excluded: a weekly show on that day has
no right answer. Since `RoomsProofs` extends this module and `Recordings`, its specification has names of its own (`SchedulesSpec`,
`SchedulesInv`, `Null`).

## Runs

| Run | Instance | What it shows |
|---|---|---|
| `streaming_safety` | 2 broadcasters, 1 guest, cap 1, 2 streams, the organization deleted at any time | the cap; no stale init segment; open streams held; an open broadcaster is never displaced; only the owner's stop or close ends a broadcast; the hub implements `Stage` |
| `streaming_liveness` | 2 broadcasters, 1 stream, the room deleted and re-created | the inductive invariant across the deletion (with single registration and source, and no live room without a broadcaster); whoever dies silently frees place, slot and recording |
| `mail_quota` | 2 calls, a provider with limit 1 and one without, 2 days | the inductive invariant; the limit up to the slack; failed sends use up nothing; every call ends |
| `digest_delivery` | 2 subscribers, 2 events, pool of 1, 2 runs, 3-hour day, 1 preference | the inductive invariant with the full pool; nothing dropped unsent; an unsubscription stops new mail at once and all mail in the end; everything queued is mailed, but for the digest hour after midnight |
| `digest_unsubscribe` | 1 subscriber, 1 event, 1 run, 4 preferences | violation, see findings |
| `login` | an individual and a shared account, 2 cookies, 1 pending login, 1 backup code, 2 password changes, times 0..2 | the inductive invariant; no factor taken twice; sessions older than a reset are at most a pending login's; a block for want of two-factor stands until an enrolment |
| `membership` | 2 slugs, 1 application, 3 accounts, 2 invites | the inductive invariant (no dangling row, one leader, one shared account, founders' organizations led); leaders and last members stay |
| `recordings` | 2 recordings, 2 publications, 1 forced job, 2 requests on their way, 1 restart | the inductive invariant (no transcript without its recording, no job without a dispatch); the reaper's patience; app and sidecar implement `Captions`; nothing stays pending |
| `archives` | 3 requests, 2 downloads, 2 holders of the slug | the inductive invariant (a link leads to a whole zip of the present holder); single use; the flow implements `Deletion` (archived before deleted, one link); a link ends |
| `archives_sweep` | the same | violation, see findings |
| `clients` | 2 sockets of the broadcaster, 1 of the listener, 2 waits for the microphone, 1 reconnect attempt before giving up, 1 timer per page | the inductive invariant (with one media source and the facts on roles and heads the rest needs); one reconnect ladder; what a counted listener is shown; a decoder that starts with the head |
| `schedules` | 2 rows, 2 zones, 4-tick day, 3-day week, months of 5 and 4 days, times 15..21 | local time kept; the list is what comes next; the picked moment is the first show; an open page counts down to the right one |

Why the bounds are enough to meet the interesting cases:

- *Hub.* Every property relates at most two sockets (a broadcaster and the one that replaces it, a listener and
  the one that takes the last slot) and one observer. Two broadcaster sessions can join as listeners too, so a
  cap of 1 is contended by three sockets. Two streams make an old and a new recording. `MaxGen = 1` gives a
  dropped entry and its successor. `OrgMayGo` lets the organization be deleted in the safety run only: whoever has lost its rows
  lives in the same entry as before, so that liveness is that of a room that stays. Symmetry (broadcasters, streams) is used in the safety run only.
- *Quota.* Two calls contend for a limit of 1; the second day is reached with calls in flight. `MaxSent`
  only stops *new* calls once a provider took more than that in a day, and the run still overshoots by both
  kinds of slack.
- *Digests.* A pool of 1 with two recipients has one waiting; two events let an item arrive during a send, two runs
  overlap. The day has the hour after midnight and two ordinary ones. The preference of `digest_delivery` is mailed at once
  in two of them and by digest in the one between (quiet from 1 to 2), so both paths of the fan-out
  are taken in either order; the daily mode takes the digest path in every hour. The
  theorems hold for any preferences.
- *Login.* One pending login is enough, since two of them meet only in the account's row; two cookies let one session
  change the account while another is opened. Times 0..2 hold a reset, the end of a pending login (1) and a later
  step, and code steps from -1 to 3. The shared account's password is not reset in this run; the proof has no
  such bound.
- *Membership.* Two slugs make an organization and the one an application moves on to; three accounts a
  leader, a member and a shared account; two invites contend for the shared account.
- *Recordings.* `Patience = 1` makes a pending row young, old and overdue; two requests of one recording on their
  way are what an expired dispatch and a restart leave.
- *Archives.* Two overlapping requests and one of the next holder; two downloads of one link.
- *Clients.* Two sockets of the broadcaster's are an old and a new one; a third needs the old one's both ends to have gone. What
  the listener's page has left behind has no effect on it, so one socket is enough there. Two waits for the microphone are two clicks, two
  tests or one of each. `MCBound` explores the waits, and what comes of two of them, while one socket of the broadcaster's is in use, and
  two sockets without them: the wait is the page's alone and looks at no socket until it ends. The proofs have no such bound.
  With one attempt the page retries once and then gives up. `MaxTimers` bounds the timers of the broadcaster's
  page, which may start a second ladder (see observations); the listener's never needs more, which is `OneLadder`.
- *Schedules.* Starts before and after the switches (tick 20 in the east, 22 in the west) and `now` on both sides
  of each; a week of three days has a day the rule skips; a fifth day of the month and a fifth day from the end
  do not exist in every month; a list of two with two rows has entries that are cut off.

`CHECK_DEADLOCK FALSE` is given only where the hub's instance may stop: with two sockets both can end up closed but
still referenced (by a dropped entry, or as a ghost listener), and no identity is left for another client.

## Fairness

Safety properties are checked and proved under the plain specifications. Liveness assumes:

- *Hub*: timers fire (`Heartbeat`), `ws` destroys a socket whose close frame is not answered (`CloseTimeout`),
  a `close` event follows the end of its socket, a KDF job finishes. Nothing is assumed of any peer.
- *Quota*: every `sendMail` ends (nodemailer's timeouts, `email.js:31-33`); no provider has to accept.
- *Digests*: the timer fires (every 15 minutes, `index.js:2191`, so an hour does not pass without a run beginning,
  which is the guard of `HourPasses`); sends end; hours pass; and, strongly, a subscriber whose digest is
  attempted again and again is one day accepted. The last is an assumption on providers without which no
  delivery can be promised. Runs may last over an hour, and the process may crash, any number of times.
- *Recordings*: the reaper's timer fires (`WF(Reap)`). Nothing is assumed of the sidecar or the network: what
  they leave behind, the reaper ends. `PendingSettles` also rests on the bounds of publications and forced jobs, each of
  which makes a row young again.
- *Archives*: the hourly sweep runs and seven days pass (`WF(Sweep)`, `WF(Expire)`).

`Login`, `Membership`, `Clients` and `Schedules` state safety only: their progress depends on people and networks.

## Proofs

Eight modules hold the proofs, for any values of the constants allowed by the named assumptions (`StreamingAssumption`,
`MailQuotaAssumption`, and so on). These give types, finiteness, and that `None` is not a value; only those of
`Schedules` say more (see there). In each module `IInv` is the inductive invariant: the types, the properties and what
they rest on. TLC checks it in a run, the proof module proves `Init => IInv` and `IInv /\ [Next]_vars => IInv'` action by action,
and the theorems follow. Every invariant and every action property of the passing runs is a theorem, and so are the three
refinements.

**StreamingProofs.** `Handshake`: the latch precedes the await, so a suspended or registered socket is past it; and a
broadcaster's socket is never closed gracefully by the server. `Registered`: a registered broadcaster's socket has
that role and generation, which is what makes the identity guard of `close` sound. `RecordingOwned`: a stream a
closure holds is open and its own, and a registered holder means a live room, so `go-live` in a room that is not live
finds no open stream of that socket. Capacity needs `FS_AddElement`, and that the check and the registration run
in one turn. From `IInv`: `TypeCorrect`, `CapacityCorrect`, `RegisteredOnce`, `SoleSource`, `LiveCorrect`,
`InitSegmentCorrect`, `OpenStreamCorrect`, the action properties `BroadcasterKept` and `LiveEndsCorrect`, and
`HubImplementsStage`, where each action is mapped to a step of `Stage` or a stutter.

**MailQuotaProofs.** The limit itself is not inductive, because `releaseSlot` decrements whichever day it runs on.
`Counted` is: on the current day accepted plus in flight is at most counter plus slack, and the counter never
exceeds the limit, as a slot is given only below it. Each answer moves one unit between in flight, accepted, counter
and slack; midnight turns what is in flight into slack; a crash turns it into accepted or lost. The lemma `Moved` says
how the sets in flight change when one call moves, including back to the same provider. `QuotaCorrect` and
`SlotsCorrect` follow.

**DigestProofs.** `PoolFull` is inductive with `StartedOnce` (nobody waits who is being mailed: otherwise handing a
place over could shrink the pool). `NothingDropped` rests on `DigestComplete`: every row of the current
subscriber with an id up to one of the digest's is in the digest. That survives new rows because they
belong to a newer event than any in a digest (`EventsPast`), and an overlapping run's deletion because it only
removes rows. `NoNewMail`: a pool or a run is entered only through `Recipients` or `Selected`, which exclude
whoever has unsubscribed.

**LoginProofs.** `SpentIsOut` makes "accepted once" inductive: an accepted step is not after `totp_last_step`, an
accepted backup code is off the list. It survives the emergency disabling of TOTP, which keeps `totp_last_step`, because
it is stated of enabled accounts only and an enrolment begins with nothing accepted. `NoReplay` is a corollary over the
history. `GraceDeadlineStands` is of each step: `first_login_at` is written where it is NULL and by nothing else, time only goes on, and the one
step that ends a block, an enrolment, checks session and password first. `StaleLoginsEnd` needs `PendingBounded`: a
pending login whose password a reset replaced expires within `PendingLife` of that reset.

**MembershipProofs.** `NoDanglingRow` is why a deletion cannot strip an organization of what other rows name; with
`OneLeader` a transfer or a forced leader leaves exactly the new one. `LeadersStay` follows from both: a leader cannot
be deleted, and the last member of an organization cannot either.

**ArchivesProofs.** `RowNamesOwn`, `PendingArchived` and `Progress` follow a zip from the id that was read before the await
to the row it is written to. `SentIsSpent` is inductive because consumption by slug only ever removes tokens.
`DeletedIsArchived` and `LinkIsSingleUse` follow. `DeletionAsPromised` maps every action to a step of `Deletion` or a stutter: a
zip that is finished is a `Doom` or, if the slug has another holder by then, a `Late`. It needs `LinkWorks` (the link
gives the present holder's data) and that the owner of a zip that is named or being sent cannot change (`Progress`, `IdsGiven`).

**ClientsProofs.** `OneLadder` is inductive by itself: a listener who joined has one connection or one timer, each step trades one
for the other (`Ladder` says so of the set of connections without its cardinality). `ShownLive` rests on
it: who hears has the page's one connection, so that no timer can begin another. `Decodes` is the subtle one and needs `RoleHeld` and
`CurrentRegistered` (once the page's current socket has joined, no other holds the broadcaster's place) and `HeadKept`. `HeadKept` says that, while nothing disturbed the stream, the hub has its head from
the moment the head was sent over a connection that carries, and whoever listens has begun with it; so that what comes later
cannot be a listener's first chunk. It includes that no replaced recorder is left (`strays`), since a recorder is only replaced by
one that begins the stream anew.

**RoomsProofs: recordings.** `AgeOfDispatch` ties the row's `updated_at` to the history of dispatches, from which
`ReaperWaits` follows; `NoOrphanTranscript` is the 404 of the callback and the cascade of the delete. `OnlyDispatched` follows a
job over its three places (a request on its way, a thread that waits, the holder of the lock), whatever is lost or restarts: it is of a recording that has a transcript or is
gone. So a result that is stored answers a submission, which is what `CaptionsAsPromised` needs beyond the guards.

**RoomsProofs: schedules.** Except for the countdown, what is said of the rows follows from their types.
- *Zones.* Two corrections suffice for a zone with one switch wherever the clock shows that local time at all
  (`LocalToUTCCorrect`, hence `SchedulesInvariant`); local days do not run backwards; and the moments of a day and time come in the
  order of the days (`MomentDay`, `MomentsInOrder`), also where the clock is put back.
- *The list* (`ListIsWhatComesNext`). The rows' expansions end at a limit of steps and at the length of the list. A day of a
  rule beyond the walk has as many shows before it as the list is long (`BeyondWalk`), and so has whatever a row's expansion
  leaves out (`LeftOutLate`). Two sets of which the smaller lacks only elements with so many before them have the same
  first `Count` (`FirstSame`, by the least element that is missing).
- *The picked moment* (`StartIsFirst`). There and back through the zone is the same moment unless the clock shows it twice, and
  the form's monthly rules name the day they were derived from (`MatchesNamed`).
- *The countdown* (`CountdownStaysRight`). `CountsToFirst` is inductive: it counts to the first of all that is to come. While
  nobody changes the rows, a tick only takes away what has started (`ComingAfterTick`), never what is counted to.

**Model-checked only:** the liveness properties, since the prover handles neither fairness nor ENABLED:
`DeadBroadcasterFreesRoom`, `DeadListenerFreesSlot`, `DeadBroadcasterRecordingEnds`, `CallEnds`, `UnsubscribeTakesEffect`,
`QueuedMailed`, `PendingSettles` and `LinkEnds`.

## Findings

Each is the violation run of a sentence of the repository.

1. *The unsubscribe button of the preferences page does nothing* (`digest_unsubscribe`): it issues a GET
   (`preferences.html:267`), and since the confirmation step was added a GET changes no state
   (`index.js:541-552`). The page shows "unsubscribed", the mails go on; the FAQ promises the opposite.
2. *The zip of an executed deletion is never removed* (`archives_sweep`): `rooms.js:219` defers it to "its 7-day
   expiry sweep", but the sweep goes through the rows of organizations (`sweepExpiredArchives`), and the deletion has
   removed the row. The link in the mail is dead from then on, for the same reason.

## Observations

What the models show, or reading for them showed, of the code as it is. The models keep each of these, except
those marked (*), whose detail they leave out. Properties that need one of them not to happen say so.

Hub and pages:

- A socket that closes during the password KDF is registered after its only `close`, and keeps its slot until the
  room is deleted (`streaming.js:195-218`; hence the guard on `conn` in `DeadListenerFreesSlot`).
- When a broadcaster reconnects before its old socket's `close`, the take-over leaves the room live, the
  old recording is never ended and gets no row, and the new socket's `go-live` is ignored (`streaming.js:163-180`,
  290; hence the last disjunct of `DeadBroadcasterRecordingEnds`).
- A broadcaster's page that reconnects joins again but does not resend `go-live` (`broadcast.js:91`). If the hub
  has seen the old socket close, the frames it goes on sending reach listeners who are shown "offline".
- The last chunk of a recorder follows the `stop` frame, becomes the init segment of a room that is off the air, and is
  what the next listener's decoder starts with (`broadcast.js:274-276`, `streaming.js:76`; hence `disturbed`).
- After Stop the page keeps the ended microphone stream, so the next Go Live sends `go-live` and starts no recorder
  (`broadcast.js:137`, 275).
- Go Live stays enabled while it waits for the microphone (`broadcast.js:135-148`): two clicks make two recorders on two streams, of which
  Stop ends the second only. The first goes on sending, and after the next stop or take-over a chunk from its middle is the
  init segment of the room. A click that waits while the room is left goes on without it.
- After the deletion of an organization its rooms go on in memory, and every `logAnalytics` of them throws a foreign-key
  error after all else is done (`rooms.js:625`, `streaming.js:221`, 266, 310; caught in `index.js:2116-2121`). So a listener whose password
  was being checked gets no init segment, and a recording begun before leaves no row and no file, one begun after a file
  among those of the default organization (`streaming.js:249`, 332-344).
- The microphone test stays available on the air and reuses the stream of the broadcast: the end of the test stops its
  tracks, and with them the recorder, while no `stop` is sent and both the page and the listeners go on showing a live
  room (`broadcast.js:185`, 252-255, `broadcast.html:103`; recorder `dead`).
- Any `error` frame disables the Live button for good (`broadcast.js:108`). Leaving a room does not stop the
  recorder, and the `close` of the old socket starts a second ladder if another room was selected by then
  (`broadcast.js:63`, 118).
- A listener of a deleted room retries for ever: each connection that opens sets the counter back before it
  is refused (`listen.js:284`), against the comment on giving up (349-350).
- The queue of a listener whose `addSourceBuffer` fails grows without a bound (`listen.js:802`, 807) (*).

Mail and accounts:

- A digest hour of 0 is never served: `localHour` takes what `Intl` prints, which is 24 in the hour after midnight (`email.js:335-343`, without
  the `% 24` of `rooms.js:389` and 405), while `updatePreferences` accepts 0 to 23 (571) and the page offers "12:00 AM"
  (`preferences.html:176`). `MailedAtMidnight` of `Digest` says such mail comes, and TLC refutes it with a default of digest hour 0
  (`NHours = 1` is enough). For the same reason a window of quiet hours that begins at
  00:00 leaves that hour out, and one that wraps has it even if it ends at 00:00 (316-330).
- Digests are sent in quiet hours if the digest hour is one (`email.js:453`, against `preferences.html:87`).
  Two overlapping digest runs mail the same items. A failed or crashed go-live mail is not retried.
- An emergency reset of a shared account locks it out: it must change its password (`auth.js:131-132`,
  `index.js:1801`), and the password route refuses shared accounts. `ForcedChangeHasRemedy` of `Login` says so, and TLC
  refutes it in one step once `MaxPasswords` lets that account be reset.
- After an emergency reset the temporary password is not "the ONLY way back in" (`auth.js:143`): a second stage that was
  pending goes through. `ResetEndsOldLogins` says so and is refuted in five steps; `StaleLoginWindow` is what holds.
- The founder's setup link for an organization that has members by then makes an ordinary broadcaster
  (`index.js:1392`, against the mail's text at 1459). An expired invite for the shared account holds its place
  until the end of its day.
- Deleting a broadcaster who is named by an invite or a pending logo ends the sessions and then fails.

Archives and schedules:

- A second overlapping request overwrites path and token of the first, whose zip nothing removes and whose link is dead
  (`rooms.js:162-174`); the zip of a failed or crashed request stays as well. The zip's write stream has no `error`
  handler (`rooms.js:134`). A request that completes after its organization has gone throws (`index.js:1115`).
- The "until" of the form is midnight UTC, so that day's show is not in the list (`rooms.js:366`). In a zone whose clock
  is put back, a show in the hour that comes twice is listed at its second moment east of Greenwich; a show in a skipped
  hour is an hour off. A show drops off the list when it starts.
- A recurring row whose `starts_at` is not a date makes `getSchedules` throw for the whole room (`rooms.js:431`) (*).
- A logo file is named by its content's hash, so that two organizations can share one and the removal of one's takes
  the other's (`index.js:1685`, 1729, `uploads.js:9`) (*).

## Not modelled

- *Push and Telegram*: fire-and-forget calls that change at most the row of a dead endpoint; the fan-out they are part
  of is modelled for mail. The Telegram fallback of a server without SMTP likewise.
- *Rooms, categories, analytics, contact forms*: single statements, whose correctness is SQLite's; creation and
  deletion of a room are actions of `Streaming`, `Digest` and `Clients`.
- *Logo and image files*: content-addressed files; `Membership` has the approval as rows.
- *The hub's chat, reactions, analytics and throttle*: nothing modelled reads them; a throttle may refuse any attempt.
- *The chat filter*: a regular expression over a word list.
- *Time zones of subscribers*: all are in one, whose clock `Digest` keeps; `Schedules` has zones.
- *Pages other than the two of `Clients`* (recording player, admin page, service worker, static text), *templates, CSP
  and OG text*: presentation, without state the server depends on.
- *`transcode.js`*: nothing calls it. *Configuration, schema, migrations*: start-up; the tables are the initial states.
