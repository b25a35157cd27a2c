------------------------------- MODULE Digest -------------------------------
(***************************************************************************)
(* Who is mailed about a broadcast, and when: the subscriptions, the       *)
(* go-live fan-out and the digest dispatcher of server/email.js, for the   *)
(* subscribers of one organization and one of its rooms.                   *)
(*                                                                         *)
(* A function runs to its next await in one step.  Two awaits matter: each *)
(* worker of runPool waits for its message to be sent, and sendDigests     *)
(* waits after each digest.  Everything else may run meanwhile.            *)
(*                                                                         *)
(* All subscribers are in one time zone, whose clock is kept.  What Intl   *)
(* prints of it for the server is not what a clock shows: the hour after   *)
(* midnight comes as 24 (en-US, hour12: false), and email.js uses it so.   *)
(***************************************************************************)
EXTENDS Integers, FiniteSets

CONSTANTS
    NSubs,          \* bound: rows of email_subscribers
    MaxEvents,      \* bound: calls of notifyEmailSubscribers
    NHours,         \* hours of a day
    PoolSize,       \* concurrency of runPool
    Runs,           \* runs of sendDigests that may be in progress together
    Preferences,    \* what a subscriber may choose: [frequency, quiet, digestHour];
                    \* quiet hours are <<start, end>>, and none if the two are equal
    Default         \* the preferences of a new row

Subs == 1 .. NSubs          \* by row id, the order in which the SELECTs return them
Events == 1 .. MaxEvents    \* a subscriber's queue rows have ascending ids in event order
Hours == 0 .. NHours - 1
Frequencies == {"instant", "daily_digest", "disabled"}

ASSUME DigestAssumption ==
    /\ NSubs \in Nat
    /\ MaxEvents \in Nat
    /\ NHours \in Nat \ {0}
    /\ PoolSize \in Nat \ {0}
    /\ Preferences \subseteq [frequency : Frequencies, quiet : Hours \X Hours, digestHour : Hours]
    /\ Default \in Preferences

VARIABLES
    hour,           \* the hour of the day in the subscribers' zone
    ticked,         \* sendDigests was started in this hour
    room,           \* the room's row exists
    \* --- email_subscribers and email_subscriber_rooms ---
    known,          \* how many rows there are
    verified,
    stopped,        \* unsubscribed_at is set
    follows,        \* opted into the room
    prefs,
    told,           \* history: the last request shown to succeed was to unsubscribe
    \* --- email_digest_queue: <<event, subscriber>> ---
    queue,
    \* --- notifyEmailSubscribers, by event ---
    events,         \* calls so far
    waiting,        \* thunks of runPool not started yet
    mailing,        \* thunks whose message is being sent
    \* --- sendDigests, by run ---
    rest,           \* rows of its SELECT still to visit: <<subscriber, digest_hour>>
    current,        \* the subscriber whose digest is being sent; 0: none, the run has ended
    items           \* the events in that digest

clock == <<hour, ticked>>
table == <<room, known, verified, stopped, follows, prefs, told>>
fanout == <<events, waiting, mailing>>
dispatch == <<rest, current, items>>
vars == <<clock, table, queue, fanout, dispatch>>

TypeOK ==
    /\ hour \in Hours /\ ticked \in BOOLEAN /\ room \in BOOLEAN
    /\ known \in 0 .. NSubs
    /\ verified \subseteq Subs /\ stopped \subseteq Subs /\ follows \subseteq Subs
    /\ prefs \in [Subs -> Preferences]
    /\ told \subseteq Subs
    /\ queue \subseteq Events \X Subs
    /\ events \in 0 .. MaxEvents
    /\ waiting \in [Events -> SUBSET Subs]
    /\ mailing \in [Events -> SUBSET Subs]
    /\ rest \in [Runs -> SUBSET (Subs \X Hours)]
    /\ current \in [Runs -> 0 .. NSubs]
    /\ items \in [Runs -> SUBSET Events]

Init ==
    /\ hour = 0 /\ ticked = FALSE /\ room = TRUE
    /\ known = 0
    /\ verified = {} /\ stopped = {} /\ follows = {} /\ told = {}
    /\ prefs = [u \in Subs |-> Default]
    /\ queue = {}
    /\ events = 0
    /\ waiting = [e \in Events |-> {}]
    /\ mailing = [e \in Events |-> {}]
    /\ rest = [r \in Runs |-> {}]
    /\ current = [r \in Runs |-> 0]
    /\ items = [r \in Runs |-> {}]

Rows == 1 .. known

-----------------------------------------------------------------------------
(* Subscriptions *)

\* A new row: unverified, with the default preferences.
NewRow == known < NSubs /\ known' = known + 1

\* unsubscribed_at is cleared.
Reactivate(u) == stopped' = stopped \ {u} /\ told' = told \ {u}

\* subscribeEmail, first time: the row and the opt-ins to all current rooms.
SubscribeNew ==
    /\ NewRow
    /\ follows' = IF room THEN follows \union {known + 1} ELSE follows
    /\ UNCHANGED <<clock, room, verified, stopped, prefs, told, queue, fanout, dispatch>>

\* subscribeEmail with a row that is there: the opt-ins stay as they are.
SubscribeAgain(u) ==
    /\ u \in Rows
    /\ Reactivate(u)
    /\ UNCHANGED <<clock, room, known, verified, follows, prefs, queue, fanout, dispatch>>

\* quickFollow, first time; that the room exists is not looked at.
QuickFollowNew ==
    /\ NewRow
    /\ follows' = follows \union {known + 1}
    /\ UNCHANGED <<clock, room, verified, stopped, prefs, told, queue, fanout, dispatch>>

QuickFollow(u) ==
    /\ u \in Rows
    /\ follows' = follows \union {u}
    /\ Reactivate(u)
    /\ UNCHANGED <<clock, room, known, verified, prefs, queue, fanout, dispatch>>

ToggleRoomFollow(u) ==
    /\ u \in Rows /\ room
    /\ \/ /\ u \in follows
          /\ follows' = follows \ {u}
          /\ UNCHANGED <<stopped, told>>
       \/ /\ u \notin follows
          /\ follows' = follows \union {u}
          /\ Reactivate(u)
    /\ UNCHANGED <<clock, room, known, verified, prefs, queue, fanout, dispatch>>

VerifyEmail(u) ==
    /\ u \in Rows
    /\ verified' = verified \union {u}
    /\ UNCHANGED <<clock, room, known, stopped, follows, prefs, told, queue, fanout, dispatch>>

\* The POST of the confirmation page.
UnsubscribeEmail(u) ==
    /\ u \in Rows
    /\ stopped' = stopped \union {u}
    /\ told' = told \union {u}
    /\ UNCHANGED <<clock, room, known, verified, follows, prefs, queue, fanout, dispatch>>

\* The button of the preferences page: a GET, which only answers with the confirmation page;
\* the page then shows the subscriber as unsubscribed.
UnsubscribeOnPage(u) ==
    /\ u \in Rows
    /\ told' = told \union {u}
    /\ UNCHANGED <<clock, room, known, verified, stopped, follows, prefs, queue, fanout, dispatch>>

ResubscribeByToken(u) ==
    /\ u \in Rows
    /\ Reactivate(u)
    /\ UNCHANGED <<clock, room, known, verified, follows, prefs, queue, fanout, dispatch>>

\* Preferences and the list of rooms are replaced together.
UpdatePreferences(u) ==
    /\ u \in Rows
    /\ \E p \in Preferences : prefs' = [prefs EXCEPT ![u] = p]
    /\ follows' \in {follows, follows \union {u}, follows \ {u}}
    /\ UNCHANGED <<clock, room, known, verified, stopped, told, queue, fanout, dispatch>>

Subscription ==
    \/ SubscribeNew \/ QuickFollowNew
    \/ \E u \in Subs :
        \/ SubscribeAgain(u) \/ QuickFollow(u) \/ ToggleRoomFollow(u) \/ VerifyEmail(u)
        \/ UnsubscribeEmail(u) \/ UnsubscribeOnPage(u) \/ ResubscribeByToken(u)
        \/ UpdatePreferences(u)

-----------------------------------------------------------------------------
(* notifyEmailSubscribers *)

Mailable(u) == u \in verified /\ u \notin stopped /\ prefs[u].frequency # "disabled"

\* The hour as formatToParts gives it: 24, not 0, at midnight.
LocalHour == IF hour = 0 THEN NHours ELSE hour

\* A window that ends before it starts wraps around midnight.  By LocalHour one from 0 leaves
\* the hour after midnight out, and one that wraps has it whatever its end.
InQuietHours(u) ==
    LET start == prefs[u].quiet[1]
        end == prefs[u].quiet[2]
    IN \/ start < end /\ start <= LocalHour /\ LocalHour < end
       \/ start > end /\ (start <= LocalHour \/ LocalHour < end)

Recipients == {u \in follows : Mailable(u)}
ForDigest == {u \in Recipients : prefs[u].frequency = "daily_digest" \/ InQuietHours(u)}

\* The workers of a new pool take the first thunks.
StartPool(e, thunks) ==
    \E first \in SUBSET thunks :
        /\ Cardinality(first) <= PoolSize
        /\ first # thunks => Cardinality(first) = PoolSize
        /\ \A u \in first, v \in thunks \ first : u < v
        /\ mailing' = [mailing EXCEPT ![e] = first]
        /\ waiting' = [waiting EXCEPT ![e] = thunks \ first]

NotifyEmailSubscribers ==
    /\ events < MaxEvents
    /\ events' = events + 1
    /\ queue' = queue \union ({events + 1} \X ForDigest)
    /\ StartPool(events + 1, Recipients \ ForDigest)
    /\ UNCHANGED <<clock, table, dispatch>>

\* (defect: each worker runs one thunk)
WorkerStops(e, u) ==
    /\ mailing' = [mailing EXCEPT ![e] = @ \ {u}]
    /\ UNCHANGED waiting

\* The worker that mailed u goes on with the next thunk, if there is one.
NextThunk(e, u) ==
    \/ /\ waiting[e] = {}
       /\ mailing' = [mailing EXCEPT ![e] = @ \ {u}]
       /\ UNCHANGED waiting
    \/ \E v \in waiting[e] :
        /\ \A w \in waiting[e] : v <= w
        /\ mailing' = [mailing EXCEPT ![e] = (@ \ {u}) \union {v}]
        /\ waiting' = [waiting EXCEPT ![e] = @ \ {v}]

\* A notification was sent, or failed: the pool does not tell.
Mailed(e, u) ==
    /\ u \in mailing[e]
    /\ NextThunk(e, u)
    /\ UNCHANGED <<clock, table, queue, events, dispatch>>

-----------------------------------------------------------------------------
(* sendDigests *)

\* (defect: only the subscribers in digest mode)
DailyOnly ==
    {<<u, prefs[u].digestHour>> : u \in {v \in Subs :
        Mailable(v) /\ prefs[v].frequency = "daily_digest"}}

\* (defect: whoever has unsubscribed is still selected)
StoppedToo ==
    {<<u, prefs[u].digestHour>> : u \in {v \in verified : prefs[v].frequency # "disabled"}}

\* Its SELECT; digest_hour is read here, the items only when the loop gets there.
Selected == {<<u, prefs[u].digestHour>> : u \in {v \in Subs : Mailable(v)}}

\* The loop has something to send for this row now, with the queue q.
Due(row, q) == row[2] = LocalHour /\ \E e \in Events : <<e, row[1]>> \in q

\* The loop over the given rows up to its next await or its end.
Visit(r, rows, q) ==
    \/ \E row \in rows :
        /\ Due(row, q)
        /\ \A earlier \in rows : earlier[1] < row[1] => ~Due(earlier, q)
        /\ current' = [current EXCEPT ![r] = row[1]]
        /\ items' = [items EXCEPT ![r] = {e \in Events : <<e, row[1]>> \in q}]
        /\ rest' = [rest EXCEPT ![r] = {later \in rows : later[1] > row[1]}]
    \/ /\ \A row \in rows : ~Due(row, q)
       /\ current' = [current EXCEPT ![r] = 0]
       /\ items' = [items EXCEPT ![r] = {}]
       /\ rest' = [rest EXCEPT ![r] = {}]

\* The timer.
SendDigests(r) ==
    /\ current[r] = 0
    /\ ticked' = TRUE
    /\ Visit(r, Selected, queue)
    /\ UNCHANGED <<hour, table, queue, fanout>>

\* (defect: all rows of the subscriber are deleted)
WithoutAll(r) == {i \in queue : i[2] # current[r]}

\* The rows up to the last one sent are deleted.
WithoutSent(r) == {i \in queue : i[2] = current[r] => \A e \in items[r] : e < i[1]}

\* The digest was accepted: its rows go and the loop goes on.
DigestSent(r) ==
    /\ current[r] # 0
    /\ queue' = WithoutSent(r)
    /\ Visit(r, rest[r], queue')
    /\ UNCHANGED <<clock, table, fanout>>

\* Every provider failed: the rows stay for a later run.
DigestFailed(r) ==
    /\ current[r] # 0
    /\ Visit(r, rest[r], queue)
    /\ UNCHANGED <<clock, table, queue, fanout>>

-----------------------------------------------------------------------------
(* Environment *)

\* The dispatcher's timer fires every 15 minutes, so at least once in every hour.
HourPasses ==
    /\ ticked
    /\ hour' = (hour + 1) % NHours
    /\ ticked' = FALSE
    /\ UNCHANGED <<table, queue, fanout, dispatch>>

\* deleteRoom: the opt-ins and the queued items of the room go with it.
DeleteRoom ==
    /\ room
    /\ room' = FALSE /\ follows' = {} /\ queue' = {}
    /\ UNCHANGED <<clock, known, verified, stopped, prefs, told, fanout, dispatch>>

CreateRoom ==
    /\ ~room
    /\ room' = TRUE
    /\ UNCHANGED <<clock, known, verified, stopped, follows, prefs, told, queue, fanout, dispatch>>

\* The process dies and restarts: pools and runs are lost, the tables are not.
Crash ==
    /\ waiting' = [e \in Events |-> {}]
    /\ mailing' = [e \in Events |-> {}]
    /\ rest' = [r \in Runs |-> {}]
    /\ current' = [r \in Runs |-> 0]
    /\ items' = [r \in Runs |-> {}]
    /\ UNCHANGED <<clock, table, queue, events>>

Next ==
    \/ Subscription
    \/ NotifyEmailSubscribers
    \/ \E e \in Events, u \in Subs : Mailed(e, u)
    \/ \E r \in Runs : SendDigests(r) \/ DigestSent(r) \/ DigestFailed(r)
    \/ HourPasses \/ DeleteRoom \/ CreateRoom \/ Crash

Spec == Init /\ [][Next]_vars

\* Timers fire, every send ends (MailQuota, CallEnds), and a subscriber whose digest is tried
\* again and again is reached in the end.
Fairness ==
    /\ WF_vars(HourPasses)
    /\ WF_vars(\E r \in Runs : SendDigests(r))
    /\ \A r \in Runs : WF_vars(DigestSent(r) \/ DigestFailed(r))
    /\ WF_vars(\E e \in Events, u \in Subs : Mailed(e, u))
    /\ \A u \in Subs : SF_vars(\E r \in Runs : current[r] = u /\ DigestSent(r))

FairSpec == Spec /\ Fairness

-----------------------------------------------------------------------------
(* Properties *)

\* A queued item leaves the queue only by a digest that contained it and was accepted, or
\* with its room: neither a broadcast that starts while the digest is being sent nor a run
\* that overlaps is dropped unsent.
NothingDroppedUnsent ==
    [][\A e \in Events, u \in Subs :
        <<e, u>> \in queue \ queue' =>
            \/ \E r \in Runs : current[r] = u /\ e \in items[r] /\ DigestSent(r)
            \/ DeleteRoom]_vars

\* No more than PoolSize messages of a broadcast are being sent at a time, and no fewer while
\* there are more to send.
PoolFull ==
    \A e \in Events :
        /\ Cardinality(mailing[e]) <= PoolSize
        /\ waiting[e] # {} => Cardinality(mailing[e]) = PoolSize

\* A digest contains all rows its deletion will cover.
DigestComplete ==
    \A r \in Runs, e \in Events, u \in Subs :
        <<e, u>> \in queue /\ u = current[r] /\ (\E m \in items[r] : e <= m) => e \in items[r]

\* Nothing is under way for a broadcast that has not happened.
EventsPast ==
    /\ \A e \in Events, u \in Subs : <<e, u>> \in queue => e <= events
    /\ \A r \in Runs, e \in Events : e \in items[r] => e <= events
    /\ \A e \in Events : e > events => waiting[e] = {} /\ mailing[e] = {}

\* A thunk is started once.
StartedOnce == \A e \in Events : waiting[e] \intersect mailing[e] = {}

\* The inductive invariant.
IInv == TypeOK /\ PoolFull /\ StartedOnce /\ DigestComplete /\ EventsPast

\* Mail is being sent to u, or will be without another look at its row.
Committed(u) ==
    \/ \E e \in Events : u \in waiting[e] \/ u \in mailing[e]
    \/ \E r \in Runs : current[r] = u \/ \E row \in rest[r] : row[1] = u

\* Nothing new is begun for somebody who has unsubscribed: only a message that a pool or a run
\* was committed to before can still go out.
NoNewMailOnceStopped == [][\A u \in stopped : Committed(u)' => Committed(u)]_vars

\* And those commitments are used up: whoever unsubscribes, and leaves it at that, is in the end
\* out of every pool and run.
UnsubscribeTakesEffect ==
    \A u \in Subs : <>[](u \in stopped) => <>[]~Committed(u)

\* Whoever stays subscribed with digest hour h gets what was queued for them, in digest mode or
\* because of their quiet hours, however often sends fail and the process restarts.
MailedAt(h) ==
    \A u \in Subs :
        <>[](Mailable(u) /\ prefs[u].digestHour = h) => []<>(\A e \in Events : <<e, u>> \notin queue)

\* So with every digest hour but the one after midnight.
QueuedMailed == \A h \in Hours \ {0} : MailedAt(h)

\* With that one nothing is ever mailed, although the page offers "12:00 AM": TLC refutes this
\* one, and no run checks it (see "Observations" in the README).
MailedAtMidnight == MailedAt(0)

\* "Unsubscribing immediately stops all emails" (faq.html): no message is started for somebody
\* who was told to be unsubscribed.
UnsubscribeStopsMail ==
    [][\A u \in told :
        /\ \A e \in Events : u \notin mailing'[e] \ mailing[e]
        /\ \A r \in Runs : current'[r] = u => current[r] = u]_vars
=============================================================================
