---------------------------- MODULE DigestProofs ----------------------------
(***************************************************************************)
(* Proofs about Digest, for any numbers of subscribers, events and hours,  *)
(* any pool size, any overlap of runs and any choice of preferences.       *)
(***************************************************************************)
EXTENDS Digest, FiniteSetTheorems, TLAPS

-----------------------------------------------------------------------------
(* What the groups of steps leave alone *)

LEMMA SubscriptionFrame ==
    ASSUME Subscription
    PROVE  UNCHANGED <<clock, room, queue, fanout, dispatch>>
BY DEF Subscription, SubscribeNew, QuickFollowNew, SubscribeAgain, QuickFollow, ToggleRoomFollow,
       VerifyEmail, UnsubscribeEmail, UnsubscribeOnPage, ResubscribeByToken, UpdatePreferences

LEMMA SubscriptionType ==
    ASSUME TypeOK, Subscription
    PROVE  TypeOK'
<1>1. UNCHANGED <<hour, ticked, room, queue, events, waiting, mailing, rest, current, items>>
    BY SubscriptionFrame DEF clock, fanout, dispatch
<1>2. CASE SubscribeNew \/ QuickFollowNew
    <2>1. known + 1 \in Subs /\ known' \in 0 .. NSubs
        BY <1>2, DigestAssumption DEF SubscribeNew, QuickFollowNew, NewRow, Subs, TypeOK
    <2>2. follows' \subseteq Subs /\ UNCHANGED <<verified, stopped, prefs, told>>
        BY <1>2, <2>1 DEF SubscribeNew, QuickFollowNew, TypeOK
    <2>3. QED
        BY <1>1, <2>1, <2>2 DEF TypeOK
<1>3. ASSUME NEW u \in Subs,
             \/ SubscribeAgain(u) \/ QuickFollow(u) \/ ToggleRoomFollow(u) \/ VerifyEmail(u)
             \/ UnsubscribeEmail(u) \/ UnsubscribeOnPage(u) \/ ResubscribeByToken(u)
             \/ UpdatePreferences(u)
      PROVE  TypeOK'
    <2>1. known' = known
        BY <1>3 DEF SubscribeAgain, QuickFollow, ToggleRoomFollow, VerifyEmail,
            UnsubscribeEmail, UnsubscribeOnPage, ResubscribeByToken, UpdatePreferences
    <2>2. verified' \subseteq Subs /\ stopped' \subseteq Subs /\ told' \subseteq Subs
        BY <1>3 DEF SubscribeAgain, QuickFollow, ToggleRoomFollow, VerifyEmail,
            UnsubscribeEmail, UnsubscribeOnPage, ResubscribeByToken, UpdatePreferences,
            Reactivate, TypeOK
    <2>3. follows' \subseteq Subs
        BY <1>3 DEF SubscribeAgain, QuickFollow, ToggleRoomFollow, VerifyEmail,
            UnsubscribeEmail, UnsubscribeOnPage, ResubscribeByToken, UpdatePreferences, TypeOK
    <2>4. prefs' \in [Subs -> Preferences]
        BY <1>3 DEF SubscribeAgain, QuickFollow, ToggleRoomFollow, VerifyEmail,
            UnsubscribeEmail, UnsubscribeOnPage, ResubscribeByToken, UpdatePreferences, TypeOK
    <2>5. QED
        BY <1>1, <2>1, <2>2, <2>3, <2>4 DEF TypeOK
<1>4. QED
    BY <1>2, <1>3 DEF Subscription

\* The digest dispatcher's loop keeps the types of what a run holds.
LEMMA VisitType ==
    ASSUME TypeOK, NEW r \in Runs, NEW rows \in SUBSET (Subs \X Hours), NEW q, Visit(r, rows, q)
    PROVE  /\ rest' \in [Runs -> SUBSET (Subs \X Hours)]
           /\ current' \in [Runs -> 0 .. NSubs]
           /\ items' \in [Runs -> SUBSET Events]
<1>1. ASSUME NEW row \in rows,
             current' = [current EXCEPT ![r] = row[1]],
             items' = [items EXCEPT ![r] = {e \in Events : <<e, row[1]>> \in q}],
             rest' = [rest EXCEPT ![r] = {later \in rows : later[1] > row[1]}]
      PROVE  /\ rest' \in [Runs -> SUBSET (Subs \X Hours)]
             /\ current' \in [Runs -> 0 .. NSubs]
             /\ items' \in [Runs -> SUBSET Events]
    <2>1. row[1] \in 0 .. NSubs
        BY DigestAssumption DEF Subs
    <2>2. QED
        BY <1>1, <2>1 DEF TypeOK
<1>2. CASE /\ current' = [current EXCEPT ![r] = 0]
           /\ items' = [items EXCEPT ![r] = {}]
           /\ rest' = [rest EXCEPT ![r] = {}]
    BY <1>2, DigestAssumption DEF TypeOK
<1>3. QED
    BY <1>1, <1>2 DEF Visit

LEMMA SelectedType ==
    ASSUME TypeOK
    PROVE  Selected \in SUBSET (Subs \X Hours)
BY DigestAssumption DEF Selected, TypeOK

LEMMA DispatchType ==
    ASSUME TypeOK, NEW r \in Runs, SendDigests(r) \/ DigestSent(r) \/ DigestFailed(r)
    PROVE  TypeOK'
<1>1. /\ rest' \in [Runs -> SUBSET (Subs \X Hours)]
      /\ current' \in [Runs -> 0 .. NSubs]
      /\ items' \in [Runs -> SUBSET Events]
    <2>1. rest[r] \in SUBSET (Subs \X Hours)
        BY DEF TypeOK
    <2>2. QED
        BY <2>1, VisitType, SelectedType DEF SendDigests, DigestSent, DigestFailed
<1>2. queue' \subseteq queue
    BY DEF SendDigests, DigestSent, DigestFailed, WithoutSent
<1>3. /\ UNCHANGED <<hour, room, known, verified, stopped, follows, prefs, told>>
      /\ UNCHANGED <<events, waiting, mailing>>
      /\ ticked' \in BOOLEAN
    BY DEF SendDigests, DigestSent, DigestFailed, clock, table, fanout, TypeOK
<1>4. QED
    BY <1>1, <1>2, <1>3 DEF TypeOK

\* The new pool of an event, and the rows queued for it.
LEMMA NotifyType ==
    ASSUME TypeOK, NotifyEmailSubscribers
    PROVE  TypeOK' /\ events + 1 \in Events
<1>1. events + 1 \in Events /\ events' \in 0 .. MaxEvents
    BY DigestAssumption DEF NotifyEmailSubscribers, Events, TypeOK
<1>2. Recipients \subseteq Subs /\ ForDigest \subseteq Subs
    BY DEF Recipients, ForDigest, TypeOK
<1>3. queue' \subseteq Events \X Subs
    BY <1>1, <1>2 DEF NotifyEmailSubscribers, TypeOK
<1>4. waiting' \in [Events -> SUBSET Subs] /\ mailing' \in [Events -> SUBSET Subs]
    BY <1>1, <1>2 DEF NotifyEmailSubscribers, StartPool, TypeOK
<1>5. QED
    BY <1>1, <1>3, <1>4 DEF NotifyEmailSubscribers, clock, table, dispatch, TypeOK

LEMMA MailedType ==
    ASSUME TypeOK, NEW e \in Events, NEW u \in Subs, Mailed(e, u)
    PROVE  TypeOK'
<1>1. waiting' \in [Events -> SUBSET Subs] /\ mailing' \in [Events -> SUBSET Subs]
    BY DEF Mailed, NextThunk, TypeOK
<1>2. QED
    BY <1>1 DEF Mailed, clock, table, dispatch, TypeOK

LEMMA TypeInductive ==
    ASSUME TypeOK, [Next]_vars
    PROVE  TypeOK'
<1>1. CASE Subscription
    BY <1>1, SubscriptionType
<1>2. CASE NotifyEmailSubscribers
    BY <1>2, NotifyType
<1>3. ASSUME NEW e \in Events, NEW u \in Subs, Mailed(e, u) PROVE TypeOK'
    BY <1>3, MailedType
<1>4. ASSUME NEW r \in Runs, SendDigests(r) \/ DigestSent(r) \/ DigestFailed(r) PROVE TypeOK'
    BY <1>4, DispatchType
<1>5. CASE HourPasses
    <2>1. hour' \in Hours
        BY <1>5, DigestAssumption DEF HourPasses, Hours, TypeOK
    <2>2. QED
        BY <1>5, <2>1 DEF HourPasses, table, fanout, dispatch, TypeOK
<1>6. CASE DeleteRoom
    BY <1>6 DEF DeleteRoom, clock, fanout, dispatch, TypeOK
<1>7. CASE CreateRoom
    BY <1>7 DEF CreateRoom, clock, fanout, dispatch, TypeOK
<1>8. CASE Crash
    BY <1>8, DigestAssumption DEF Crash, clock, table, TypeOK
<1>9. CASE UNCHANGED vars
    BY <1>9 DEF vars, clock, table, fanout, dispatch, TypeOK
<1>10. QED
    BY <1>1, <1>2, <1>3, <1>4, <1>5, <1>6, <1>7, <1>8, <1>9 DEF Next

-----------------------------------------------------------------------------
(* The pools *)

LEMMA SubsFinite ==
    ASSUME NEW S \in SUBSET Subs
    PROVE  IsFiniteSet(S) /\ Cardinality(S) \in Nat
<1>1. IsFiniteSet(Subs)
    BY DigestAssumption, FS_Interval DEF Subs
<1>2. IsFiniteSet(S)
    BY <1>1, FS_Subset
<1>3. QED
    BY <1>2, FS_CardinalityType

\* A new pool is full, or holds all there is to send.
LEMMA PoolStarts ==
    ASSUME TypeOK, PoolFull, StartedOnce, NotifyEmailSubscribers
    PROVE  PoolFull' /\ StartedOnce'
<1>1. events + 1 \in Events
    BY NotifyType
<1>2. PICK first \in SUBSET (Recipients \ ForDigest) :
        /\ Cardinality(first) <= PoolSize
        /\ first # Recipients \ ForDigest => Cardinality(first) = PoolSize
        /\ mailing' = [mailing EXCEPT ![events + 1] = first]
        /\ waiting' = [waiting EXCEPT ![events + 1] = (Recipients \ ForDigest) \ first]
    BY DEF NotifyEmailSubscribers, StartPool
<1>3. ASSUME NEW e \in Events, e # events + 1
      PROVE  mailing'[e] = mailing[e] /\ waiting'[e] = waiting[e]
    BY <1>2, <1>3 DEF TypeOK
<1>4. /\ mailing'[events + 1] = first
      /\ waiting'[events + 1] = (Recipients \ ForDigest) \ first
    BY <1>1, <1>2 DEF TypeOK
<1>5. ASSUME NEW e \in Events
      PROVE  /\ Cardinality(mailing'[e]) <= PoolSize
             /\ waiting'[e] # {} => Cardinality(mailing'[e]) = PoolSize
             /\ waiting'[e] \intersect mailing'[e] = {}
    <2>1. CASE e = events + 1
        BY <2>1, <1>2, <1>4
    <2>2. CASE e # events + 1
        BY <2>2, <1>3 DEF PoolFull, StartedOnce
    <2>3. QED
        BY <2>1, <2>2
<1>6. QED
    BY <1>5 DEF PoolFull, StartedOnce

\* A worker hands its place to the next thunk.
LEMMA PoolGoesOn ==
    ASSUME TypeOK, PoolFull, StartedOnce, NEW e \in Events, NEW u \in Subs, Mailed(e, u)
    PROVE  PoolFull' /\ StartedOnce'
<1>1. ASSUME NEW d \in Events, d # e PROVE mailing'[d] = mailing[d] /\ waiting'[d] = waiting[d]
    BY <1>1 DEF Mailed, NextThunk, TypeOK
<1>2. IsFiniteSet(mailing[e]) /\ Cardinality(mailing[e]) \in Nat /\ u \in mailing[e]
    BY SubsFinite DEF Mailed, TypeOK
<1>3. /\ IsFiniteSet(mailing[e] \ {u})
      /\ Cardinality(mailing[e] \ {u}) = Cardinality(mailing[e]) - 1
    BY <1>2, FS_RemoveElement
<1>4. /\ Cardinality(mailing'[e]) <= PoolSize
      /\ waiting'[e] # {} => Cardinality(mailing'[e]) = PoolSize
      /\ waiting'[e] \intersect mailing'[e] = {}
    <2>1. CASE /\ waiting[e] = {}
               /\ mailing' = [mailing EXCEPT ![e] = @ \ {u}]
               /\ UNCHANGED waiting
        <3>1. mailing'[e] = mailing[e] \ {u} /\ waiting'[e] = {}
            BY <2>1 DEF TypeOK
        <3>2. Cardinality(mailing[e]) <= PoolSize
            BY DEF PoolFull
        <3>3. QED
            BY <1>2, <1>3, <3>1, <3>2, DigestAssumption
    <2>2. ASSUME NEW v \in waiting[e],
                 mailing' = [mailing EXCEPT ![e] = (@ \ {u}) \union {v}],
                 waiting' = [waiting EXCEPT ![e] = @ \ {v}]
          PROVE  /\ Cardinality(mailing'[e]) <= PoolSize
                 /\ waiting'[e] # {} => Cardinality(mailing'[e]) = PoolSize
                 /\ waiting'[e] \intersect mailing'[e] = {}
        <3>1. mailing'[e] = (mailing[e] \ {u}) \union {v} /\ waiting'[e] = waiting[e] \ {v}
            BY <2>2 DEF TypeOK
        <3>2. Cardinality(mailing[e]) = PoolSize
            BY <2>2 DEF PoolFull
        <3>3. v \notin mailing[e]
            BY <2>2 DEF StartedOnce
        <3>4. Cardinality(mailing'[e]) = (Cardinality(mailing[e]) - 1) + 1
            BY <1>3, <3>1, <3>3, FS_AddElement
        <3>5. waiting'[e] \intersect mailing'[e] = {}
            BY <3>1 DEF StartedOnce
        <3>6. QED
            BY <1>2, <3>2, <3>4, <3>5, DigestAssumption
    <2>3. QED
        BY <2>1, <2>2 DEF Mailed, NextThunk
<1>5. ASSUME NEW d \in Events
      PROVE  /\ Cardinality(mailing'[d]) <= PoolSize
             /\ waiting'[d] # {} => Cardinality(mailing'[d]) = PoolSize
             /\ waiting'[d] \intersect mailing'[d] = {}
    <2>1. CASE d = e
        BY <2>1, <1>4
    <2>2. CASE d # e
        BY <2>2, <1>1 DEF PoolFull, StartedOnce
    <2>3. QED
        BY <2>1, <2>2
<1>6. QED
    BY <1>5 DEF PoolFull, StartedOnce

\* Pools change only when an event is announced, a message has been sent, or in a crash.
LEMMA PoolInductive ==
    ASSUME TypeOK, PoolFull, StartedOnce, [Next]_vars
    PROVE  PoolFull' /\ StartedOnce'
<1>1. CASE NotifyEmailSubscribers
    BY <1>1, PoolStarts
<1>2. ASSUME NEW e \in Events, NEW u \in Subs, Mailed(e, u) PROVE PoolFull' /\ StartedOnce'
    BY <1>2, PoolGoesOn
<1>3. CASE Crash
    <2>1. \A e \in Events : waiting'[e] = {} /\ mailing'[e] = {}
        BY <1>3 DEF Crash
    <2>2. Cardinality({}) = 0 /\ 0 <= PoolSize
        BY FS_EmptySet, DigestAssumption
    <2>3. QED
        BY <2>1, <2>2 DEF PoolFull, StartedOnce
<1>4. CASE UNCHANGED <<waiting, mailing>>
    BY <1>4 DEF PoolFull, StartedOnce
<1>5. \/ NotifyEmailSubscribers \/ Crash \/ UNCHANGED <<waiting, mailing>>
      \/ \E e \in Events, u \in Subs : Mailed(e, u)
    <2>1. CASE Subscription
        BY <2>1, SubscriptionFrame DEF fanout
    <2>2. ASSUME NEW r \in Runs, SendDigests(r) \/ DigestSent(r) \/ DigestFailed(r)
          PROVE  UNCHANGED <<waiting, mailing>>
        BY <2>2 DEF SendDigests, DigestSent, DigestFailed, fanout
    <2>3. CASE HourPasses \/ DeleteRoom \/ CreateRoom \/ UNCHANGED vars
        BY <2>3 DEF HourPasses, DeleteRoom, CreateRoom, vars, fanout
    <2>4. QED
        BY <2>1, <2>2, <2>3 DEF Next
<1>6. QED
    BY <1>1, <1>2, <1>3, <1>4, <1>5

-----------------------------------------------------------------------------
(* The queue and the digests *)

\* What a run holds when its loop is at its next await: all the rows of its subscriber.
LEMMA VisitItems ==
    ASSUME TypeOK, DigestComplete, NEW r \in Runs, NEW rows \in SUBSET (Subs \X Hours),
           NEW q \in SUBSET queue, Visit(r, rows, q),
           NEW s \in Runs, NEW e \in Events, NEW u \in Subs,
           <<e, u>> \in q, u = current'[s], \E m \in items'[s] : e <= m
    PROVE  e \in items'[s]
<1>1. CASE s # r
    <2>1. current'[s] = current[s] /\ items'[s] = items[s]
        BY <1>1 DEF Visit, TypeOK
    <2>2. QED
        BY <2>1 DEF DigestComplete
<1>2. CASE s = r
    <2>1. ASSUME NEW row \in rows,
                 current' = [current EXCEPT ![r] = row[1]],
                 items' = [items EXCEPT ![r] = {d \in Events : <<d, row[1]>> \in q}]
          PROVE  e \in items'[s]
        BY <1>2, <2>1 DEF TypeOK
    <2>2. CASE current' = [current EXCEPT ![r] = 0]
        BY <1>2, <2>2, DigestAssumption DEF TypeOK, Subs
    <2>3. QED
        BY <2>1, <2>2 DEF Visit
<1>3. QED
    BY <1>1, <1>2

\* The rows of a run and the queue after one of its steps.
LEMMA DispatchVisits ==
    ASSUME TypeOK, NEW r \in Runs, SendDigests(r) \/ DigestSent(r) \/ DigestFailed(r)
    PROVE  /\ queue' \in SUBSET queue
           /\ UNCHANGED fanout
           /\ \E rows \in SUBSET (Subs \X Hours) :
                Visit(r, rows, queue') /\ (rows = Selected \/ rows = rest[r])
<1>1. rest[r] \in SUBSET (Subs \X Hours)
    BY DEF TypeOK
<1>2. CASE SendDigests(r)
    <2>1. queue' = queue /\ Visit(r, Selected, queue) /\ UNCHANGED fanout
        BY <1>2 DEF SendDigests
    <2>2. QED
        BY <2>1, SelectedType
<1>3. CASE DigestSent(r)
    BY <1>1, <1>3 DEF DigestSent, WithoutSent
<1>4. CASE DigestFailed(r)
    <2>1. queue' = queue /\ Visit(r, rest[r], queue) /\ UNCHANGED fanout
        BY <1>4 DEF DigestFailed
    <2>2. QED
        BY <1>1, <2>1
<1>5. QED
    BY <1>2, <1>3, <1>4

\* A run takes up only rows that are in the queue.
LEMMA VisitPast ==
    ASSUME TypeOK, EventsPast, NEW r \in Runs, NEW rows, NEW q \in SUBSET queue,
           Visit(r, rows, q), rows \in SUBSET (Subs \X Hours),
           NEW s \in Runs, NEW e \in Events, e \in items'[s]
    PROVE  e <= events
<1>1. CASE s # r
    <2>1. items'[s] = items[s]
        BY <1>1 DEF Visit, TypeOK
    <2>2. QED
        BY <2>1 DEF EventsPast
<1>2. CASE s = r
    <2>1. ASSUME NEW row \in rows,
                 items' = [items EXCEPT ![r] = {d \in Events : <<d, row[1]>> \in q}]
          PROVE  e <= events
        <3>1. <<e, row[1]>> \in queue /\ row[1] \in Subs
            BY <1>2, <2>1 DEF TypeOK
        <3>2. QED
            BY <3>1 DEF EventsPast
    <2>2. CASE items' = [items EXCEPT ![r] = {}]
        BY <1>2, <2>2 DEF TypeOK
    <2>3. QED
        BY <2>1, <2>2 DEF Visit
<1>3. QED
    BY <1>1, <1>2

\* Digests stay complete: rows are only added for new events, and every row there is is taken
\* up when a run gets to its subscriber.
LEMMA CompleteInductive ==
    ASSUME TypeOK, DigestComplete, EventsPast, [Next]_vars
    PROVE  DigestComplete' /\ EventsPast'
<1>1. CASE NotifyEmailSubscribers
    <2>1. events' = events + 1 /\ UNCHANGED dispatch
        BY <1>1 DEF NotifyEmailSubscribers
    <2>2. events \in Nat /\ \A e \in Events : e \in Nat
        BY DigestAssumption DEF TypeOK, Events
    <2>3. \A e \in Events, u \in Subs : <<e, u>> \in queue' => <<e, u>> \in queue \/ e = events + 1
        BY <1>1 DEF NotifyEmailSubscribers
    <2>4. ASSUME NEW r \in Runs, NEW e \in Events, NEW u \in Subs, <<e, u>> \in queue',
                 u = current'[r], NEW m \in items'[r], e <= m
          PROVE  e \in items'[r]
        <3>1. current'[r] = current[r] /\ items'[r] = items[r] /\ m \in Events
            BY <2>1, <2>4 DEF dispatch, TypeOK
        <3>2. m <= events
            BY <3>1, <2>4 DEF EventsPast
        <3>3. e # events + 1
            BY <2>2, <2>4, <3>1, <3>2
        <3>4. QED
            BY <2>3, <2>4, <3>1, <3>3 DEF DigestComplete
    <2>5. DigestComplete'
        BY <2>4 DEF DigestComplete
    <2>6. ASSUME NEW e \in Events, e > events' PROVE waiting'[e] = {} /\ mailing'[e] = {}
        <3>1. e # events + 1 /\ e > events
            BY <2>1, <2>2, <2>6
        <3>2. waiting'[e] = waiting[e] /\ mailing'[e] = mailing[e]
            BY <1>1, <3>1 DEF NotifyEmailSubscribers, StartPool, TypeOK
        <3>3. QED
            BY <3>1, <3>2 DEF EventsPast
    <2>7. \A e \in Events, u \in Subs : <<e, u>> \in queue' => e <= events'
        BY <2>1, <2>2, <2>3 DEF EventsPast
    <2>8. \A r \in Runs, e \in Events : e \in items'[r] => e <= events'
        BY <2>1, <2>2 DEF EventsPast, dispatch
    <2>9. QED
        BY <2>5, <2>6, <2>7, <2>8 DEF EventsPast
<1>2. ASSUME NEW r \in Runs, SendDigests(r) \/ DigestSent(r) \/ DigestFailed(r)
      PROVE  DigestComplete' /\ EventsPast'
    <2>1. queue' \in SUBSET queue /\ UNCHANGED <<events, waiting, mailing>>
        BY <1>2, DispatchVisits DEF fanout
    <2>2. PICK rows \in SUBSET (Subs \X Hours) : Visit(r, rows, queue')
        BY <1>2, DispatchVisits
    <2>3. DigestComplete'
        <3>1. ASSUME NEW s \in Runs, NEW e \in Events, NEW u \in Subs, <<e, u>> \in queue',
                     u = current'[s], \E m \in items'[s] : e <= m
              PROVE  e \in items'[s]
            BY <2>1, <2>2, <3>1, VisitItems
        <3>2. QED
            BY <3>1 DEF DigestComplete
    <2>4. \A s \in Runs, e \in Events : e \in items'[s] => e <= events'
        BY <2>1, <2>2, VisitPast
    <2>5. QED
        BY <2>1, <2>3, <2>4 DEF EventsPast
<1>3. ASSUME NEW e \in Events, NEW u \in Subs, Mailed(e, u)
      PROVE  DigestComplete' /\ EventsPast'
    <2>1. UNCHANGED <<queue, events, current, items>>
        BY <1>3 DEF Mailed, dispatch
    <2>2. \A d \in Events : d # e => waiting'[d] = waiting[d] /\ mailing'[d] = mailing[d]
        BY <1>3 DEF Mailed, NextThunk, TypeOK
    <2>3. ~(e > events)
        BY <1>3 DEF Mailed, EventsPast
    <2>4. QED
        BY <2>1, <2>2, <2>3 DEF DigestComplete, EventsPast
<1>4. CASE DeleteRoom
    BY <1>4 DEF DeleteRoom, fanout, dispatch, DigestComplete, EventsPast
<1>5. CASE Crash
    BY <1>5 DEF Crash, DigestComplete, EventsPast
<1>6. CASE UNCHANGED <<queue, fanout, dispatch>>
    BY <1>6 DEF fanout, dispatch, DigestComplete, EventsPast
<1>7. CASE Subscription \/ HourPasses \/ CreateRoom \/ UNCHANGED vars
    <2>1. UNCHANGED <<queue, fanout, dispatch>>
        BY <1>7, SubscriptionFrame DEF HourPasses, CreateRoom, vars
    <2>2. QED
        BY <2>1, <1>6
<1>8. QED
    BY <1>1, <1>2, <1>3, <1>4, <1>5, <1>7 DEF Next

-----------------------------------------------------------------------------
(* Theorems *)

\* The inductive invariant holds in every reachable state.
THEOREM DigestInductive == Spec => []IInv
<1>1. Init => IInv
    <2> SUFFICES ASSUME Init PROVE IInv
        OBVIOUS
    <2>1. TypeOK
        <3>1. 0 \in Hours /\ 0 \in 0 .. NSubs /\ 0 \in 0 .. MaxEvents
            BY DigestAssumption DEF Hours
        <3>2. QED
            BY <3>1, DigestAssumption DEF Init, TypeOK
    <2>2. Cardinality({}) = 0 /\ 0 <= PoolSize
        BY FS_EmptySet, DigestAssumption
    <2>3. PoolFull /\ StartedOnce
        BY <2>2 DEF Init, PoolFull, StartedOnce
    <2>4. DigestComplete /\ EventsPast
        BY DEF Init, DigestComplete, EventsPast
    <2>5. QED
        BY <2>1, <2>3, <2>4 DEF IInv
<1>2. IInv /\ [Next]_vars => IInv'
    BY TypeInductive, PoolInductive, CompleteInductive DEF IInv
<1>3. QED
    BY <1>1, <1>2, PTL DEF Spec

\* However many subscribers there are and however sends overlap, a pool keeps exactly PoolSize
\* messages in flight until it runs out of them.
THEOREM PoolCorrect == Spec => []PoolFull
<1>1. IInv => PoolFull
    BY DEF IInv
<1>2. QED
    BY <1>1, DigestInductive, PTL

\* No item leaves the digest queue unsent, whatever is queued or run while a digest is sent.
THEOREM NothingDropped == Spec => NothingDroppedUnsent
<1> DEFINE Kept == \A e \in Events, u \in Subs :
        <<e, u>> \in queue \ queue' =>
            \/ \E r \in Runs : current[r] = u /\ e \in items[r] /\ DigestSent(r)
            \/ DeleteRoom
<1>1. IInv /\ [Next]_vars => Kept
    <2> SUFFICES ASSUME IInv, [Next]_vars, NEW e \in Events, NEW u \in Subs,
                        <<e, u>> \in queue, <<e, u>> \notin queue'
                 PROVE  \/ \E r \in Runs : current[r] = u /\ e \in items[r] /\ DigestSent(r)
                        \/ DeleteRoom
        OBVIOUS
    <2>1. ASSUME NEW r \in Runs, DigestSent(r)
          PROVE  current[r] = u /\ e \in items[r]
        <3>1. <<e, u>> \notin WithoutSent(r)
            BY <2>1 DEF DigestSent
        <3>2. u = current[r] /\ \E m \in items[r] : ~(m < e)
            BY <3>1 DEF WithoutSent
        <3>3. \A m \in items[r] : m \in Int /\ e \in Int
            BY DEF IInv, TypeOK, Events
        <3>4. QED
            BY <3>2, <3>3 DEF IInv, DigestComplete
    <2>2. DeleteRoom \/ \E r \in Runs : DigestSent(r)
        <3>1. Subscription => queue' = queue
            BY SubscriptionFrame
        <3>2. NotifyEmailSubscribers => <<e, u>> \in queue'
            BY DEF NotifyEmailSubscribers
        <3>3. (\E d \in Events, v \in Subs : Mailed(d, v)) => queue' = queue
            BY DEF Mailed
        <3>4. (\E r \in Runs : SendDigests(r) \/ DigestFailed(r)) => queue' = queue
            BY DEF SendDigests, DigestFailed
        <3>5. HourPasses \/ CreateRoom \/ Crash \/ UNCHANGED vars => queue' = queue
            BY DEF HourPasses, CreateRoom, Crash, vars
        <3>6. QED
            BY <3>1, <3>2, <3>3, <3>4, <3>5 DEF Next
    <2>3. QED
        BY <2>1, <2>2
<1>2. QED
    BY <1>1, DigestInductive, PTL DEF Spec, NothingDroppedUnsent

\* Nobody who has unsubscribed gets into another pool or run.
THEOREM NoNewMail == Spec => NoNewMailOnceStopped
<1> DEFINE Left == \A u \in stopped : Committed(u)' => Committed(u)
<1>1. IInv /\ [Next]_vars => Left
    <2> SUFFICES ASSUME IInv, [Next]_vars, NEW u \in stopped, Committed(u)' PROVE Committed(u)
        OBVIOUS
    <2>0. TypeOK /\ u \in Subs
        BY DEF IInv, TypeOK
    <2>1. CASE UNCHANGED <<waiting, mailing, rest, current>>
        BY <2>1 DEF Committed
    <2>2. CASE NotifyEmailSubscribers
        <3>1. u \notin Recipients
            BY DEF Recipients, Mailable
        <3>2. \A e \in Events : u \in waiting'[e] \/ u \in mailing'[e] =>
                u \in waiting[e] \/ u \in mailing[e]
            BY <2>0, <2>2, <3>1 DEF NotifyEmailSubscribers, StartPool, TypeOK
        <3>3. QED
            BY <2>2, <3>2 DEF NotifyEmailSubscribers, dispatch, Committed
    <2>3. ASSUME NEW e \in Events, NEW v \in Subs, Mailed(e, v) PROVE Committed(u)
        <3>1. \A d \in Events : u \in waiting'[d] \/ u \in mailing'[d] =>
                u \in waiting[d] \/ u \in mailing[d]
            BY <2>0, <2>3 DEF Mailed, NextThunk, TypeOK
        <3>2. QED
            BY <2>3, <3>1 DEF Mailed, dispatch, Committed
    <2>4. ASSUME NEW r \in Runs, SendDigests(r) \/ DigestSent(r) \/ DigestFailed(r)
          PROVE  Committed(u)
        <3>1. UNCHANGED <<waiting, mailing>>
            BY <2>4 DEF SendDigests, DigestSent, DigestFailed, fanout
        <3>2. PICK rows \in SUBSET (Subs \X Hours) :
                Visit(r, rows, queue') /\ (rows = Selected \/ rows = rest[r])
            BY <2>0, <2>4, DispatchVisits
        <3>3. \A row \in Selected : row[1] # u
            BY DEF Selected, Mailable
        <3>4. ASSUME NEW s \in Runs, current'[s] = u \/ \E row \in rest'[s] : row[1] = u
              PROVE  Committed(u)
            <4>1. CASE s # r
                <5>1. current'[s] = current[s] /\ rest'[s] = rest[s]
                    BY <2>0, <3>2, <4>1 DEF Visit, TypeOK
                <5>2. QED
                    BY <3>4, <5>1 DEF Committed
            <4>2. CASE s = r
                <5>1. \E row \in rows : row[1] = u
                    <6>1. 0 \notin Subs
                        BY DEF Subs
                    <6>2. QED
                        BY <2>0, <3>2, <3>4, <4>2, <6>1 DEF Visit, TypeOK
                <5>2. rows = rest[r]
                    BY <3>2, <3>3, <5>1
                <5>3. QED
                    BY <5>1, <5>2 DEF Committed
            <4>3. QED
                BY <4>1, <4>2
        <3>5. QED
            BY <3>1, <3>4 DEF Committed
    <2>5. CASE Crash
        BY <2>0, <2>5 DEF Crash, Committed, Subs
    <2>6. CASE Subscription \/ HourPasses \/ DeleteRoom \/ CreateRoom \/ UNCHANGED vars
        BY <2>1, <2>6, SubscriptionFrame
           DEF HourPasses, DeleteRoom, CreateRoom, vars, fanout, dispatch
    <2>7. QED
        BY <2>2, <2>3, <2>4, <2>5, <2>6 DEF Next
<1>2. QED
    BY <1>1, DigestInductive, PTL DEF Spec, NoNewMailOnceStopped
=============================================================================
