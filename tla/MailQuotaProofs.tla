-------------------------- MODULE MailQuotaProofs --------------------------
(***************************************************************************)
(* Proofs about MailQuota, for any chain of providers, any limits and any  *)
(* number of concurrent calls, days and crashes.                           *)
(***************************************************************************)
EXTENDS MailQuota, FiniteSetTheorems, TLAPS

\* The counters of a database table.
Table == [Providers -> [Days -> Int]]

-----------------------------------------------------------------------------
(* Calls in flight *)

LEMMA InFlightFinite ==
    ASSUME NEW p
    PROVE  IsFiniteSet(InFlight(p)) /\ Cardinality(InFlight(p)) \in Nat
<1>1. InFlight(p) \in SUBSET Senders
    BY DEF InFlight
<1>2. IsFiniteSet(InFlight(p))
    BY <1>1, MailQuotaAssumption, FS_Subset
<1>3. QED
    BY <1>2, FS_CardinalityType

\* How the calls in flight at each provider change when one call moves on.
LEMMA Moved ==
    ASSUME TypeOK, NEW s \in Senders, NEW q \in 0 .. NProviders, at' = [at EXCEPT ![s] = q],
           NEW p \in Providers
    PROVE  /\ at[s] = p => Cardinality(InFlight(p)) >= 1
           /\ at[s] = p /\ q # p => Cardinality(InFlight(p))' = Cardinality(InFlight(p)) - 1
           /\ at[s] # p /\ q = p => Cardinality(InFlight(p))' = Cardinality(InFlight(p)) + 1
           /\ (at[s] = p) <=> (q = p) => Cardinality(InFlight(p))' = Cardinality(InFlight(p))
<1>1. IsFiniteSet(InFlight(p)) /\ Cardinality(InFlight(p)) \in Nat
    BY InFlightFinite
<1>2. ASSUME at[s] = p PROVE Cardinality(InFlight(p)) >= 1
    <2>1. s \in InFlight(p)
        BY <1>2 DEF InFlight
    <2>2. Cardinality(InFlight(p)) # 0
        BY <1>1, <2>1, FS_EmptySet
    <2>3. QED
        BY <1>1, <2>2
<1>3. ASSUME at[s] = p, q # p PROVE Cardinality(InFlight(p))' = Cardinality(InFlight(p)) - 1
    <2>1. InFlight(p)' = InFlight(p) \ {s} /\ s \in InFlight(p)
        BY <1>3 DEF InFlight, TypeOK
    <2>2. QED
        BY <1>1, <2>1, FS_RemoveElement
<1>4. ASSUME at[s] # p, q = p PROVE Cardinality(InFlight(p))' = Cardinality(InFlight(p)) + 1
    <2>1. InFlight(p)' = InFlight(p) \union {s} /\ s \notin InFlight(p)
        BY <1>4 DEF InFlight, TypeOK
    <2>2. QED
        BY <1>1, <2>1, FS_AddElement
<1>5. ASSUME (at[s] = p) <=> (q = p) PROVE Cardinality(InFlight(p))' = Cardinality(InFlight(p))
    <2>1. InFlight(p)' = InFlight(p)
        BY <1>5 DEF InFlight, TypeOK
    <2>2. QED
        BY <2>1
<1>6. QED
    BY <1>2, <1>3, <1>4, <1>5

-----------------------------------------------------------------------------
(* One pass of the loop over the providers *)

\* A pass ends at a later provider that has a slot, which it takes, or at none.
LEMMA Tried ==
    ASSUME TypeOK, NEW s \in Senders, NEW first \in 1 .. (NProviders + 1), NEW c \in Table,
           TryFrom(s, first, c)
    PROVE  \E q \in 0 .. NProviders :
            /\ at' = [at EXCEPT ![s] = q]
            /\ q # 0 => q >= first /\ Available(q)
            /\ counter' \in Table
            /\ rows \subseteq rows' /\ rows' \subseteq Providers \X Days
            /\ \A p \in Providers, d \in Days : Limited(p) =>
                IF p = q /\ d = today THEN counter'[p][d] = c[p][d] + 1 /\ <<p, d>> \in rows'
                                      ELSE counter'[p][d] = c[p][d]
<1> USE DEF Providers
<1>1. CASE \E p \in Providers :
            /\ p >= first /\ Available(p)
            /\ at' = [at EXCEPT ![s] = p]
            /\ ReserveSlot(p, c)
    <2>1. PICK p \in Providers : /\ p >= first /\ Available(p)
                                 /\ at' = [at EXCEPT ![s] = p]
                                 /\ ReserveSlot(p, c)
        BY <1>1
    <2>2. p \in 0 .. NProviders /\ p # 0
        BY MailQuotaAssumption
    <2>3. CASE Limited(p)
        <3>1. counter' = [c EXCEPT ![p][today] = @ + 1] /\ rows' = rows \union {<<p, today>>}
            BY <2>1, <2>3 DEF ReserveSlot
        <3>2. counter' \in Table
            BY <3>1 DEF Table, TypeOK
        <3>3. rows \subseteq rows' /\ rows' \subseteq Providers \X Days
            BY <3>1 DEF TypeOK
        <3>4. \A r \in Providers, d \in Days :
                IF r = p /\ d = today THEN counter'[r][d] = c[r][d] + 1 /\ <<r, d>> \in rows'
                                      ELSE counter'[r][d] = c[r][d]
            BY <3>1 DEF Table, TypeOK
        <3>5. QED
            BY <2>1, <2>2, <3>2, <3>3, <3>4
    <2>4. CASE ~Limited(p)
        <3>1. counter' = c /\ rows' = rows
            BY <2>1, <2>4 DEF ReserveSlot
        <3>2. \A r \in Providers, d \in Days : Limited(r) =>
                IF r = p /\ d = today THEN counter'[r][d] = c[r][d] + 1 /\ <<r, d>> \in rows'
                                      ELSE counter'[r][d] = c[r][d]
            BY <2>4, <3>1
        <3>3. QED
            BY <2>1, <2>2, <3>1, <3>2 DEF TypeOK
    <2>5. QED
        BY <2>3, <2>4
<1>2. CASE at' = [at EXCEPT ![s] = 0] /\ counter' = c /\ rows' = rows
    <2>1. 0 \in 0 .. NProviders /\ 0 \notin Providers
        BY MailQuotaAssumption
    <2>2. QED
        BY <1>2, <2>1 DEF TypeOK
<1>3. QED
    BY <1>1, <1>2 DEF TryFrom

\* What giving the slot back does to the counters.
LEMMA Released ==
    ASSUME TypeOK, NEW r \in Providers
    PROVE  /\ ReleaseSlot(r) \in Table
           /\ \A p \in Providers, d \in Days : Limited(p) =>
                IF p = r /\ d = today /\ <<p, d>> \in rows
                THEN ReleaseSlot(r)[p][d] = counter[p][d] - 1
                ELSE ReleaseSlot(r)[p][d] = counter[p][d]
<1>1. CASE Limited(r) /\ <<r, today>> \in rows
    <2>1. ReleaseSlot(r) = [counter EXCEPT ![r][today] = @ - 1]
        BY <1>1 DEF ReleaseSlot
    <2>2. ReleaseSlot(r) \in Table
        BY <2>1 DEF TypeOK, Table
    <2>3. ReleaseSlot(r)[r][today] = counter[r][today] - 1
        BY <2>1 DEF TypeOK
    <2>4. ASSUME NEW p \in Providers, NEW d \in Days, ~(p = r /\ d = today)
          PROVE  ReleaseSlot(r)[p][d] = counter[p][d]
        BY <2>1, <2>4 DEF TypeOK
    <2>5. QED
        BY <1>1, <2>2, <2>3, <2>4
<1>2. CASE ~(Limited(r) /\ <<r, today>> \in rows)
    <2>1. ReleaseSlot(r) = counter
        BY <1>2 DEF ReleaseSlot
    <2>2. QED
        BY <1>2, <2>1 DEF TypeOK, Table
<1>3. QED
    BY <1>1, <1>2

-----------------------------------------------------------------------------
(* The inductive invariant, one step at a time *)

\* The invariant at one provider and date.
Balance(p, d) ==
    Limited(p) =>
        /\ <<p, d>> \notin rows => counter[p][d] = 0
        /\ counter[p][d] <= Limit[p]
        /\ accepted[p][d] <= counter[p][d] + slack[p][d]
        /\ d = today =>
            /\ accepted[p][d] + Cardinality(InFlight(p)) <= counter[p][d] + slack[p][d]
            /\ counter[p][d] <= accepted[p][d] + Cardinality(InFlight(p)) + lost[p][d]
        /\ d > today => accepted[p][d] = 0 /\ counter[p][d] = 0 /\ slack[p][d] = 0 /\ lost[p][d] = 0

Balanced == \A p \in Providers, d \in Days : Balance(p, d)

LEMMA IInvIsBalance == (IInv <=> TypeOK /\ Balanced) /\ (IInv' <=> TypeOK' /\ Balanced')
<1>1. TypeOK => today \in Days
    BY DEF TypeOK
<1>2. IInv <=> TypeOK /\ Balanced
    BY <1>1 DEF IInv, Counted, NoSlotLost, Balanced, Balance
<1>3. TypeOK' => today' \in Days
    BY DEF TypeOK
<1>4. IInv' <=> TypeOK' /\ Balanced'
    BY <1>3 DEF IInv, Counted, NoSlotLost, Balanced, Balance
<1>5. QED
    BY <1>2, <1>4

\* A new call takes a slot of the provider it starts at.
LEMMA SendStep ==
    ASSUME IInv, NEW s \in Senders, Send(s)
    PROVE  IInv'
<1>0. TypeOK /\ Balanced
    BY IInvIsBalance
<1>1. counter \in Table /\ 1 \in 1 .. (NProviders + 1) /\ TryFrom(s, 1, counter)
    BY <1>0, MailQuotaAssumption DEF Send, TypeOK, Table
<1>2. PICK q \in 0 .. NProviders :
            /\ at' = [at EXCEPT ![s] = q]
            /\ q # 0 => q >= 1 /\ Available(q)
            /\ counter' \in Table
            /\ rows \subseteq rows' /\ rows' \subseteq Providers \X Days
            /\ \A p \in Providers, d \in Days : Limited(p) =>
                IF p = q /\ d = today THEN counter'[p][d] = counter[p][d] + 1 /\ <<p, d>> \in rows'
                                      ELSE counter'[p][d] = counter[p][d]
    BY <1>0, <1>1, Tried
<1>3. UNCHANGED <<today, accepted, slack, lost>> /\ at[s] = 0
    BY DEF Send
<1>4. TypeOK'
    BY <1>0, <1>2, <1>3 DEF TypeOK, Table
<1>5. ASSUME NEW p \in Providers, NEW d \in Days PROVE Balance(p, d)'
    <2>1. SUFFICES ASSUME Limited(p) PROVE Balance(p, d)'
        BY DEF Balance, Limited
    <2>2. at[s] # p
        BY <1>3 DEF Providers
    <2>3. Cardinality(InFlight(p)) \in Nat
        BY InFlightFinite
    <2>4. /\ q = p => Cardinality(InFlight(p))' = Cardinality(InFlight(p)) + 1
          /\ q # p => Cardinality(InFlight(p))' = Cardinality(InFlight(p))
        BY <1>0, <1>2, <2>2, Moved
    <2>5. Balance(p, d)
        BY <1>0 DEF Balanced
    <2>6. /\ counter[p][d] \in Int /\ accepted[p][d] \in Nat /\ slack[p][d] \in Nat /\ lost[p][d] \in Nat
          /\ Limit[p] \in Nat /\ today \in Nat /\ d \in Nat
        BY <1>0, MailQuotaAssumption DEF TypeOK, Days
    <2>7. CASE p = q /\ d = today
        <3>1. counter'[p][d] = counter[p][d] + 1 /\ <<p, d>> \in rows'
            BY <1>2, <2>1, <2>7
        <3>2. counter[p][d] < Limit[p]
            BY <1>2, <2>1, <2>7 DEF Available, Providers
        <3>3. Cardinality(InFlight(p))' = Cardinality(InFlight(p)) + 1
            BY <2>4, <2>7
        <3>4. QED
            BY <1>3, <2>1, <2>3, <2>5, <2>6, <2>7, <3>1, <3>2, <3>3 DEF Balance
    <2>8. CASE ~(p = q /\ d = today)
        <3>1. counter'[p][d] = counter[p][d] /\ rows \subseteq rows'
            BY <1>2, <2>1, <2>8
        <3>2. d = today => Cardinality(InFlight(p))' = Cardinality(InFlight(p))
            BY <2>4, <2>8
        <3>3. QED
            BY <1>3, <2>1, <2>3, <2>5, <2>6, <3>1, <3>2 DEF Balance
    <2>9. QED
        BY <2>7, <2>8
<1>6. QED
    BY <1>4, <1>5, IInvIsBalance DEF Balanced

\* A failed send moves its slot to the next provider that has one; an answer that was lost
\* (extra = 1) adds a message and as much slack.
LEMMA FailStep ==
    ASSUME IInv, NEW s \in Senders, NEW extra \in {0, 1}, at[s] # 0,
           TryFrom(s, NextProvider(at[s]), ReleaseSlot(at[s])),
           today' = today, lost' = lost,
           accepted' = [accepted EXCEPT ![at[s]][today] = @ + extra],
           slack' = [slack EXCEPT ![at[s]][today] = @ + extra]
    PROVE  IInv'
<1> DEFINE r == at[s]
<1> DEFINE c == ReleaseSlot(r)
<1>0. TypeOK /\ Balanced
    BY IInvIsBalance
<1>1. r \in Providers /\ r + 1 \in 1 .. (NProviders + 1) /\ NextProvider(r) = r + 1
    BY <1>0, MailQuotaAssumption DEF TypeOK, Providers, NextProvider
<1>2. /\ c \in Table
      /\ \A p \in Providers, d \in Days : Limited(p) =>
            IF p = r /\ d = today /\ <<p, d>> \in rows
            THEN c[p][d] = counter[p][d] - 1
            ELSE c[p][d] = counter[p][d]
    BY <1>0, <1>1, Released
<1>3. PICK q \in 0 .. NProviders :
            /\ at' = [at EXCEPT ![s] = q]
            /\ q # 0 => q >= r + 1 /\ Available(q)
            /\ counter' \in Table
            /\ rows \subseteq rows' /\ rows' \subseteq Providers \X Days
            /\ \A p \in Providers, d \in Days : Limited(p) =>
                IF p = q /\ d = today THEN counter'[p][d] = c[p][d] + 1 /\ <<p, d>> \in rows'
                                      ELSE counter'[p][d] = c[p][d]
    <2>1. TryFrom(s, r + 1, c)
        BY <1>1
    <2> HIDE DEF c, r
    <2>2. QED
        BY <1>0, <1>1, <1>2, <2>1, Tried
<1>4. q # r
    BY <1>1, <1>3 DEF Providers
<1> HIDE DEF c
<1>5. TypeOK'
    <2>1. accepted' \in [Providers -> [Days -> Nat]] /\ slack' \in [Providers -> [Days -> Nat]]
        BY <1>0, <1>1 DEF TypeOK
    <2>2. QED
        BY <1>0, <1>3, <2>1 DEF TypeOK, Table
<1>6. ASSUME NEW p \in Providers, NEW d \in Days PROVE Balance(p, d)'
    <2>1. SUFFICES ASSUME Limited(p) PROVE Balance(p, d)'
        BY DEF Balance, Limited
    <2>2. Balance(p, d)
        BY <1>0 DEF Balanced
    <2>3. /\ counter[p][d] \in Int /\ accepted[p][d] \in Nat /\ slack[p][d] \in Nat /\ lost[p][d] \in Nat
          /\ Limit[p] \in Nat /\ today \in Nat /\ d \in Nat
          /\ Cardinality(InFlight(p)) \in Nat
        BY <1>0, MailQuotaAssumption, InFlightFinite DEF TypeOK, Days
    <2>4. /\ p = r => Cardinality(InFlight(p)) >= 1 /\ Cardinality(InFlight(p))' = Cardinality(InFlight(p)) - 1
          /\ p = q => Cardinality(InFlight(p))' = Cardinality(InFlight(p)) + 1
          /\ p # r /\ p # q => Cardinality(InFlight(p))' = Cardinality(InFlight(p))
        BY <1>0, <1>3, <1>4, Moved
    <2>5. CASE d # today
        <3>1. counter'[p][d] = counter[p][d] /\ rows \subseteq rows'
            BY <1>2, <1>3, <2>1, <2>5
        <3>2. accepted'[p][d] = accepted[p][d] /\ slack'[p][d] = slack[p][d]
            BY <1>0, <1>1, <2>5 DEF TypeOK
        <3>3. QED
            BY <2>1, <2>2, <2>3, <2>5, <3>1, <3>2 DEF Balance
    <2>6. CASE d = today /\ p = r
        <3>1. /\ counter'[p][d] = IF <<p, d>> \in rows THEN counter[p][d] - 1 ELSE counter[p][d]
              /\ rows \subseteq rows'
            BY <1>2, <1>3, <1>4, <2>1, <2>6
        <3>2. accepted'[p][d] = accepted[p][d] + extra /\ slack'[p][d] = slack[p][d] + extra
            BY <1>0, <1>1, <2>6 DEF TypeOK
        <3>3. CASE <<p, d>> \in rows
            <4>1. /\ Cardinality(InFlight(p)) >= 1
                  /\ Cardinality(InFlight(p))' = Cardinality(InFlight(p)) - 1
                  /\ extra \in Nat /\ today' = d
                BY <2>4, <2>6
            <4>2. /\ counter[p][d] <= Limit[p]
                  /\ accepted[p][d] + Cardinality(InFlight(p)) <= counter[p][d] + slack[p][d]
                  /\ counter[p][d] <= accepted[p][d] + Cardinality(InFlight(p)) + lost[p][d]
                BY <2>1, <2>2, <2>6 DEF Balance
            <4>3. counter'[p][d] = counter[p][d] - 1 /\ <<p, d>> \in rows'
                BY <3>1, <3>3
            <4> HIDE DEF r
            <4>4. QED
                BY <2>3, <3>2, <4>1, <4>2, <4>3 DEF Balance
        <3>4. CASE <<p, d>> \notin rows
            BY <2>1, <2>2, <2>3, <2>4, <2>6, <3>1, <3>2, <3>4 DEF Balance
        <3>5. QED
            BY <3>3, <3>4
    <2>7. CASE d = today /\ p # r
        <3>1. accepted'[p][d] = accepted[p][d] /\ slack'[p][d] = slack[p][d]
            BY <1>0, <1>1, <2>7 DEF TypeOK
        <3>2. CASE p = q
            <4>1. counter'[p][d] = counter[p][d] + 1 /\ <<p, d>> \in rows'
                BY <1>2, <1>3, <2>1, <2>7, <3>2
            <4>2. counter[p][d] < Limit[p]
                BY <1>3, <2>1, <2>7, <3>2 DEF Available, Providers
            <4>3. QED
                BY <2>1, <2>2, <2>3, <2>4, <2>7, <3>1, <3>2, <4>1, <4>2 DEF Balance
        <3>3. CASE p # q
            <4>1. counter'[p][d] = counter[p][d] /\ rows \subseteq rows'
                BY <1>2, <1>3, <2>1, <2>7, <3>3
            <4>2. QED
                BY <2>1, <2>2, <2>3, <2>4, <2>7, <3>1, <3>3, <4>1 DEF Balance
        <3>4. QED
            BY <3>2, <3>3
    <2>8. QED
        BY <2>5, <2>6, <2>7
<1>7. QED
    BY <1>5, <1>6, IInvIsBalance DEF Balanced

\* An accepted message was counted when its slot was reserved.
LEMMA AcceptStep ==
    ASSUME IInv, NEW s \in Senders, Accept(s)
    PROVE  IInv'
<1> DEFINE r == at[s]
<1>0. TypeOK /\ Balanced
    BY IInvIsBalance
<1>1. r \in Providers /\ r # 0 /\ at' = [at EXCEPT ![s] = 0] /\ 0 \in 0 .. NProviders
    BY <1>0, MailQuotaAssumption DEF Accept, TypeOK, Providers
<1>2. UNCHANGED <<today, slack, lost>> /\ accepted' = [accepted EXCEPT ![r][today] = @ + 1]
    BY DEF Accept, Took
<1>3. /\ counter' \in Table
      /\ rows \subseteq rows' /\ rows' \subseteq Providers \X Days
      /\ \A p \in Providers, d \in Days : Limited(p) => counter'[p][d] = counter[p][d]
    <2>1. CASE Limited(r)
        BY <1>0, <2>1 DEF Accept, TypeOK, Table
    <2>2. CASE ~Limited(r)
        <3>1. counter' = [counter EXCEPT ![r][today] = @ + 1] /\ rows' = rows \union {<<r, today>>}
            BY <2>2 DEF Accept
        <3>2. \A p \in Providers, d \in Days : p # r => counter'[p][d] = counter[p][d]
            BY <1>0, <3>1 DEF TypeOK
        <3>3. counter' \in Table
            BY <1>0, <1>1, <3>1 DEF TypeOK, Table
        <3>4. rows \subseteq rows' /\ rows' \subseteq Providers \X Days
            BY <1>0, <1>1, <3>1 DEF TypeOK
        <3>5. QED
            BY <2>2, <3>2, <3>3, <3>4
    <2>3. QED
        BY <2>1, <2>2
<1>4. TypeOK'
    <2>1. accepted' \in [Providers -> [Days -> Nat]]
        BY <1>0, <1>1, <1>2 DEF TypeOK
    <2>2. QED
        BY <1>0, <1>1, <1>2, <1>3, <2>1 DEF TypeOK, Table
<1>5. ASSUME NEW p \in Providers, NEW d \in Days PROVE Balance(p, d)'
    <2>1. SUFFICES ASSUME Limited(p) PROVE Balance(p, d)'
        BY DEF Balance, Limited
    <2>2. Balance(p, d)
        BY <1>0 DEF Balanced
    <2>3. /\ counter[p][d] \in Int /\ accepted[p][d] \in Nat /\ slack[p][d] \in Nat /\ lost[p][d] \in Nat
          /\ Limit[p] \in Nat /\ today \in Nat /\ d \in Nat
          /\ Cardinality(InFlight(p)) \in Nat
        BY <1>0, MailQuotaAssumption, InFlightFinite DEF TypeOK, Days
    <2>4. p # 0
        BY DEF Providers
    <2>5. /\ p = r => Cardinality(InFlight(p)) >= 1 /\ Cardinality(InFlight(p))' = Cardinality(InFlight(p)) - 1
          /\ p # r => Cardinality(InFlight(p))' = Cardinality(InFlight(p))
        BY <1>0, <1>1, <2>4, Moved
    <2>6. counter'[p][d] = counter[p][d] /\ rows \subseteq rows'
        BY <1>3, <2>1
    <2>7. /\ p = r /\ d = today => accepted'[p][d] = accepted[p][d] + 1
          /\ ~(p = r /\ d = today) => accepted'[p][d] = accepted[p][d]
        BY <1>0, <1>1, <1>2 DEF TypeOK
    <2> HIDE DEF r
    <2>8. CASE p = r /\ d = today
        BY <1>2, <2>1, <2>2, <2>3, <2>5, <2>6, <2>7, <2>8 DEF Balance
    <2>9. CASE ~(p = r /\ d = today)
        BY <1>2, <2>1, <2>2, <2>3, <2>5, <2>6, <2>7, <2>9 DEF Balance
    <2>10. QED
        BY <2>8, <2>9
<1>6. QED
    BY <1>4, <1>5, IInvIsBalance DEF Balanced

\* At midnight the counters start anew; the calls in flight become slack of the new day.
LEMMA MidnightStep ==
    ASSUME IInv, Midnight
    PROVE  IInv'
<1>0. TypeOK /\ Balanced
    BY IInvIsBalance
<1>1. /\ today' = today + 1 /\ today' \in Days /\ today \in Nat
      /\ UNCHANGED <<rows, counter, at, accepted, lost>>
      /\ slack' = [p \in Providers |-> [slack[p] EXCEPT ![today + 1] = Cardinality(InFlight(p))]]
    BY <1>0, MailQuotaAssumption DEF Midnight, TypeOK, Days
<1>2. TypeOK'
    <2>1. slack' \in [Providers -> [Days -> Nat]]
        BY <1>0, <1>1, InFlightFinite DEF TypeOK
    <2>2. QED
        BY <1>0, <1>1, <2>1 DEF TypeOK
<1>3. ASSUME NEW p \in Providers, NEW d \in Days PROVE Balance(p, d)'
    <2>1. Balance(p, d)
        BY <1>0 DEF Balanced
    <2>2. /\ counter[p][d] \in Int /\ accepted[p][d] \in Nat /\ slack[p][d] \in Nat /\ lost[p][d] \in Nat
          /\ Limit[p] \in Nat /\ today \in Nat /\ d \in Nat
          /\ Cardinality(InFlight(p)) \in Nat
        BY <1>0, MailQuotaAssumption, InFlightFinite DEF TypeOK, Days
    <2>3. Cardinality(InFlight(p))' = Cardinality(InFlight(p))
        BY <1>1 DEF InFlight
    <2>4. slack'[p][d] = IF d = today + 1 THEN Cardinality(InFlight(p)) ELSE slack[p][d]
        BY <1>0, <1>1 DEF TypeOK
    <2>5. QED
        BY <1>1, <2>1, <2>2, <2>3, <2>4 DEF Balance, Limited
<1>4. QED
    BY <1>2, <1>3, IInvIsBalance DEF Balanced

\* A crash leaves the reserved slots taken, whether or not their messages got through.
LEMMA CrashStep ==
    ASSUME IInv, Crash
    PROVE  IInv'
<1>0. TypeOK /\ Balanced
    BY IInvIsBalance
<1>1. PICK took \in SUBSET Senders :
        /\ accepted' = [p \in Providers |->
              [accepted[p] EXCEPT ![today] = @ + Cardinality(InFlight(p) \intersect took)]]
        /\ lost' = [p \in Providers |->
              IF Limited(p)
              THEN [lost[p] EXCEPT ![today] = @ + Cardinality(InFlight(p) \ took)]
              ELSE lost[p]]
    BY DEF Crash
<1>2. at' = [s \in Senders |-> 0] /\ UNCHANGED <<today, rows, counter, slack>>
    BY DEF Crash
<1>3. ASSUME NEW p \in Providers
      PROVE  /\ Cardinality(InFlight(p)) \in Nat
             /\ Cardinality(InFlight(p) \intersect took) \in Nat
             /\ Cardinality(InFlight(p) \ took) \in Nat
             /\ Cardinality(InFlight(p)) =
                    Cardinality(InFlight(p) \intersect took) + Cardinality(InFlight(p) \ took)
             /\ Cardinality(InFlight(p))' = 0
    <2>1. IsFiniteSet(InFlight(p)) /\ Cardinality(InFlight(p)) \in Nat
        BY InFlightFinite
    <2>2. /\ IsFiniteSet(InFlight(p) \intersect took)
          /\ IsFiniteSet(InFlight(p) \ took)
          /\ Cardinality(InFlight(p) \ took) =
                Cardinality(InFlight(p)) - Cardinality(InFlight(p) \intersect took)
        BY <2>1, FS_Intersection, FS_Difference
    <2>3. /\ Cardinality(InFlight(p) \intersect took) \in Nat
          /\ Cardinality(InFlight(p) \ took) \in Nat
        BY <2>2, FS_CardinalityType
    <2>4. InFlight(p)' = {}
        BY <1>2 DEF InFlight, Providers
    <2>5. Cardinality(InFlight(p))' = 0
        BY <2>4, FS_EmptySet
    <2>6. QED
        BY <2>1, <2>2, <2>3, <2>5
<1>4. TypeOK'
    <2>1. accepted' \in [Providers -> [Days -> Nat]]
        <3>1. ASSUME NEW p \in Providers
              PROVE  [accepted[p] EXCEPT ![today] = @ + Cardinality(InFlight(p) \intersect took)]
                        \in [Days -> Nat]
            <4>1. accepted[p] \in [Days -> Nat] /\ accepted[p][today] \in Nat
                BY <1>0 DEF TypeOK
            <4>2. Cardinality(InFlight(p) \intersect took) \in Nat
                BY <1>3
            <4>3. accepted[p][today] + Cardinality(InFlight(p) \intersect took) \in Nat
                BY <4>1, <4>2
            <4>4. QED
                BY <4>1, <4>3
        <3>2. QED
            BY <1>1, <3>1
    <2>2. lost' \in [Providers -> [Days -> Nat]]
        <3>1. ASSUME NEW p \in Providers
              PROVE  /\ [lost[p] EXCEPT ![today] = @ + Cardinality(InFlight(p) \ took)] \in [Days -> Nat]
                     /\ lost[p] \in [Days -> Nat]
            <4>1. lost[p] \in [Days -> Nat] /\ lost[p][today] \in Nat
                BY <1>0 DEF TypeOK
            <4>2. Cardinality(InFlight(p) \ took) \in Nat
                BY <1>3
            <4>3. lost[p][today] + Cardinality(InFlight(p) \ took) \in Nat
                BY <4>1, <4>2
            <4>4. QED
                BY <4>1, <4>3
        <3>2. QED
            BY <1>1, <3>1
    <2>3. QED
        BY <1>0, <1>2, <2>1, <2>2, MailQuotaAssumption DEF TypeOK
<1>5. ASSUME NEW p \in Providers, NEW d \in Days PROVE Balance(p, d)'
    <2>1. SUFFICES ASSUME Limited(p) PROVE Balance(p, d)'
        BY DEF Balance, Limited
    <2>2. Balance(p, d)
        BY <1>0 DEF Balanced
    <2>3. /\ counter[p][d] \in Int /\ accepted[p][d] \in Nat /\ slack[p][d] \in Nat /\ lost[p][d] \in Nat
          /\ Limit[p] \in Nat /\ today \in Nat /\ d \in Nat
        BY <1>0, MailQuotaAssumption DEF TypeOK, Days
    <2>4. /\ d = today => accepted'[p][d] = accepted[p][d] + Cardinality(InFlight(p) \intersect took)
          /\ d # today => accepted'[p][d] = accepted[p][d]
        BY <1>0, <1>1 DEF TypeOK
    <2>5. /\ d = today => lost'[p][d] = lost[p][d] + Cardinality(InFlight(p) \ took)
          /\ d # today => lost'[p][d] = lost[p][d]
        BY <1>0, <1>1, <2>1 DEF TypeOK
    <2>6. CASE d = today
        BY <1>2, <1>3, <2>1, <2>2, <2>3, <2>4, <2>5, <2>6 DEF Balance
    <2>7. CASE d # today
        BY <1>2, <1>3, <2>1, <2>2, <2>3, <2>4, <2>5, <2>7 DEF Balance
    <2>8. QED
        BY <2>6, <2>7
<1>6. QED
    BY <1>4, <1>5, IInvIsBalance DEF Balanced

LEMMA InitBalanced == Init => IInv
<1> SUFFICES ASSUME Init PROVE IInv
    OBVIOUS
<1>1. TypeOK
    BY MailQuotaAssumption DEF Init, TypeOK, Days
<1>2. ASSUME NEW p \in Providers PROVE Cardinality(InFlight(p)) = 0
    <2>1. InFlight(p) = {}
        BY DEF Init, InFlight, Providers
    <2>2. QED
        BY <2>1, FS_EmptySet
<1>3. ASSUME NEW p \in Providers, NEW d \in Days PROVE Balance(p, d)
    <2>1. /\ counter[p][d] = 0 /\ accepted[p][d] = 0 /\ slack[p][d] = 0 /\ lost[p][d] = 0
          /\ Limit[p] \in Nat
        BY MailQuotaAssumption DEF Init
    <2>2. QED
        BY <1>2, <2>1 DEF Balance
<1>4. QED
    BY <1>1, <1>3, IInvIsBalance DEF Balanced

-----------------------------------------------------------------------------
(* Theorems *)

\* The accounting of sendEmail is inductive, for any chain of providers and any concurrency.
THEOREM QuotaInductive == Spec => []IInv
<1>1. IInv /\ [Next]_vars => IInv'
    <2> SUFFICES ASSUME IInv, [Next]_vars PROVE IInv'
        OBVIOUS
    <2>1. ASSUME NEW s \in Senders, Send(s) PROVE IInv'
        BY <2>1, SendStep
    <2>2. ASSUME NEW s \in Senders, Accept(s) PROVE IInv'
        BY <2>2, AcceptStep
    <2>3. ASSUME NEW s \in Senders, Reject(s) PROVE IInv'
        <3>1. TypeOK
            BY DEF IInv
        <3>2. /\ accepted' = [accepted EXCEPT ![at[s]][today] = @ + 0]
              /\ slack' = [slack EXCEPT ![at[s]][today] = @ + 0]
            BY <2>3, <3>1 DEF Reject, TypeOK, Providers
        <3>3. QED
            BY <2>3, <3>2, FailStep DEF Reject
    <2>4. ASSUME NEW s \in Senders, LostAnswer(s) PROVE IInv'
        BY <2>4, FailStep DEF LostAnswer, Took
    <2>5. CASE Midnight
        BY <2>5, MidnightStep
    <2>6. CASE Crash
        BY <2>6, CrashStep
    <2>7. CASE UNCHANGED vars
        <3>1. TypeOK' /\ Balanced'
            BY <2>7, IInvIsBalance DEF vars, TypeOK, Balanced, Balance, InFlight
        <3>2. QED
            BY <3>1, IInvIsBalance
    <2>8. QED
        BY <2>1, <2>2, <2>3, <2>4, <2>5, <2>6, <2>7 DEF Next
<1>2. QED
    BY <1>1, InitBalanced, PTL DEF Spec

\* No provider takes more than its daily limit and the calls the counter cannot see.
THEOREM QuotaCorrect == Spec => []OvershootBounded
<1>1. IInv => OvershootBounded
    <2> SUFFICES ASSUME IInv, NEW p \in Providers, NEW d \in Days, Limited(p)
                 PROVE  accepted[p][d] <= Limit[p] + slack[p][d]
        BY DEF OvershootBounded
    <2>1. counter[p][d] <= Limit[p] /\ accepted[p][d] <= counter[p][d] + slack[p][d]
        BY DEF IInv, Counted
    <2>2. /\ counter[p][d] \in Int /\ accepted[p][d] \in Nat /\ slack[p][d] \in Nat /\ Limit[p] \in Nat
        BY MailQuotaAssumption DEF IInv, TypeOK
    <2>3. QED
        BY <2>1, <2>2
<1>2. QED
    BY <1>1, QuotaInductive, PTL

\* Failed sends give their slots back: only accepted, current and crashed calls hold one.
THEOREM SlotsCorrect == Spec => []NoSlotLost
<1>1. IInv => NoSlotLost
    BY DEF IInv
<1>2. QED
    BY <1>1, QuotaInductive, PTL
=============================================================================
