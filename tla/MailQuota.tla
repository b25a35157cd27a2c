----------------------------- MODULE MailQuota -----------------------------
(***************************************************************************)
(* sendEmail of server/email.js: one message goes through the chain of     *)
(* SMTP providers, each with a daily limit that is kept by a counter in    *)
(* the database (smtp_daily_counters).                                     *)
(*                                                                         *)
(* A slot is reserved before the send is awaited and given back when the   *)
(* send fails, so many calls are in flight at once; the counter is that of *)
(* the day on which each statement runs.  What the providers really        *)
(* accepted is kept beside it as history.                                  *)
(***************************************************************************)
EXTENDS Integers, FiniteSets

CONSTANTS
    Senders,        \* calls of sendEmail that may be in progress together
    NProviders,     \* length of the provider chain (SMTP_PROVIDERS)
    Limit,          \* dailyLimit by provider; 0 where it has none
    MaxDay,         \* bound: days
    MaxSent         \* bound: no new call once a provider accepted so many messages today

Providers == 1 .. NProviders
Days == 0 .. MaxDay

ASSUME MailQuotaAssumption ==
    /\ IsFiniteSet(Senders)
    /\ NProviders \in Nat
    /\ Limit \in [Providers -> Nat]
    /\ MaxDay \in Nat
    /\ MaxSent \in Nat

VARIABLES
    today,          \* todayUTC()
    rows,           \* the <<provider, date>> keys of smtp_daily_counters
    counter,        \* sent, by provider and date; 0 where there is no row
    at,             \* the provider whose sendMail the call awaits; 0: no call in progress
    \* --- history ---
    accepted,       \* messages the provider took on that day
    slack,          \* calls that were in flight there when that day began, or that it accepted
                    \* on that day without the answer getting through
    lost            \* calls in flight at a limited provider when the process crashed that day

vars == <<today, rows, counter, at, accepted, slack, lost>>

TypeOK ==
    /\ today \in Days
    /\ rows \subseteq Providers \X Days
    /\ counter \in [Providers -> [Days -> Int]]
    /\ at \in [Senders -> 0 .. NProviders]
    /\ accepted \in [Providers -> [Days -> Nat]]
    /\ slack \in [Providers -> [Days -> Nat]]
    /\ lost \in [Providers -> [Days -> Nat]]

Init ==
    /\ today = 0
    /\ rows = {}
    /\ counter = [p \in Providers |-> [d \in Days |-> 0]]
    /\ at = [s \in Senders |-> 0]
    /\ accepted = [p \in Providers |-> [d \in Days |-> 0]]
    /\ slack = [p \in Providers |-> [d \in Days |-> 0]]
    /\ lost = [p \in Providers |-> [d \in Days |-> 0]]

Limited(p) == Limit[p] # 0
InFlight(p) == {s \in Senders : at[s] = p}

\* reserveSlot would not return null.
Available(p) == Limited(p) => counter[p][today] < Limit[p]

-----------------------------------------------------------------------------
(* The counters *)

\* (defect: a slot is checked and never taken: the messages of a limited provider go uncounted)
CheckOnly(p, c) == counter' = c /\ UNCHANGED rows

\* reserveSlot, on the counters c; a provider without a limit is counted on acceptance.
ReserveSlot(p, c) ==
    \/ /\ Limited(p)
       /\ counter' = [c EXCEPT ![p][today] = @ + 1]
       /\ rows' = rows \union {<<p, today>>}
    \/ ~Limited(p) /\ counter' = c /\ UNCHANGED rows

\* (defect: the slot of a failed send is kept)
KeptSlot(p) == counter

\* releaseSlot: an UPDATE, which finds no row when the day is new.
ReleaseSlot(p) ==
    IF Limited(p) /\ <<p, today>> \in rows
    THEN [counter EXCEPT ![p][today] = @ - 1]
    ELSE counter

-----------------------------------------------------------------------------
(* sendEmail *)

\* The loop over the providers from the given one on, up to its next await or its end; c are
\* the counters the loop finds (those of earlier providers may just have changed).
TryFrom(s, first, c) ==
    \/ \E p \in Providers :
        /\ p >= first /\ Available(p)
        /\ \A q \in Providers : first <= q /\ q < p => ~Available(q)
        /\ at' = [at EXCEPT ![s] = p]
        /\ ReserveSlot(p, c)
    \/ /\ \A p \in Providers : p >= first => ~Available(p)
       /\ at' = [at EXCEPT ![s] = 0]
       /\ counter' = c /\ UNCHANGED rows

Send(s) ==
    /\ at[s] = 0
    /\ \A p \in Providers : accepted[p][today] <= MaxSent
    /\ TryFrom(s, 1, counter)
    /\ UNCHANGED <<today, accepted, slack, lost>>

Took(p) == accepted' = [accepted EXCEPT ![p][today] = @ + 1]

\* The provider took the message; incrementSent if it has no limit.
Accept(s) ==
    /\ at[s] # 0
    /\ Took(at[s])
    /\ at' = [at EXCEPT ![s] = 0]
    /\ \/ Limited(at[s]) /\ UNCHANGED <<counter, rows>>
       \/ /\ ~Limited(at[s])
          /\ counter' = [counter EXCEPT ![at[s]][today] = @ + 1]
          /\ rows' = rows \union {<<at[s], today>>}
    /\ UNCHANGED <<today, slack, lost>>

\* (defect: the chain starts over when its last provider has failed)
NextProviderRing(p) == (p % NProviders) + 1

NextProvider(p) == p + 1

\* sendMail failed: the slot is given back and the next provider is tried.
Reject(s) ==
    /\ at[s] # 0
    /\ TryFrom(s, NextProvider(at[s]), ReleaseSlot(at[s]))
    /\ UNCHANGED <<today, accepted, slack, lost>>

\* sendMail failed for its caller (a timeout), after the provider had taken the message.
LostAnswer(s) ==
    /\ at[s] # 0
    /\ TryFrom(s, NextProvider(at[s]), ReleaseSlot(at[s]))
    /\ Took(at[s])
    /\ slack' = [slack EXCEPT ![at[s]][today] = @ + 1]
    /\ UNCHANGED <<today, lost>>

Answer(s) == Accept(s) \/ Reject(s) \/ LostAnswer(s)

-----------------------------------------------------------------------------
Midnight ==
    /\ today < MaxDay
    /\ today' = today + 1
    /\ slack' = [p \in Providers |-> [slack[p] EXCEPT ![today + 1] = Cardinality(InFlight(p))]]
    /\ UNCHANGED <<rows, counter, at, accepted, lost>>

\* The process dies and restarts; the counters are in the database, the calls are gone, and
\* the providers took the messages of some of them.
Crash ==
    /\ \E took \in SUBSET Senders :
        /\ accepted' = [p \in Providers |->
              [accepted[p] EXCEPT ![today] = @ + Cardinality(InFlight(p) \intersect took)]]
        /\ lost' = [p \in Providers |->
              IF Limited(p)
              THEN [lost[p] EXCEPT ![today] = @ + Cardinality(InFlight(p) \ took)]
              ELSE lost[p]]
    /\ at' = [s \in Senders |-> 0]
    /\ UNCHANGED <<today, rows, counter, slack>>

Next ==
    \/ \E s \in Senders : Send(s) \/ Accept(s) \/ Reject(s) \/ LostAnswer(s)
    \/ Midnight \/ Crash

Spec == Init /\ [][Next]_vars

\* nodemailer's timeouts (10 s to connect, 10 s for the greeting, 15 s idle) end every sendMail.
FairSpec == Spec /\ \A s \in Senders : WF_vars(Answer(s))

-----------------------------------------------------------------------------
(* Properties *)

\* However many calls overlap, a provider takes no more messages in a day than its limit and
\* the calls that were in flight there at midnight or whose answer was lost ("a concurrent
\* burst can't overshoot the provider's daily cap").
OvershootBounded ==
    \A p \in Providers, d \in Days : Limited(p) => accepted[p][d] <= Limit[p] + slack[p][d]

\* A slot is taken by a message the provider accepted or is sending, or was lost in a crash:
\* failed sends use up nothing, so a provider is skipped only when it is exhausted.
NoSlotLost ==
    \A p \in Providers : Limited(p) =>
        counter[p][today] <= accepted[p][today] + Cardinality(InFlight(p)) + lost[p][today]

\* What the counter cannot miss: it is never above the limit, and the messages taken on a day
\* (on this one: or still in flight) are all in it but for the slack.
Counted ==
    \A p \in Providers, d \in Days : Limited(p) =>
        /\ <<p, d>> \notin rows => counter[p][d] = 0
        /\ counter[p][d] <= Limit[p]
        /\ accepted[p][d] <= counter[p][d] + slack[p][d]
        /\ d = today => accepted[p][d] + Cardinality(InFlight(p)) <= counter[p][d] + slack[p][d]
        /\ d > today => accepted[p][d] = 0 /\ counter[p][d] = 0 /\ slack[p][d] = 0 /\ lost[p][d] = 0

\* The inductive invariant.
IInv == TypeOK /\ Counted /\ NoSlotLost

\* Every call ends: each provider is tried once, and answers or times out.
CallEnds == \A s \in Senders : at[s] # 0 ~> at[s] = 0
=============================================================================
