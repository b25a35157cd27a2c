--------------------------- MODULE ClientsProofs ---------------------------
(***************************************************************************)
(* The two pages around one room, for any number of sockets of each page,  *)
(* any limit of attempts and any bound on the timers: a listener has one   *)
(* reconnect ladder, sees what is live, and can decode what it is sent.    *)
(***************************************************************************)
EXTENDS Clients, FiniteSetTheorems, TLAPS

-----------------------------------------------------------------------------
(* The media source *)

\* The types of the media source, and that there is one of it.
PlaybackOK ==
  /\ media \in {"none", "opening", "ready", "playing", "broken"}
  /\ first \in {None, "head", "mid"} /\ sources \in Nat
  /\ OneSource

\* A chunk leaves one media source, whatever state it was in.
LEMMA HearPlays ==
  ASSUME PlaybackOK, NEW chunk \in {"head", "mid"}, Hear(chunk)
  PROVE  PlaybackOK' /\ media' # "none"
<1>1. media' \in {"opening", "ready", "playing", "broken"}
  BY DEF PlaybackOK, Hear
<1>2. first' \in {None, "head", "mid"}
  BY DEF PlaybackOK, Hear
<1>3. sources' = 1
  BY DEF PlaybackOK, OneSource, Hear, InitMSE
<1> QED
  BY <1>1, <1>2, <1>3 DEF PlaybackOK, OneSource

\* What is cleaned up leaves none.
LEMMA CleanupSilences ==
  ASSUME PlaybackOK, Cleanup
  PROVE  PlaybackOK' /\ media' = "none"
BY DEF PlaybackOK, OneSource, Cleanup

\* So does a frame of a broadcaster.
LEMMA FramePlays ==
  ASSUME TypeOK, OneSource, NEW chunk \in {"head", "mid"}, Frame(chunk)
  PROVE  PlaybackOK' /\ initSegment' \in {None, "head", "mid"}
<1>1. PlaybackOK
  BY DEF TypeOK, PlaybackOK
<1>2. CASE Hearing
  BY <1>1, <1>2, HearPlays DEF Frame, TypeOK
<1>3. CASE ~Hearing
  BY <1>1, <1>3 DEF Frame, TypeOK, PlaybackOK, OneSource, playback
<1> QED
  BY <1>2, <1>3

\* The end of a broadcast, as the pages see it.
LEMMA EndBroadcastEnds ==
  ASSUME TypeOK, OneSource, EndBroadcast
  PROVE  /\ live' = FALSE /\ initSegment' = None
         /\ shows' = IF Hearing THEN "offline" ELSE shows
         /\ PlaybackOK'
<1>1. PlaybackOK
  BY DEF TypeOK, PlaybackOK
<1>2. CASE Hearing
  BY <1>1, <1>2, CleanupSilences DEF EndBroadcast, Told
<1>3. CASE ~Hearing
  BY <1>1, <1>3 DEF EndBroadcast, Told, PlaybackOK, OneSource, playback
<1> QED
  BY <1>2, <1>3 DEF EndBroadcast, Told

\* 'close' keeps the types of the hub and of the listener.
LEMMA CloseTyped ==
  ASSUME TypeOK, OneSource, NEW s \in Socks, Close(s)
  PROVE  /\ role' \subseteq BSocks /\ registered' \in BSocks \cup {None}
         /\ live' \in BOOLEAN /\ initSegment' \in {None, "head", "mid"}
         /\ listeners' \subseteq LSocks /\ dbRoom' \in BOOLEAN
         /\ shows' \in {"idle", "connecting", "live", "offline", "gaveUp"}
         /\ PlaybackOK'
<1>1. CASE registered = s /\ live
  BY <1>1, EndBroadcastEnds DEF Close, TypeOK
<1>2. CASE ~(registered = s /\ live)
  BY <1>2 DEF Close, TypeOK, PlaybackOK, OneSource, playback
<1> QED
  BY <1>1, <1>2

-----------------------------------------------------------------------------
(* The microphone *)

\* The steps that ask for the microphone and those that come of it but do not put
\* the page on the air.
MicWaits == ClickAsks \/ MicDenied \/ TestAsks \/ TestResumes

\* They leave everything alone but the requests, the stream and its recorder.
LEMMA MicWaitsQuiet ==
  ASSUME MicWaits
  PROVE  UNCHANGED <<sock, code, timers, active, ws, disabled, headSent, strays,
                     hub, listener, disturbed>>
BY DEF MicWaits, ClickAsks, MicDenied, TestAsks, TestResumes

\* The requests stay within their bound.
LEMMA RequestsBounded ==
  ASSUME TypeOK, NEW who \in {"click", "test"}, Asks(who) \/ Answered(who)
  PROVE  asks' \in [{"click", "test"} -> 0..MaxAsks]
<1>1. /\ asks \in [{"click", "test"} -> 0..MaxAsks] /\ MaxAsks \in Nat
      /\ asks["click"] \in 0..MaxAsks /\ asks["test"] \in 0..MaxAsks
  BY ClientsAssumption DEF TypeOK
<1>2. CASE Asks(who)
  <2>1. asks[who] + 1 \in 0..MaxAsks
    BY <1>1, <1>2 DEF Asks
  <2> QED
    BY <1>1, <1>2, <2>1 DEF Asks
<1>3. CASE Answered(who)
  <2>1. asks[who] - 1 \in 0..MaxAsks
    BY <1>1, <1>3 DEF Answered
  <2> QED
    BY <1>1, <1>3, <2>1 DEF Answered
<1> QED
  BY <1>2, <1>3

LEMMA MicWaitsTyped ==
  ASSUME TypeOK, MicWaits
  PROVE  /\ asks' \in [{"click", "test"} -> 0..MaxAsks]
         /\ mic' \in {"none", "on", "ended"}
         /\ recorder' \in {"none", "running", "apart", "stopping", "dead"}
<1>1. asks' \in [{"click", "test"} -> 0..MaxAsks]
  BY RequestsBounded DEF MicWaits, ClickAsks, MicDenied, TestAsks, TestResumes
<1>2. /\ mic' \in {"none", "on", "ended"}
      /\ recorder' \in {"none", "running", "apart", "stopping", "dead"}
  BY DEF MicWaits, ClickAsks, MicDenied, TestAsks, TestResumes, TypeOK
<1> QED
  BY <1>1, <1>2

-----------------------------------------------------------------------------
(* Types *)

LEMMA TypeOKStep ==
  ASSUME TypeOK, OneSource, [Next]_vars
  PROVE  TypeOK' /\ OneSource'
<1>0. PlaybackOK
  BY DEF TypeOK, PlaybackOK
<1>1. ASSUME NEW s \in BSocks, SelectRoom(s)
      PROVE  TypeOK' /\ OneSource'
  BY <1>1 DEF SelectRoom, capture, Connects, TypeOK, OneSource, Socks, hub, listener, playback
<1>2. ASSUME NEW s \in BSocks, Reconnect(s)
      PROVE  TypeOK' /\ OneSource'
  BY <1>2, ClientsAssumption
     DEF Reconnect, capture, Connects, TypeOK, OneSource, Socks, hub, listener, playback
<1>3. ASSUME NEW s \in BSocks, BroadcasterOpens(s)
      PROVE  TypeOK' /\ OneSource'
  <2>1. /\ sock' \in [Socks -> {"free", "connecting", "open", "closing", "dropped", "half-open"}]
        /\ disabled' \in BOOLEAN
    BY <1>3 DEF BroadcasterOpens, JoinAsBroadcaster, TypeOK, Socks
  <2>2. /\ dbRoom' \in BOOLEAN /\ role' \subseteq BSocks /\ registered' \in BSocks \cup {None}
        /\ live' \in BOOLEAN /\ initSegment' \in {None, "head", "mid"} /\ listeners' \subseteq LSocks
    BY <1>3 DEF BroadcasterOpens, JoinAsBroadcaster, TypeOK, hub
  <2> QED
    BY <1>3, <2>1, <2>2 DEF BroadcasterOpens, capture, TypeOK, OneSource, listener, playback
<1>4. ASSUME NEW s \in BSocks, BroadcasterLoses(s)
      PROVE  TypeOK' /\ OneSource'
  BY <1>4, ClientsAssumption
     DEF BroadcasterLoses, Left, TypeOK, OneSource, Socks, page, capture, hub, listener, playback
<1>5. ASSUME NEW s \in LSocks, JoinRoom(s)
      PROVE  TypeOK' /\ OneSource'
  BY <1>5 DEF JoinRoom, Connects, TypeOK, OneSource, Socks, page, capture, hub, playback
<1>6. ASSUME NEW s \in LSocks, ListenerReconnects(s)
      PROVE  TypeOK' /\ OneSource'
  BY <1>6, ClientsAssumption
     DEF ListenerReconnects, Connects, TypeOK, OneSource, Socks, page, capture, hub, listener, playback
<1>7. ASSUME NEW s \in LSocks, ListenerOpens(s)
      PROVE  TypeOK' /\ OneSource'
  <2>1. CASE /\ \E why \in {"plain", "full", "many"} :
                  /\ sock' = [sock EXCEPT ![s] = "dropped"]
                  /\ code' = [code EXCEPT ![s] = why]
             /\ UNCHANGED <<hub, shows, playback>>
    BY <1>7, <2>1, ClientsAssumption
       DEF ListenerOpens, TypeOK, OneSource, Socks, page, capture, hub, playback
  <2>2. CASE /\ sock' = [sock EXCEPT ![s] = "open"]
             /\ listeners' = listeners \cup {s}
             /\ shows' = IF live THEN "live" ELSE "offline"
             /\ IF Given = None THEN UNCHANGED playback ELSE Hear(Given)
             /\ UNCHANGED <<code, dbRoom, role, registered, live, initSegment>>
    <3>1. PlaybackOK'
      <4>1. CASE Given = None
        BY <1>0, <2>2, <4>1 DEF PlaybackOK, OneSource, playback
      <4>2. CASE Given # None
        <5>1. Given \in {"head", "mid"} /\ Hear(Given)
          BY <2>2, <4>2 DEF Given, TypeOK
        <5> QED
          BY <1>0, <5>1, HearPlays
      <4> QED
        BY <4>1, <4>2
    <3> QED
      BY <1>7, <2>2, <3>1, ClientsAssumption
         DEF ListenerOpens, TypeOK, PlaybackOK, Socks, page, capture
  <2> QED
    BY <1>7, <2>1, <2>2 DEF ListenerOpens
<1>8. ASSUME NEW s \in LSocks, ListenerLoses(s)
      PROVE  TypeOK' /\ OneSource'
  <2>1. PlaybackOK'
    BY <1>0, <1>8, CleanupSilences DEF ListenerLoses
  <2>2. /\ sock' \in [Socks -> {"free", "connecting", "open", "closing", "dropped", "half-open"}]
        /\ code' \in [Socks -> {"plain", "full", "many"}]
    BY <1>8 DEF ListenerLoses, Left, TypeOK, Socks
  <2>3. code[s] \in {"plain", "full", "many"}
    BY DEF TypeOK, Socks
  <2>4. /\ timers' \in [{"b", "l"} -> 0..MaxTimers]
        /\ attempts' \in 0..MaxReconnect
        /\ shows' \in {"idle", "connecting", "live", "offline", "gaveUp"}
    BY <1>8, <2>3, ClientsAssumption DEF ListenerLoses, GivesUp, TypeOK
  <2> QED
    BY <1>8, <2>1, <2>2, <2>4 DEF ListenerLoses, TypeOK, PlaybackOK, page, capture, hub
<1>9. ASSUME NEW s \in Socks, ServerCloses(s)
      PROVE  TypeOK' /\ OneSource'
  <2>1. sock' \in [Socks -> {"free", "connecting", "open", "closing", "dropped", "half-open"}]
    BY <1>9 DEF ServerCloses, TypeOK
  <2> QED
    BY <1>9, <2>1, CloseTyped DEF ServerCloses, TypeOK, PlaybackOK, page, capture
<1>10. CASE LeaveRoom
  <2>1. sock' \in [Socks -> {"free", "connecting", "open", "closing", "dropped", "half-open"}]
    BY <1>10 DEF LeaveRoom, TypeOK
  <2>2. /\ active' \in BOOLEAN /\ ws' = None
        /\ UNCHANGED <<code, timers, disabled, capture, hub, listener, disturbed>>
    BY <1>10 DEF LeaveRoom
  <2> QED
    BY <2>1, <2>2 DEF TypeOK, OneSource, capture, hub, listener, playback
<1>11. CASE ClickLive \/ ClickResumes
  <2>1. live' \in BOOLEAN /\ shows' \in {"idle", "connecting", "live", "offline", "gaveUp"}
    BY <1>11 DEF ClickLive, ClickResumes, SendGoLive, Told, TypeOK
  <2>2. /\ mic' \in {"none", "on", "ended"} /\ headSent' \in BOOLEAN
        /\ recorder' \in {"none", "running", "apart", "stopping", "dead"}
        /\ strays' \in BOOLEAN /\ disturbed' \in BOOLEAN
    BY <1>11 DEF ClickLive, ClickResumes, TypeOK
  <2>3. asks' \in [{"click", "test"} -> 0..MaxAsks]
    BY <1>11, RequestsBounded DEF ClickLive, ClickResumes, TypeOK
  <2>4. UNCHANGED <<sock, code, timers, active, ws, disabled, dbRoom, role, registered,
                    initSegment, listeners, joined, attempts, playback>>
    BY <1>11 DEF ClickLive, ClickResumes
  <2> QED
    BY <2>1, <2>2, <2>3, <2>4 DEF TypeOK, OneSource, playback
<1>12. CASE Chunk
  <2>1. PlaybackOK' /\ initSegment' \in {None, "head", "mid"}
    <3>1. CASE Carries
      BY <1>12, <3>1, FramePlays DEF Chunk, NextChunk
    <3>2. CASE ~Carries
      BY <1>0, <1>12, <3>2 DEF Chunk, TypeOK, PlaybackOK, OneSource, hub, listener, playback
    <3> QED
      BY <3>1, <3>2
  <2>2. UNCHANGED <<dbRoom, role, registered, live, listeners, joined, attempts, shows>>
    BY <1>12 DEF Chunk, Frame, hub, listener
  <2>3. /\ recorder' \in {"none", "running", "apart", "stopping", "dead"}
        /\ headSent' \in BOOLEAN /\ disturbed' \in BOOLEAN
    <3>1. recorder' \in {recorder, "none"} /\ disturbed' \in {disturbed, TRUE}
      BY <1>12 DEF Chunk
    <3>2. headSent' \in BOOLEAN
      BY <1>12 DEF Chunk, Running
    <3> QED
      BY <3>1, <3>2 DEF TypeOK
  <2> QED
    BY <1>12, <2>1, <2>2, <2>3 DEF Chunk, TypeOK, PlaybackOK
<1>13. CASE ClickStop
  <2>1. /\ PlaybackOK' /\ live' \in BOOLEAN /\ initSegment' \in {None, "head", "mid"}
        /\ shows' \in {"idle", "connecting", "live", "offline", "gaveUp"}
    <3>1. CASE Carries
      BY <1>13, <3>1, EndBroadcastEnds DEF ClickStop, TypeOK
    <3>2. CASE ~Carries
      BY <1>0, <1>13, <3>2 DEF ClickStop, TypeOK, PlaybackOK, OneSource, playback
    <3> QED
      BY <3>1, <3>2
  <2> QED
    BY <1>13, <2>1 DEF ClickStop, TypeOK, PlaybackOK
<1>14. CASE MicWaits
  BY <1>14, MicWaitsQuiet, MicWaitsTyped DEF TypeOK, OneSource, hub, listener, playback
<1>15. CASE MicTestEnds
  <2>1. /\ recorder' \in {"none", "running", "apart", "stopping", "dead"}
        /\ headSent' \in BOOLEAN
    BY <1>15 DEF MicTestEnds, TypeOK
  <2>2. /\ mic' = "none"
        /\ UNCHANGED <<sock, code, timers, active, ws, disabled, asks, strays, hub, listener, disturbed>>
    BY <1>15 DEF MicTestEnds
  <2> QED
    BY <2>1, <2>2 DEF TypeOK, OneSource, hub, listener, playback
<1>16. CASE SourceOpens
  BY <1>16 DEF SourceOpens, TypeOK, OneSource, page, capture, hub
<1>17. CASE HubRestarts
  <2>1. sock' \in [Socks -> {"free", "connecting", "open", "closing", "dropped", "half-open"}]
    BY <1>17 DEF HubRestarts, TypeOK
  <2>2. /\ role' = {} /\ registered' = None /\ live' \in BOOLEAN
        /\ initSegment' = None /\ listeners' = {}
        /\ UNCHANGED <<code, timers, page, dbRoom, listener, disturbed>>
    BY <1>17 DEF HubRestarts
  <2> QED
    BY <2>1, <2>2 DEF TypeOK, OneSource, page, capture, listener, playback
<1>18. CASE DeleteRoom
  <2>1. disturbed' \in BOOLEAN
    BY <1>18 DEF DeleteRoom, TypeOK
  <2>2. /\ dbRoom' \in BOOLEAN /\ registered' = None /\ live' \in BOOLEAN
        /\ initSegment' = None /\ listeners' = {}
        /\ UNCHANGED <<sock, code, timers, page, role, listener>>
    BY <1>18 DEF DeleteRoom
  <2> QED
    BY <2>1, <2>2 DEF TypeOK, OneSource, page, capture, listener, playback
<1>19. CASE CreateRoom
  BY <1>19 DEF CreateRoom, TypeOK, OneSource, page, capture, listener, playback
<1>20. CASE StrayChunk
  <2>1. PlaybackOK' /\ initSegment' \in {None, "head", "mid"}
    <3>1. CASE Carries
      BY <1>20, <3>1, FramePlays DEF StrayChunk
    <3>2. CASE ~Carries
      BY <1>0, <1>20, <3>2 DEF StrayChunk, TypeOK, PlaybackOK, OneSource, hub, listener, playback
    <3> QED
      BY <3>1, <3>2
  <2>2. UNCHANGED <<sock, code, timers, active, ws, disabled, capture, dbRoom, role, registered,
                    live, listeners, joined, attempts, shows, disturbed>>
    BY <1>20 DEF StrayChunk, Frame, hub, listener
  <2> QED
    BY <2>1, <2>2 DEF TypeOK, PlaybackOK, capture
<1>21. CASE UNCHANGED vars
  BY <1>21 DEF vars, TypeOK, OneSource, page, capture, hub, listener, playback
<1> QED
  BY <1>1, <1>2, <1>3, <1>4, <1>5, <1>6, <1>7, <1>8, <1>9, <1>10, <1>11, <1>12, <1>13,
     <1>14, <1>15, <1>16, <1>17, <1>18, <1>19, <1>20, <1>21 DEF Next, MicWaits

-----------------------------------------------------------------------------
(* The reconnect ladder *)

\* One connection or one timer, or nothing at all.
Ladder(C, t, on) ==
  IF on THEN (C = {} /\ t = 1) \/ (t = 0 /\ \E l : C = {l}) ELSE C = {} /\ t = 0

\* What OneLadder counts.
LEMMA LadderCounts ==
  ASSUME NEW C, IsFiniteSet(C), NEW t \in Nat, NEW on \in BOOLEAN
  PROVE  Cardinality(C) + t = (IF on THEN 1 ELSE 0) <=> Ladder(C, t, on)
<1>1. Cardinality(C) \in Nat
  BY FS_CardinalityType
<1>2. Cardinality(C) = 0 <=> C = {}
  BY FS_EmptySet
<1>3. Cardinality(C) = 1 <=> \E l : C = {l}
  BY FS_Singleton
<1>4. CASE on
  <2>1. Cardinality(C) + t = 1 <=> (Cardinality(C) = 0 /\ t = 1) \/ (t = 0 /\ Cardinality(C) = 1)
    BY <1>1
  <2> QED
    BY <1>2, <1>3, <1>4, <2>1 DEF Ladder
<1>5. CASE ~on
  <2>1. Cardinality(C) + t = 0 <=> Cardinality(C) = 0 /\ t = 0
    BY <1>1
  <2> QED
    BY <1>2, <1>5, <2>1 DEF Ladder
<1> QED
  BY <1>4, <1>5

\* The ladder of the listener's page.
ListenerLadder == Ladder(Connections, timers["l"], joined /\ shows # "gaveUp")

LEMMA LadderCounted == TypeOK => (OneLadder <=> ListenerLadder)
<1> SUFFICES ASSUME TypeOK
             PROVE  OneLadder <=> ListenerLadder
  OBVIOUS
<1>1. IsFiniteSet(Connections)
  BY ClientsAssumption, FS_Subset DEF Connections
<1>2. timers["l"] \in Nat
  BY ClientsAssumption DEF TypeOK
<1>3. (joined /\ shows # "gaveUp") \in BOOLEAN
  OBVIOUS
<1> QED
  BY <1>1, <1>2, <1>3, LadderCounts DEF OneLadder, ListenerLadder

\* Whoever hears has a connection, so the page has not given up.
LEMMA HearingConnected ==
  ASSUME TypeOK, ListenerLadder, Hearing
  PROVE  joined /\ shows # "gaveUp" /\ timers["l"] = 0
<1>1. Connections # {}
  BY DEF Hearing, Connections, TypeOK
<1> QED
  BY <1>1 DEF ListenerLadder, Ladder

\* A step that leaves the listener's connections and timers alone, and shows
\* something else only to who hears, leaves the ladder as it is.
LEMMA LadderKept ==
  ASSUME TypeOK, ListenerLadder, timers'["l"] = timers["l"], joined' = joined,
         \A l \in LSocks : (sock'[l] \in {"connecting", "open", "closing", "dropped"})
                         <=> (sock[l] \in {"connecting", "open", "closing", "dropped"}),
         shows' = shows \/ (Hearing /\ shows' # "gaveUp")
  PROVE  ListenerLadder'
<1>1. Connections' = Connections
  BY DEF Connections
<1>2. (joined' /\ shows' # "gaveUp") <=> (joined /\ shows # "gaveUp")
  BY HearingConnected
<1> QED
  BY <1>1, <1>2 DEF ListenerLadder, Ladder

LEMMA LadderStep ==
  ASSUME TypeOK, OneSource, ListenerLadder, [Next]_vars
  PROVE  ListenerLadder'
<1>1. ASSUME NEW s \in BSocks, SelectRoom(s)
      PROVE  ListenerLadder'
  BY <1>1, LadderKept, ClientsAssumption DEF SelectRoom, Connects, TypeOK, Socks, listener
<1>2. ASSUME NEW s \in BSocks, Reconnect(s)
      PROVE  ListenerLadder'
  BY <1>2, LadderKept, ClientsAssumption DEF Reconnect, Connects, TypeOK, Socks, listener
<1>3. ASSUME NEW s \in BSocks, BroadcasterOpens(s)
      PROVE  ListenerLadder'
  BY <1>3, LadderKept, ClientsAssumption
     DEF BroadcasterOpens, JoinAsBroadcaster, TypeOK, Socks, listener
<1>4. ASSUME NEW s \in BSocks, BroadcasterLoses(s)
      PROVE  ListenerLadder'
  BY <1>4, LadderKept, ClientsAssumption DEF BroadcasterLoses, TypeOK, Socks, listener
<1>5. ASSUME NEW s \in LSocks, JoinRoom(s)
      PROVE  ListenerLadder'
  <2>1. Connections = {} /\ timers["l"] = 0
    BY <1>5 DEF JoinRoom, MayJoin, ListenerLadder, Ladder
  <2>2. Connections' = Connections \cup {s}
    BY <1>5 DEF JoinRoom, Connects, Connections, TypeOK, Socks
  <2> QED
    BY <1>5, <2>1, <2>2 DEF JoinRoom, ListenerLadder, Ladder
<1>6. ASSUME NEW s \in LSocks, ListenerReconnects(s)
      PROVE  ListenerLadder'
  <2>1. Connections = {} /\ timers["l"] = 1 /\ joined /\ shows # "gaveUp"
    BY <1>6 DEF ListenerReconnects, ListenerLadder, Ladder
  <2>2. Connections' = Connections \cup {s}
    BY <1>6 DEF ListenerReconnects, Connects, Connections, TypeOK, Socks
  <2>3. timers'["l"] = 0
    BY <1>6, <2>1 DEF ListenerReconnects, TypeOK
  <2> QED
    BY <1>6, <2>1, <2>2, <2>3 DEF ListenerReconnects, ListenerLadder, Ladder, listener
<1>7. ASSUME NEW s \in LSocks, ListenerOpens(s)
      PROVE  ListenerLadder'
  <2>1. s \in Connections
    BY <1>7 DEF ListenerOpens, Connections
  <2>2. timers["l"] = 0 /\ joined /\ shows # "gaveUp" /\ \E l : Connections = {l}
    BY <2>1 DEF ListenerLadder, Ladder
  <2>3. Connections' = Connections
    BY <1>7 DEF ListenerOpens, Connections, TypeOK, Socks
  <2>4. shows' # "gaveUp"
    BY <1>7, <2>2 DEF ListenerOpens
  <2> QED
    BY <1>7, <2>2, <2>3, <2>4 DEF ListenerOpens, ListenerLadder, Ladder
<1>8. ASSUME NEW s \in LSocks, ListenerLoses(s)
      PROVE  ListenerLadder'
  <2>1. s \in Connections
    BY <1>8 DEF ListenerLoses, PageSees, Connections
  <2>2. timers["l"] = 0 /\ joined /\ Connections = {s}
    BY <2>1 DEF ListenerLadder, Ladder
  <2>3. Connections' = {}
    BY <1>8, <2>2 DEF ListenerLoses, Left, Connections, TypeOK, Socks
  <2>4. CASE GivesUp(s)
    BY <1>8, <2>2, <2>3, <2>4 DEF ListenerLoses, ListenerLadder, Ladder
  <2>5. CASE ~GivesUp(s)
    <3>1. timers'["l"] = 1 /\ shows' = "connecting" /\ joined' = joined
      BY <1>8, <2>2, <2>5 DEF ListenerLoses, TypeOK
    <3> QED
      BY <2>2, <2>3, <3>1 DEF ListenerLadder, Ladder
  <2> QED
    BY <2>4, <2>5
<1>9. ASSUME NEW s \in Socks, ServerCloses(s)
      PROVE  ListenerLadder'
  <2>1. shows' = shows \/ (Hearing /\ shows' # "gaveUp")
    BY <1>9, EndBroadcastEnds DEF ServerCloses, Close
  <2>2. \A l \in LSocks : (sock'[l] \in {"connecting", "open", "closing", "dropped"})
                        <=> (sock[l] \in {"connecting", "open", "closing", "dropped"})
    BY <1>9 DEF ServerCloses, ServerSees, TypeOK, Socks
  <2> QED
    BY <1>9, <2>1, <2>2, LadderKept DEF ServerCloses
<1>10. CASE LeaveRoom
  <2>1. \A l \in LSocks : sock'[l] = sock[l]
    BY <1>10, ClientsAssumption DEF LeaveRoom, TypeOK, Socks
  <2> QED
    BY <1>10, <2>1, LadderKept DEF LeaveRoom, listener
<1>11. CASE ClickLive \/ ClickResumes
  BY <1>11, LadderKept DEF ClickLive, ClickResumes, SendGoLive, Told
<1>12. CASE Chunk \/ StrayChunk
  BY <1>12, LadderKept DEF Chunk, StrayChunk, Frame, listener
<1>13. CASE ClickStop
  <2>1. shows' = shows \/ (Hearing /\ shows' # "gaveUp")
    BY <1>13, EndBroadcastEnds DEF ClickStop
  <2> QED
    BY <1>13, <2>1, LadderKept DEF ClickStop
<1>14. CASE MicWaits \/ MicTestEnds
  BY <1>14, LadderKept, MicWaitsQuiet DEF MicTestEnds, listener
<1>15. CASE SourceOpens
  BY <1>15, LadderKept DEF SourceOpens
<1>16. CASE HubRestarts
  <2>1. \A l \in LSocks : (sock'[l] \in {"connecting", "open", "closing", "dropped"})
                        <=> (sock[l] \in {"connecting", "open", "closing", "dropped"})
    <3> SUFFICES ASSUME NEW l \in LSocks
                 PROVE  (sock'[l] \in {"connecting", "open", "closing", "dropped"})
                        <=> (sock[l] \in {"connecting", "open", "closing", "dropped"})
      OBVIOUS
    <3>1. l \in Socks /\ sock[l] \in {"free", "connecting", "open", "closing", "dropped", "half-open"}
      BY DEF TypeOK, Socks
    <3>2. sock'[l] = CASE sock[l] = "half-open" -> "free"
                       [] sock[l] \in {"open", "closing"} -> "dropped"
                       [] OTHER -> sock[l]
      BY <1>16, <3>1 DEF HubRestarts
    <3>3. CASE sock[l] = "half-open"
      BY <3>2, <3>3
    <3>4. CASE sock[l] \in {"open", "closing"}
      BY <3>2, <3>4
    <3>5. CASE sock[l] \in {"free", "connecting", "dropped"}
      BY <3>2, <3>5
    <3> QED
      BY <3>1, <3>3, <3>4, <3>5
  <2> QED
    BY <1>16, <2>1, LadderKept DEF HubRestarts, listener
<1>17. CASE DeleteRoom \/ CreateRoom
  BY <1>17, LadderKept DEF DeleteRoom, CreateRoom, listener
<1>18. CASE UNCHANGED vars
  BY <1>18, LadderKept DEF vars, listener
<1> QED
  BY <1>1, <1>2, <1>3, <1>4, <1>5, <1>6, <1>7, <1>8, <1>9, <1>10, <1>11, <1>12, <1>13,
     <1>14, <1>15, <1>16, <1>17, <1>18 DEF Next, MicWaits

-----------------------------------------------------------------------------
(* What the listener is shown *)

\* A step after which nobody new hears keeps what is shown right, unless it
\* changes the one and not the other.
LEMMA ShownKept ==
  ASSUME ShownLive, Hearing' => Hearing, live' = live, shows' = shows
  PROVE  ShownLive'
BY DEF ShownLive

\* The sockets of the broadcaster's page are not heard.
LEMMA NobodyNewHears ==
  ASSUME TypeOK, listeners' = listeners, \A l \in LSocks : sock'[l] = "open" => sock[l] = "open"
  PROVE  Hearing' => Hearing
BY DEF Hearing, TypeOK

LEMMA ShownLiveStep ==
  ASSUME TypeOK, OneSource, ListenerLadder, ShownLive, [Next]_vars
  PROVE  ShownLive'
<1>1. ASSUME NEW s \in BSocks, SelectRoom(s)
      PROVE  ShownLive'
  BY <1>1, ShownKept, NobodyNewHears, ClientsAssumption
     DEF SelectRoom, Connects, TypeOK, Socks, hub, listener
<1>2. ASSUME NEW s \in BSocks, Reconnect(s)
      PROVE  ShownLive'
  BY <1>2, ShownKept, NobodyNewHears, ClientsAssumption
     DEF Reconnect, Connects, TypeOK, Socks, hub, listener
<1>3. ASSUME NEW s \in BSocks, BroadcasterOpens(s)
      PROVE  ShownLive'
  <2>1. \A l \in LSocks : sock'[l] = sock[l]
    BY <1>3, ClientsAssumption DEF BroadcasterOpens, JoinAsBroadcaster, TypeOK, Socks
  <2>2. UNCHANGED <<live, listeners, shows>>
    BY <1>3 DEF BroadcasterOpens, JoinAsBroadcaster, hub, listener
  <2> QED
    BY <2>1, <2>2, ShownKept, NobodyNewHears
<1>4. ASSUME NEW s \in BSocks, BroadcasterLoses(s)
      PROVE  ShownLive'
  BY <1>4, ShownKept, NobodyNewHears, ClientsAssumption
     DEF BroadcasterLoses, TypeOK, Socks, hub, listener
<1>5. ASSUME NEW s \in LSocks, JoinRoom(s)
      PROVE  ShownLive'
  <2>1. ~Hearing
    BY <1>5, HearingConnected DEF JoinRoom, MayJoin
  <2>2. Hearing' => Hearing
    BY <1>5, NobodyNewHears DEF JoinRoom, Connects, TypeOK, Socks, hub
  <2> QED
    BY <2>1, <2>2 DEF ShownLive
<1>6. ASSUME NEW s \in LSocks, ListenerReconnects(s)
      PROVE  ShownLive'
  BY <1>6, ShownKept, NobodyNewHears DEF ListenerReconnects, Connects, TypeOK, Socks, hub, listener
<1>7. ASSUME NEW s \in LSocks, ListenerOpens(s)
      PROVE  ShownLive'
  <2>1. CASE shows' = (IF live THEN "live" ELSE "offline") /\ live' = live
    BY <2>1 DEF ShownLive
  <2>2. CASE sock' = [sock EXCEPT ![s] = "dropped"] /\ UNCHANGED <<hub, shows>>
    BY <2>2, ShownKept, NobodyNewHears DEF TypeOK, Socks, hub
  <2> QED
    BY <1>7, <2>1, <2>2 DEF ListenerOpens
<1>8. ASSUME NEW s \in LSocks, ListenerLoses(s)
      PROVE  ShownLive'
  <2>1. Connections = {s}
    BY <1>8 DEF ListenerLoses, PageSees, Connections, ListenerLadder, Ladder
  <2>2. ~Hearing'
    BY <1>8, <2>1 DEF ListenerLoses, Left, Hearing, Connections, TypeOK, Socks, hub
  <2> QED
    BY <2>2 DEF ShownLive
<1>9. ASSUME NEW s \in Socks, ServerCloses(s)
      PROVE  ShownLive'
  <2>1. Hearing' => Hearing
    BY <1>9 DEF ServerCloses, Close, Hearing, TypeOK
  <2>2. CASE registered = s /\ live
    BY <1>9, <2>1, <2>2, EndBroadcastEnds DEF ServerCloses, Close, ShownLive
  <2>3. CASE ~(registered = s /\ live)
    BY <1>9, <2>1, <2>3, ShownKept DEF ServerCloses, Close
  <2> QED
    BY <2>2, <2>3
<1>10. CASE LeaveRoom
  <2>1. \A l \in LSocks : sock'[l] = sock[l]
    BY <1>10, ClientsAssumption DEF LeaveRoom, TypeOK, Socks
  <2> QED
    BY <1>10, <2>1, ShownKept, NobodyNewHears DEF LeaveRoom, hub, listener
<1>11. CASE ClickLive \/ ClickResumes
  <2>1. Hearing' <=> Hearing
    BY <1>11 DEF ClickLive, ClickResumes, Hearing
  <2> QED
    BY <1>11, <2>1 DEF ClickLive, ClickResumes, SendGoLive, Told, ShownLive
<1>12. CASE Chunk \/ StrayChunk
  BY <1>12, ShownKept, NobodyNewHears DEF Chunk, StrayChunk, Frame, hub, listener
<1>13. CASE ClickStop
  <2>1. Hearing' <=> Hearing
    BY <1>13 DEF ClickStop, Hearing
  <2>2. CASE Carries
    BY <1>13, <2>1, <2>2, EndBroadcastEnds DEF ClickStop, ShownLive
  <2>3. CASE ~Carries
    BY <1>13, <2>1, <2>3 DEF ClickStop, ShownLive
  <2> QED
    BY <2>2, <2>3
<1>14. CASE MicWaits \/ MicTestEnds
  BY <1>14, ShownKept, NobodyNewHears, MicWaitsQuiet DEF MicTestEnds, hub, listener
<1>15. CASE SourceOpens
  BY <1>15, ShownKept, NobodyNewHears DEF SourceOpens, hub
<1>16. CASE HubRestarts \/ DeleteRoom
  BY <1>16 DEF HubRestarts, DeleteRoom, ShownLive, Hearing
<1>17. CASE CreateRoom
  BY <1>17, ShownKept, NobodyNewHears DEF CreateRoom, hub, listener
<1>18. CASE UNCHANGED vars
  BY <1>18, ShownKept, NobodyNewHears DEF vars, hub, listener
<1> QED
  BY <1>1, <1>2, <1>3, <1>4, <1>5, <1>6, <1>7, <1>8, <1>9, <1>10, <1>11, <1>12, <1>13,
     <1>14, <1>15, <1>16, <1>17, <1>18 DEF Next, MicWaits

-----------------------------------------------------------------------------
(* Who broadcasts *)

LEMMA RolesStep ==
  ASSUME TypeOK, RoleHeld, CurrentRegistered, [Next]_vars
  PROVE  RoleHeld' /\ CurrentRegistered'
<1> USE DEF RoleHeld, CurrentRegistered
<1>1. ASSUME NEW s \in BSocks, SelectRoom(s)
      PROVE  RoleHeld' /\ CurrentRegistered'
  BY <1>1 DEF SelectRoom, Connects, Held, TypeOK, hub
<1>2. ASSUME NEW s \in BSocks, Reconnect(s)
      PROVE  RoleHeld' /\ CurrentRegistered'
  <2>1. UNCHANGED <<role, registered>>
    BY <1>2 DEF Reconnect, hub
  <2>2. CASE active
    BY <1>2, <2>1, <2>2 DEF Reconnect, Connects, Held, TypeOK, Socks
  <2>3. CASE ~active
    BY <1>2, <2>1, <2>3 DEF Reconnect, Held
  <2> QED
    BY <2>2, <2>3
<1>3. ASSUME NEW s \in BSocks, BroadcasterOpens(s)
      PROVE  RoleHeld' /\ CurrentRegistered'
  BY <1>3 DEF BroadcasterOpens, JoinAsBroadcaster, Held, TypeOK, Socks, hub
<1>4. ASSUME NEW s \in BSocks, BroadcasterLoses(s)
      PROVE  RoleHeld' /\ CurrentRegistered'
  BY <1>4 DEF BroadcasterLoses, PageSees, Left, Held, TypeOK, Socks, page, hub
<1>5. ASSUME NEW s \in LSocks, JoinRoom(s) \/ ListenerReconnects(s)
      PROVE  RoleHeld' /\ CurrentRegistered'
  BY <1>5, ClientsAssumption
     DEF JoinRoom, ListenerReconnects, Connects, Held, TypeOK, Socks, page, hub
<1>6. ASSUME NEW s \in LSocks, ListenerOpens(s) \/ ListenerLoses(s)
      PROVE  RoleHeld' /\ CurrentRegistered'
  <2>1. \A b \in BSocks : sock'[b] = sock[b]
    BY <1>6, ClientsAssumption DEF ListenerOpens, ListenerLoses, TypeOK, Socks
  <2>2. UNCHANGED <<role, registered, ws>>
    BY <1>6 DEF ListenerOpens, ListenerLoses, page, hub
  <2> QED
    BY <2>1, <2>2 DEF Held, TypeOK
<1>7. ASSUME NEW s \in Socks, ServerCloses(s)
      PROVE  RoleHeld' /\ CurrentRegistered'
  <2>1. \A b \in role' : b # s /\ b \in role /\ sock'[b] = sock[b]
    BY <1>7 DEF ServerCloses, Close, TypeOK, Socks
  <2>2. registered' \in {registered, None} /\ ws' = ws
    BY <1>7 DEF ServerCloses, Close, page
  <2> QED
    BY <2>1, <2>2 DEF Held
<1>8. CASE LeaveRoom
  <2>1. \A b \in role : Held(b)'
    BY <1>8 DEF LeaveRoom, Held, TypeOK, Socks
  <2> QED
    BY <1>8, <2>1, ClientsAssumption DEF LeaveRoom, TypeOK, hub
<1>9. CASE ClickLive \/ ClickResumes \/ ClickStop
  BY <1>9 DEF ClickLive, ClickResumes, ClickStop, Held
<1>10. CASE Chunk \/ StrayChunk
  BY <1>10 DEF Chunk, StrayChunk, Frame, Held, hub
<1>11. CASE MicWaits \/ MicTestEnds \/ SourceOpens \/ CreateRoom
  BY <1>11, MicWaitsQuiet DEF MicTestEnds, SourceOpens, CreateRoom, Held, page, hub
<1>12. CASE HubRestarts
  BY <1>12 DEF HubRestarts
<1>13. CASE DeleteRoom
  BY <1>13 DEF DeleteRoom, Held, page
<1>14. CASE UNCHANGED vars
  BY <1>14 DEF vars, Held, page, hub
<1> QED
  BY <1>1, <1>2, <1>3, <1>4, <1>5, <1>6, <1>7, <1>8, <1>9, <1>10, <1>11, <1>12, <1>13, <1>14
     DEF Next, MicWaits

-----------------------------------------------------------------------------
(* What can be decoded *)

\* What a step has to keep of an undisturbed stream.
StreamKept == Decodes /\ HeadKept

\* A step that lets nobody new be heard or hear, and touches neither the hub's
\* segment nor the media source, keeps the stream.
LEMMA StreamUntouched ==
  ASSUME StreamKept, UNCHANGED <<initSegment, media, first, strays>>,
         disturbed => disturbed', ~disturbed' => (headSent' => headSent),
         ~disturbed' => (headSent' /\ Carries' => Carries), Hearing' => Hearing
  PROVE  StreamKept'
BY DEF StreamKept, Decodes, HeadKept

\* So does one that ends what the hub has, if the page gets nothing through.
LEMMA SegmentDropped ==
  ASSUME StreamKept, initSegment' = None, disturbed => disturbed',
         ~disturbed' => ~(headSent' /\ Carries'), strays' = strays,
         media' = "none" \/ UNCHANGED <<media, first>>
  PROVE  StreamKept'
BY ClientsAssumption DEF StreamKept, Decodes, HeadKept

\* A chunk is heard: the head by a page that has no source yet.
LEMMA HeadHeard ==
  ASSUME StreamKept, ~disturbed, NEW chunk \in {"head", "mid"}, Hear(chunk),
         media = "none" => chunk = "head"
  PROVE  media' \notin {"none", "broken"} /\ (media' \in {"opening", "ready"} => first' = "head")
<1>1. CASE media = "none"
  BY <1>1 DEF Hear
<1>2. CASE media = "opening"
  BY <1>2 DEF StreamKept, HeadKept, Hear
<1>3. CASE media = "ready"
  BY <1>3 DEF StreamKept, HeadKept, Hear
<1>4. CASE media \notin {"none", "opening", "ready"}
  BY <1>4 DEF StreamKept, Decodes, Hear
<1> QED
  BY <1>1, <1>2, <1>3, <1>4

LEMMA StreamStep ==
  ASSUME TypeOK, OneSource, ListenerLadder, RoleHeld, CurrentRegistered, StreamKept, [Next]_vars
  PROVE  StreamKept'
<1>1. ASSUME NEW s \in BSocks, SelectRoom(s)
      PROVE  StreamKept'
  <2>1. ~Carries' /\ (Hearing' => Hearing)
    BY <1>1, NobodyNewHears, ClientsAssumption
       DEF SelectRoom, capture, Connects, Carries, TypeOK, Socks, hub
  <2> QED
    BY <1>1, <2>1, StreamUntouched DEF SelectRoom, capture, hub, listener, playback
<1>2. ASSUME NEW s \in BSocks, Reconnect(s)
      PROVE  StreamKept'
  <2>1. Carries' => Carries
    BY <1>2, ClientsAssumption DEF Reconnect, capture, Connects, Carries, TypeOK, Socks, hub
  <2>2. Hearing' => Hearing
    BY <1>2, NobodyNewHears, ClientsAssumption DEF Reconnect, capture, Connects, TypeOK, Socks, hub
  <2> QED
    BY <1>2, <2>1, <2>2, StreamUntouched DEF Reconnect, capture, hub, listener, playback
<1>3. ASSUME NEW s \in BSocks, BroadcasterOpens(s)
      PROVE  StreamKept'
  <2>1. disturbed => disturbed'
    BY <1>3 DEF BroadcasterOpens, capture
  <2>2. ~disturbed' => ~headSent'
    BY <1>3 DEF BroadcasterOpens, capture
  <2>3. initSegment' \in {initSegment, None} /\ UNCHANGED <<media, first, strays>>
    BY <1>3 DEF BroadcasterOpens, JoinAsBroadcaster, capture, hub, listener, playback
  <2> QED
    BY <2>1, <2>2, <2>3, ClientsAssumption DEF StreamKept, Decodes, HeadKept
<1>4. ASSUME NEW s \in BSocks, BroadcasterLoses(s)
      PROVE  StreamKept'
  <2>1. Carries' => Carries
    BY <1>4 DEF BroadcasterLoses, Left, Carries, TypeOK, Socks, page, capture, hub
  <2>2. Hearing' => Hearing
    BY <1>4, NobodyNewHears, ClientsAssumption DEF BroadcasterLoses, TypeOK, Socks, hub
  <2> QED
    BY <1>4, <2>1, <2>2, StreamUntouched DEF BroadcasterLoses, page, capture, hub, listener, playback
<1>5. ASSUME NEW s \in LSocks, JoinRoom(s) \/ ListenerReconnects(s)
      PROVE  StreamKept'
  <2>1. Carries' => Carries
    BY <1>5, ClientsAssumption
       DEF JoinRoom, ListenerReconnects, Connects, Carries, TypeOK, Socks, page, capture, hub
  <2>2. Hearing' => Hearing
    BY <1>5, NobodyNewHears DEF JoinRoom, ListenerReconnects, Connects, TypeOK, Socks, hub
  <2> QED
    BY <1>5, <2>1, <2>2, StreamUntouched
       DEF JoinRoom, ListenerReconnects, page, capture, hub, listener, playback
<1>6. ASSUME NEW s \in LSocks, ListenerOpens(s)
      PROVE  StreamKept'
  <2>1. Carries' => Carries
    BY <1>6, ClientsAssumption DEF ListenerOpens, Carries, TypeOK, Socks, page, capture, hub
  <2>2. CASE sock' = [sock EXCEPT ![s] = "dropped"] /\ UNCHANGED <<hub, shows, playback>>
    <3>1. Hearing' => Hearing
      BY <2>2, NobodyNewHears DEF TypeOK, Socks, hub
    <3> QED
      BY <1>6, <2>1, <2>2, <3>1, StreamUntouched DEF ListenerOpens, page, capture, hub, playback
  <2>3. CASE /\ IF Given = None THEN UNCHANGED playback ELSE Hear(Given)
             /\ UNCHANGED <<dbRoom, role, registered, live, initSegment>>
    <3>1. CASE disturbed
      BY <1>6, <3>1 DEF ListenerOpens, StreamKept, Decodes, HeadKept
    <3>2. CASE ~disturbed /\ Given = None
      BY <1>6, <2>1, <2>3, <3>2, ClientsAssumption
         DEF ListenerOpens, Given, StreamKept, Decodes, HeadKept, page, capture, playback
    <3>3. CASE ~disturbed /\ Given # None
      <4>1. Given = "head" /\ Hear(Given)
        BY <2>3, <3>3 DEF Given, StreamKept, Decodes, TypeOK
      <4>2. media' \notin {"none", "broken"} /\ (media' \in {"opening", "ready"} => first' = "head")
        BY <3>3, <4>1, HeadHeard
      <4> QED
        BY <1>6, <2>3, <4>1, <4>2 DEF ListenerOpens, Given, StreamKept, Decodes, HeadKept, page, capture
    <3> QED
      BY <3>1, <3>2, <3>3
  <2> QED
    BY <1>6, <2>2, <2>3 DEF ListenerOpens
<1>7. ASSUME NEW s \in LSocks, ListenerLoses(s)
      PROVE  StreamKept'
  <2>1. Connections = {s}
    BY <1>7 DEF ListenerLoses, PageSees, Connections, ListenerLadder, Ladder
  <2>2. ~Hearing'
    BY <1>7, <2>1 DEF ListenerLoses, Left, Hearing, Connections, TypeOK, Socks, hub
  <2>3. Carries' => Carries
    BY <1>7, ClientsAssumption DEF ListenerLoses, Carries, TypeOK, Socks, page, capture, hub
  <2> QED
    BY <1>7, <2>2, <2>3 DEF ListenerLoses, Cleanup, StreamKept, Decodes, HeadKept, page, capture, hub
<1>8. ASSUME NEW s \in Socks, ServerCloses(s)
      PROVE  StreamKept'
  <2>1. (Carries' => Carries /\ ws # s) /\ (Hearing' => Hearing)
    BY <1>8 DEF ServerCloses, Close, Carries, Hearing, TypeOK, page, capture
  <2>2. CASE registered = s /\ live
    <3>1. ~Carries'
      BY <2>1, <2>2, ClientsAssumption DEF Carries, CurrentRegistered, TypeOK, Socks
    <3>2. EndBroadcast
      BY <1>8, <2>2 DEF ServerCloses, Close
    <3>3. initSegment' = None /\ (media' = "none" \/ UNCHANGED <<media, first>>)
      BY <3>2 DEF EndBroadcast, Cleanup, playback
    <3> QED
      BY <1>8, <3>1, <3>3, SegmentDropped DEF ServerCloses, page, capture
  <2>3. CASE ~(registered = s /\ live)
    BY <1>8, <2>1, <2>3, StreamUntouched DEF ServerCloses, Close, page, capture, playback
  <2> QED
    BY <2>2, <2>3
<1>9. CASE LeaveRoom
  <2>1. ~Carries' /\ (Hearing' => Hearing)
    BY <1>9, NobodyNewHears DEF LeaveRoom, capture, Carries, TypeOK, hub
  <2> QED
    BY <1>9, <2>1, StreamUntouched DEF LeaveRoom, capture, hub, listener, playback
<1>10. CASE ClickLive
  <2>1. (Carries' => Carries) /\ (Hearing' => Hearing) /\ headSent' = FALSE
    BY <1>10 DEF ClickLive, Carries, Hearing
  <2> QED
    BY <1>10, <2>1, StreamUntouched DEF ClickLive, playback
<1>11. CASE Chunk
  <2>1. CASE disturbed'
    BY <2>1 DEF StreamKept, Decodes, HeadKept
  <2>2. CASE ~disturbed'
    <3> DEFINE chunk == IF headSent THEN "mid" ELSE "head"
    <3>1. Carries /\ ~disturbed /\ Frame(chunk) /\ ~strays'
      BY <1>11, <2>2 DEF Chunk, NextChunk, StreamKept, HeadKept
    <3>2. initSegment' = "head"
      <4>1. CASE headSent
        BY <3>1, <4>1, ClientsAssumption DEF Frame, StreamKept, HeadKept
      <4>2. CASE ~headSent
        BY <3>1, <4>2 DEF Frame, StreamKept, Decodes, TypeOK
      <4> QED
        BY <4>1, <4>2
    <3>3. Hearing' <=> Hearing
      BY <1>11, <3>1 DEF Chunk, Frame, Hearing
    <3>4. CASE Hearing
      <4>1. media = "none" => chunk = "head"
        BY <3>1, <3>4 DEF StreamKept, HeadKept
      <4>2. Hear(chunk) /\ chunk \in {"head", "mid"}
        BY <3>1, <3>4 DEF Frame
      <4>3. media' \notin {"none", "broken"} /\ (media' \in {"opening", "ready"} => first' = "head")
        BY <3>1, <4>1, <4>2, HeadHeard
      <4> QED
        BY <3>1, <3>2, <4>3 DEF StreamKept, Decodes, HeadKept
    <3>5. CASE ~Hearing
      BY <3>1, <3>2, <3>3, <3>5 DEF Frame, StreamKept, Decodes, HeadKept, playback
    <3> QED
      BY <3>4, <3>5
  <2> QED
    BY <2>1, <2>2
<1>12. CASE ClickStop
  BY <1>12 DEF ClickStop, StreamKept, Decodes, HeadKept
<1>13. CASE MicWaits
  <2>1. (Carries' => Carries) /\ (Hearing' => Hearing)
    BY <1>13, MicWaitsQuiet DEF Carries, Hearing, hub
  <2> QED
    BY <1>13, <2>1, MicWaitsQuiet, StreamUntouched DEF hub, listener, playback
<1>14. CASE MicTestEnds
  <2>1. (Carries' => Carries) /\ (Hearing' => Hearing) /\ (headSent' => headSent)
    BY <1>14 DEF MicTestEnds, Carries, Hearing, hub
  <2> QED
    BY <1>14, <2>1, StreamUntouched DEF MicTestEnds, hub, listener, playback
<1>15. CASE SourceOpens
  <2>1. (Carries' <=> Carries) /\ (Hearing' <=> Hearing)
    BY <1>15 DEF SourceOpens, Carries, Hearing, page, capture, hub
  <2> QED
    BY <1>15, <2>1 DEF SourceOpens, StreamKept, Decodes, HeadKept, page, capture, hub
<1>16. CASE HubRestarts
  <2>1. ~Carries'
    BY <1>16 DEF HubRestarts, Carries
  <2> QED
    BY <1>16, <2>1, SegmentDropped DEF HubRestarts, page, capture, listener, playback
<1>17. CASE DeleteRoom
  <2>1. (disturbed => disturbed') /\ (~disturbed' => ~headSent')
    BY <1>17 DEF DeleteRoom, page, capture
  <2> QED
    BY <1>17, <2>1, SegmentDropped DEF DeleteRoom, page, capture, listener, playback
<1>18. CASE CreateRoom
  <2>1. (Carries' => Carries) /\ (Hearing' => Hearing)
    BY <1>18 DEF CreateRoom, Carries, Hearing, page, capture, hub
  <2> QED
    BY <1>18, <2>1, StreamUntouched DEF CreateRoom, page, capture, hub, listener, playback
<1>19. CASE ClickResumes
  <2>1. CASE recorder = "none"
    <3>1. (Carries' => Carries) /\ (Hearing' => Hearing) /\ headSent' = FALSE
      BY <1>19 DEF ClickResumes, Carries, Hearing
    <3> QED
      BY <1>19, <2>1, <3>1, StreamUntouched DEF ClickResumes, Running, StreamKept, HeadKept, TypeOK, playback
  <2>2. CASE recorder # "none"
    BY <1>19, <2>2 DEF ClickResumes, StreamKept, Decodes, HeadKept
  <2> QED
    BY <2>1, <2>2
<1>20. CASE StrayChunk
  BY <1>20 DEF StrayChunk, StreamKept, Decodes, HeadKept
<1>21. CASE UNCHANGED vars
  <2>1. (Carries' => Carries) /\ (Hearing' => Hearing)
    BY <1>21 DEF vars, Carries, Hearing, page, capture, hub
  <2> QED
    BY <1>21, <2>1, StreamUntouched DEF vars, page, capture, hub, listener, playback
<1> QED
  BY <1>1, <1>2, <1>3, <1>4, <1>5, <1>6, <1>7, <1>8, <1>9, <1>10, <1>11, <1>12, <1>13,
     <1>14, <1>15, <1>16, <1>17, <1>18, <1>19, <1>20, <1>21 DEF Next, MicWaits

-----------------------------------------------------------------------------
(* The theorems *)

LEMMA InitIInv == Init => IInv
<1> SUFFICES ASSUME Init
             PROVE  IInv
  OBVIOUS
<1>1. TypeOK /\ OneSource
  <2>1. /\ active \in BOOLEAN /\ disabled \in BOOLEAN /\ headSent \in BOOLEAN
        /\ dbRoom \in BOOLEAN /\ live \in BOOLEAN /\ joined \in BOOLEAN /\ disturbed \in BOOLEAN
        /\ strays \in BOOLEAN
    BY DEF Init
  <2>2. /\ sock = [s \in Socks |-> "free"] /\ code = [s \in Socks |-> "plain"]
        /\ ws = None /\ timers = [p \in {"b", "l"} |-> 0] /\ mic = "none" /\ recorder = "none"
        /\ role = {} /\ registered = None /\ initSegment = None /\ listeners = {}
        /\ attempts = 0 /\ shows = "idle" /\ media = "none" /\ first = None /\ sources = 0
    BY DEF Init
  <2>3. asks \in [{"click", "test"} -> 0..MaxAsks]
    BY ClientsAssumption DEF Init
  <2> QED
    BY <2>1, <2>2, <2>3, ClientsAssumption DEF TypeOK, OneSource
<1>2. ListenerLadder
  BY DEF Init, ListenerLadder, Ladder, Connections, Socks
<1>3. ShownLive /\ RoleHeld /\ CurrentRegistered /\ Decodes /\ HeadKept
  BY ClientsAssumption DEF Init, ShownLive, Hearing, RoleHeld, CurrentRegistered, Decodes, HeadKept
<1> QED
  BY <1>1, <1>2, <1>3, LadderCounted DEF IInv

LEMMA NextIInv == IInv /\ [Next]_vars => IInv'
<1> SUFFICES ASSUME IInv, [Next]_vars
             PROVE  IInv'
  OBVIOUS
<1>1. TypeOK' /\ OneSource'
  BY TypeOKStep DEF IInv
<1>2. ListenerLadder
  BY LadderCounted DEF IInv
<1>3. OneLadder'
  <2>1. ListenerLadder'
    BY <1>2, LadderStep DEF IInv
  <2>2. TypeOK' => (OneLadder' <=> ListenerLadder')
    BY LadderCounted, PTL
  <2> QED
    BY <1>1, <2>1, <2>2
<1>4. ShownLive'
  BY <1>2, ShownLiveStep DEF IInv
<1>5. RoleHeld' /\ CurrentRegistered'
  BY RolesStep DEF IInv
<1>6. Decodes' /\ HeadKept'
  BY <1>2, StreamStep DEF IInv, StreamKept
<1> QED
  BY <1>1, <1>3, <1>4, <1>5, <1>6 DEF IInv

\* The inductive invariant of the two pages and the room between them, for any
\* number of sockets of each page, any limit of attempts and any bound on timers.
THEOREM PagesInvariant == Spec => []IInv
BY InitIInv, NextIInv, PTL DEF Spec

\* A listener who joined has one connection or one timer until the page gives up,
\* whatever closes, drops or half-opens its sockets (listen.js:197, 349).
THEOREM SingleLadder == Spec => []OneLadder
<1>1. IInv => OneLadder
  BY DEF IInv
<1> QED
  BY <1>1, PagesInvariant, PTL

\* A listener that the hub counts sees whether the room is live (listen.js:302).
THEOREM CountedSeesLive == Spec => []ShownLive
<1>1. IInv => ShownLive
  BY DEF IInv
<1> QED
  BY <1>1, PagesInvariant, PTL

\* A decoder never starts in the middle of an undisturbed stream, however late a
\* listener comes and however often it comes back (streaming.js:221).
THEOREM UndisturbedDecodes == Spec => []Decodes
<1>1. IInv => Decodes
  BY DEF IInv
<1> QED
  BY <1>1, PagesInvariant, PTL
=============================================================================
