-------------------------- MODULE StreamingProofs --------------------------
(***************************************************************************)
(* Proofs about Streaming, for any number of sockets, listeners, streams   *)
(* and deletions of the room.                                              *)
(***************************************************************************)
EXTENDS Streaming, FiniteSetTheorems, TLAPS

\* Type correctness of every handler: no step of the hub leaves the typed state space.
LEMMA TypeStep == TypeOK /\ [Next]_vars => TypeOK'
<1> SUFFICES ASSUME TypeOK, [Next]_vars PROVE TypeOK'
    OBVIOUS
<1> USE StreamingAssumption DEF TypeOK, Gens
<1>1. ASSUME NEW s \in Sockets, Connect(s) PROVE TypeOK'
    BY <1>1 DEF Connect, table, room, disk
<1>2. ASSUME NEW s \in Sockets, PeerClose(s) \/ PeerVanish(s) PROVE TypeOK'
    <2>1. CASE PeerClose(s)
        BY <2>1 DEF PeerClose, session, heart, table, room, disk
    <2>2. CASE PeerVanish(s)
        BY <2>2 DEF PeerVanish, session, heart, table, room, disk
    <2>3. QED
        BY <1>2, <2>1, <2>2
<1>3. ASSUME NEW s \in Sockets, CloseTimeout(s) PROVE TypeOK'
    BY <1>3 DEF CloseTimeout, Terminated, session, heart, table, room, disk
<1>4. ASSUME NEW s \in Sockets, JoinNoRoom(s) \/ JoinNotAllowed(s) \/ JoinOccupied(s) \/ JoinThrottled(s)
      PROVE  TypeOK'
    BY ZenonT(60), <1>4 DEF JoinNoRoom, JoinNotAllowed, JoinOccupied, JoinThrottled, Latch, Refuse, Closing, heart,
                table, room, disk, Unjoined
<1>5. ASSUME NEW s \in Sockets, JoinBroadcaster(s) PROVE TypeOK'
    BY <1>5 DEF JoinBroadcaster, Latch, Terminated, table, disk, Ready
<1>6. ASSUME NEW s \in Sockets, NEW g \in Gens, Admit(s, g),
             UNCHANGED joinHandled \/ joinHandled' = [joinHandled EXCEPT ![s] = TRUE],
             UNCHANGED at \/ at' = [at EXCEPT ![s] = gen],
             UNCHANGED kdf \/ kdf' = [kdf EXCEPT ![s] = FALSE]
      PROVE  TypeOK'
    <2>1. joinHandled' \in [Sockets -> BOOLEAN]
        BY <1>6
    <2>2. at' \in [Sockets -> Gens]
        BY <1>6
    <2>3. kdf' \in [Sockets -> BOOLEAN]
        BY <1>6
    <2>4. CASE Refuse(s) /\ UNCHANGED role
        BY <2>1, <2>2, <2>3, <2>4 DEF Refuse, Closing, heart, table, room, disk
    <2>5. CASE Register(s, g)
        BY <2>1, <2>2, <2>3, <2>5 DEF Register, link, table, disk
    <2>6. QED
        BY <1>6, <2>4, <2>5 DEF Admit
<1>7. ASSUME NEW s \in Sockets, JoinListener(s) PROVE TypeOK'
    BY <1>6, <1>7 DEF JoinListener, Latch
<1>8. ASSUME NEW s \in Sockets, JoinPassword(s) PROVE TypeOK'
    BY <1>8 DEF JoinPassword, Latch, link, heart, table, room, disk
<1>9. ASSUME NEW s \in Sockets, KdfDone(s) PROVE TypeOK'
    <2>1. CASE Refuse(s) /\ UNCHANGED role
        BY <1>9, <2>1 DEF KdfDone, Refuse, Closing, heart, table, room, disk
    <2>2. CASE Admit(s, at[s])
        BY <1>6, <1>9, <2>2 DEF KdfDone
    <2>3. QED
        BY <1>9, <2>1, <2>2 DEF KdfDone
<1>10. ASSUME NEW s \in Sockets, GoLive(s) PROVE TypeOK'
    <2>1. PICK r \in Recordings :
            /\ stream' = [stream EXCEPT ![r] = "open"]
            /\ writer' = [writer EXCEPT ![r] = s]
            /\ rec' = [rec EXCEPT ![s] = r]
        BY <1>10 DEF GoLive
    <2>2. QED
        BY <1>10, <2>1 DEF GoLive, link, session, heart, table
<1>11. ASSUME NEW s \in Sockets, Frame(s) PROVE TypeOK'
    <2>1. PICK slow \in SUBSET Sockets :
            /\ listeners' = [listeners EXCEPT ![gen] = @ \ slow]
            /\ conn' = Closing(slow)
        BY <1>11 DEF Frame
    <2>2. notified' \in [Gens -> BOOLEAN]
        BY <1>11 DEF Frame
    <2>3. initSegment' \in [Gens -> Sockets \union {Nobody}]
        BY <1>11 DEF Frame
    <2>4. listeners' \in [Gens -> SUBSET Sockets]
        BY <2>1
    <2>5. QED
        BY <1>11, <2>1, <2>2, <2>3, <2>4 DEF Frame, Closing, session, heart, table, disk
<1>12. ASSUME NEW s \in Sockets, EndRecording(s)
       PROVE  /\ rec' \in [Sockets -> Recordings \union {NoRec}]
              /\ stream' \in [Recordings -> {"free", "open", "saved", "discarded"}]
              /\ writer' \in [Recordings -> Sockets \union {Nobody}]
    <2>1. CASE UNCHANGED disk
        BY <2>1 DEF disk
    <2>2. CASE /\ rec[s] # NoRec
               /\ \E outcome \in {"saved", "discarded"} : stream' = [stream EXCEPT ![rec[s]] = outcome]
               /\ rec' = [rec EXCEPT ![s] = NoRec]
               /\ UNCHANGED writer
        <3>1. PICK outcome \in {"saved", "discarded"} : stream' = [stream EXCEPT ![rec[s]] = outcome]
            BY <2>2
        <3>2. stream' \in [Recordings -> {"free", "open", "saved", "discarded"}]
            BY <2>2, <3>1
        <3>3. QED
            BY <2>2, <3>2
    <2>3. QED
        BY <1>12, <2>1, <2>2 DEF EndRecording
<1>13. ASSUME NEW s \in Sockets, Stop(s) PROVE TypeOK'
    <2>1. EndRecording(s)
        BY <1>13 DEF Stop, StopBroadcast
    <2>2. /\ rec' \in [Sockets -> Recordings \union {NoRec}]
          /\ stream' \in [Recordings -> {"free", "open", "saved", "discarded"}]
          /\ writer' \in [Recordings -> Sockets \union {Nobody}]
        BY <1>12, <2>1
    <2>3. live' \in [Gens -> BOOLEAN] /\ initSegment' \in [Gens -> Sockets \union {Nobody}]
        BY <1>13 DEF Stop, StopBroadcast
    <2>4. UNCHANGED <<link, session, heart, table, broadcaster, listeners, notified>>
        BY <1>13 DEF Stop
    <2>5. QED
        BY <2>2, <2>3, <2>4 DEF link, session, heart, table
<1>14. ASSUME NEW s \in Sockets, OnClose(s) PROVE TypeOK'
    <2>1. /\ conn' = [conn EXCEPT ![s] = "closed"]
          /\ ticking' = [ticking EXCEPT ![s] = FALSE]
          /\ UNCHANGED <<peerUp, session, alive, table>>
        BY <1>14 DEF OnClose
    <2>2. \/ /\ broadcaster' = [broadcaster EXCEPT ![gen] = Nobody]
             /\ live' = [live EXCEPT ![gen] = FALSE]
             /\ initSegment' = [initSegment EXCEPT ![gen] = Nobody]
             /\ EndRecording(s)
             /\ UNCHANGED <<listeners, notified>>
          \/ /\ broadcaster' = [broadcaster EXCEPT ![gen] = Nobody]
             /\ UNCHANGED <<live, initSegment, disk, listeners, notified>>
          \/ /\ listeners' = [listeners EXCEPT ![gen] = @ \ {s}]
             /\ UNCHANGED <<broadcaster, initSegment, live, notified, disk>>
          \/ UNCHANGED <<room, disk>>
        BY <1>14 DEF OnClose, StopBroadcast
    <2>3. /\ broadcaster' \in [Gens -> Sockets \union {Nobody}]
          /\ listeners' \in [Gens -> SUBSET Sockets]
          /\ initSegment' \in [Gens -> Sockets \union {Nobody}]
          /\ live' \in [Gens -> BOOLEAN]
          /\ notified' \in [Gens -> BOOLEAN]
        <3>1. broadcaster' \in [Gens -> Sockets \union {Nobody}]
            BY <2>2 DEF room
        <3>2. listeners' \in [Gens -> SUBSET Sockets]
            BY <2>2 DEF room
        <3>3. initSegment' \in [Gens -> Sockets \union {Nobody}]
            BY <2>2 DEF room
        <3>4. live' \in [Gens -> BOOLEAN]
            BY <2>2 DEF room
        <3>5. notified' \in [Gens -> BOOLEAN]
            BY <2>2 DEF room
        <3>6. QED
            BY <3>1, <3>2, <3>3, <3>4, <3>5
    <2>4. /\ rec' \in [Sockets -> Recordings \union {NoRec}]
          /\ stream' \in [Recordings -> {"free", "open", "saved", "discarded"}]
          /\ writer' \in [Recordings -> Sockets \union {Nobody}]
        BY <1>12, <2>2 DEF disk
    <2>5. QED
        BY <2>1, <2>3, <2>4 DEF session, table
<1>15. ASSUME NEW s \in Sockets, Heartbeat(s) \/ Pong(s) PROVE TypeOK'
    <2>1. CASE Heartbeat(s)
        BY <2>1 DEF Heartbeat, Terminated, session, table, room, disk
    <2>2. CASE Pong(s)
        BY <2>2 DEF Pong, link, session, table, room, disk
    <2>3. QED
        BY <1>15, <2>1, <2>2
<1>16. ASSUME NEW r \in Recordings, StreamError(r) \/ StreamFlushed(r) PROVE TypeOK'
    <2>1. stream' \in [Recordings -> {"free", "open", "saved", "discarded"}]
        <3>1. CASE StreamError(r)
            BY <3>1 DEF StreamError
        <3>2. CASE StreamFlushed(r)
            BY <3>2 DEF StreamFlushed
        <3>3. QED
            BY <1>16, <3>1, <3>2
    <2>2. rec' \in [Sockets -> Recordings \union {NoRec}]
        BY <1>16 DEF StreamError, StreamFlushed
    <2>3. UNCHANGED <<link, session, heart, table, room, writer>>
        BY <1>16 DEF StreamError, StreamFlushed
    <2>4. QED
        BY <2>1, <2>2, <2>3 DEF link, session, heart, table, room
<1>17. ASSUME DeleteRoom \/ CreateRoom \/ DeleteOrganization PROVE TypeOK'
    <2>1. org' \in BOOLEAN /\ dbRoom' \in BOOLEAN
        BY <1>17 DEF DeleteRoom, CreateRoom, DeleteOrganization, TypeOK
    <2>2. gen' \in Gens
        BY <1>17 DEF DeleteRoom, CreateRoom, DeleteOrganization, TypeOK
    <2>3. UNCHANGED <<link, session, heart, room, disk>>
        BY <1>17 DEF DeleteRoom, CreateRoom, DeleteOrganization
    <2>4. QED
        BY <2>1, <2>2, <2>3 DEF link, session, heart, room, disk
<1>18. CASE UNCHANGED vars
    BY <1>18 DEF vars, link, session, heart, table, room, disk
<1>19. QED
    BY <1>1, <1>2, <1>3, <1>4, <1>5, <1>7, <1>8, <1>9, <1>10, <1>11, <1>13, <1>14, <1>15, <1>16,
       <1>17, <1>18 DEF Next, Join

LEMMA TypeInit == Init => TypeOK
    BY StreamingAssumption DEF Init, TypeOK, Gens

\* Every reachable state of the hub is well typed.
THEOREM TypeCorrect == Spec => []TypeOK
    BY TypeInit, TypeStep, PTL DEF Spec

-----------------------------------------------------------------------------
(* Who is registered where.  Most handlers leave the registrations alone and can only cut *)
(* connections; those share one argument.                                                 *)

Registry == Handshake /\ Registered /\ OneRegistration /\ SoleBroadcaster

\* No registration is made or removed, and no connection comes to life.
OnlyCuts ==
    /\ UNCHANGED <<session, gen, broadcaster, listeners>>
    /\ \A s \in Sockets :
        /\ conn'[s] = conn[s] \/ conn'[s] \in {"ending", "closed"}
        /\ peerUp'[s] => peerUp[s]

LEMMA CutsKeepRegistry == TypeOK /\ Registry /\ OnlyCuts => Registry'
<1> SUFFICES ASSUME TypeOK, Registry, OnlyCuts PROVE Registry'
    OBVIOUS
<1>1. Handshake'
    BY DEF Registry, Handshake, OnlyCuts, session
<1>2. Registered' /\ OneRegistration'
    BY DEF Registry, Registered, OneRegistration, OnlyCuts, session
<1>3. SoleBroadcaster'
    BY DEF Registry, SoleBroadcaster, OnlyCuts, session, Readable
<1>4. QED
    BY <1>1, <1>2, <1>3 DEF Registry

LEMMA RefuseKeepsRegistry ==
    ASSUME TypeOK, Registry, NEW s \in Sockets, Refuse(s), joinHandled'[s],
           role[s] = "none", UNCHANGED role,
           \A t \in Sockets : joinHandled[t] => joinHandled'[t],
           \A t \in Sockets : at'[t] = at[t] \/ (t = s /\ at'[t] = gen),
           \A t \in Sockets : kdf'[t] => kdf[t]
    PROVE  Registry'
<1> USE DEF Registry, Refuse, heart, table, room, disk
<1>1. \A t \in Sockets : conn'[t] = conn[t] \/ (t = s /\ conn'[t] = "closing")
    BY DEF Closing, TypeOK
<1>2. Handshake'
    <2> SUFFICES ASSUME NEW t \in Sockets
                 PROVE  /\ role[t] # "none" \/ kdf'[t] => joinHandled'[t]
                        /\ kdf'[t] => role[t] = "none"
                        /\ conn'[t] = "closing" => joinHandled'[t] /\ role[t] # "broadcaster"
                        /\ at'[t] <= gen
        BY DEF Handshake
    <2>1. role[t] # "none" \/ kdf'[t] => joinHandled'[t]
        BY DEF Handshake
    <2>2. conn'[t] = "closing" => joinHandled'[t] /\ role[t] # "broadcaster"
        BY <1>1 DEF Handshake
    <2>3. at'[t] <= gen
        <3>1. gen <= gen
            BY StreamingAssumption DEF TypeOK, Gens
        <3>2. at[t] <= gen
            BY DEF Handshake
        <3>3. QED
            BY <3>1, <3>2
    <2>4. QED
        BY <2>1, <2>2, <2>3 DEF Handshake
<1>3. Registered'
    BY DEF Registered
<1>4. OneRegistration'
    BY DEF OneRegistration
<1>5. SoleBroadcaster'
    BY <1>1 DEF SoleBroadcaster, Readable
<1>6. QED
    BY <1>2, <1>3, <1>4, <1>5

\* Admission registers a latched socket without a role with the state object it looked up.
LEMMA AdmitKeepsRegistry ==
    ASSUME TypeOK, Registry, NEW s \in Sockets, NEW g \in Gens, Admit(s, g),
           joinHandled'[s], role[s] = "none", at'[s] = g, g <= gen,
           \A t \in Sockets : joinHandled[t] => joinHandled'[t],
           \A t \in Sockets : t # s => at'[t] = at[t],
           at[s] = g \/ g = gen,
           \A t \in Sockets : kdf'[t] => kdf[t] /\ t # s
    PROVE  Registry'
<1>1. CASE Refuse(s) /\ UNCHANGED role
    BY <1>1, RefuseKeepsRegistry
<1>2. CASE Register(s, g)
    <2> USE <1>2 DEF Registry, Register, link, table
    <2>1. \A t \in Sockets : role'[t] = IF t = s THEN "listener" ELSE role[t]
        BY DEF TypeOK
    <2>2. \A h \in Gens : listeners'[h] = IF h = g THEN listeners[g] \union {s} ELSE listeners[h]
        BY DEF TypeOK
    <2>3. Handshake'
        <3> SUFFICES ASSUME NEW t \in Sockets
                     PROVE  /\ role'[t] # "none" \/ kdf'[t] => joinHandled'[t]
                            /\ kdf'[t] => role'[t] = "none"
                            /\ conn[t] = "closing" => joinHandled'[t] /\ role'[t] # "broadcaster"
                            /\ at'[t] <= gen
            BY DEF Handshake
        <3>1. QED
            BY <2>1 DEF Handshake
    <2>4. Registered'
        BY <2>1 DEF Registered
    <2>5. OneRegistration'
        <3> SUFFICES ASSUME NEW t \in Sockets, NEW h \in Gens, t \in listeners'[h]
                     PROVE  /\ role'[t] = "listener" /\ at'[t] = h
                            /\ \A k \in Gens : broadcaster[k] # t
            BY DEF OneRegistration
        <3>1. CASE t = s
            BY <2>1, <2>2, <3>1 DEF OneRegistration, Registered
        <3>2. CASE t # s
            BY <2>1, <2>2, <3>2 DEF OneRegistration
        <3>3. QED
            BY <3>1, <3>2
    <2>6. SoleBroadcaster'
        BY <2>1 DEF SoleBroadcaster, Readable
    <2>7. QED
        BY <2>3, <2>4, <2>5, <2>6
<1>3. QED
    BY <1>1, <1>2 DEF Admit

LEMMA ConnectKeepsRegistry ==
    ASSUME TypeOK, Registry, NEW s \in Sockets, Connect(s)
    PROVE  Registry'
<1>1. /\ ~kdf[s]
      /\ \A g \in Gens : broadcaster[g] # s /\ s \notin listeners[g]
    BY DEF Connect, Referenced
<1>2. \A t \in Sockets :
        /\ t # s => /\ conn'[t] = conn[t] /\ peerUp'[t] = peerUp[t]
                    /\ joinHandled'[t] = joinHandled[t] /\ role'[t] = role[t] /\ at'[t] = at[t]
        /\ t = s => conn'[t] = "open" /\ role'[t] = "none" /\ at'[t] = gen
    BY DEF Connect, TypeOK
<1>3. UNCHANGED <<kdf, gen, broadcaster, listeners>>
    BY DEF Connect, table, room
<1>4. gen \in Gens /\ gen <= gen
    BY StreamingAssumption DEF TypeOK, Gens
<1>5. Handshake'
    <2> SUFFICES ASSUME NEW t \in Sockets
                 PROVE  /\ role'[t] # "none" \/ kdf[t] => joinHandled'[t]
                        /\ kdf[t] => role'[t] = "none"
                        /\ conn'[t] = "closing" => joinHandled'[t] /\ role'[t] # "broadcaster"
                        /\ at'[t] <= gen
        BY <1>3 DEF Handshake
    <2>1. CASE t = s
        BY <1>1, <1>2, <1>4, <2>1
    <2>2. CASE t # s
        BY <1>2, <2>2 DEF Registry, Handshake
    <2>3. QED
        BY <2>1, <2>2
<1>6. Registered'
    BY <1>1, <1>2, <1>3 DEF Registry, Registered
<1>7. OneRegistration'
    BY <1>1, <1>2, <1>3 DEF Registry, OneRegistration
<1>8. SoleBroadcaster'
    BY <1>2, <1>3 DEF Registry, SoleBroadcaster, Readable
<1>9. QED
    BY <1>5, <1>6, <1>7, <1>8 DEF Registry

\* A take-over: the former broadcaster's socket, no longer open, is terminated.
LEMMA TakeKeepsRegistry ==
    ASSUME TypeOK, Registry, NEW s \in Sockets, JoinBroadcaster(s)
    PROVE  Registry'
<1>1. gen \in Gens /\ gen <= gen
    BY StreamingAssumption DEF TypeOK, Gens
<1>2. \A t \in Sockets :
        /\ t # s => joinHandled'[t] = joinHandled[t] /\ role'[t] = role[t] /\ at'[t] = at[t]
        /\ t = s => joinHandled'[t] /\ role'[t] = "broadcaster" /\ at'[t] = gen
    BY DEF JoinBroadcaster, Latch, TypeOK
<1>3. \A t \in Sockets : conn'[t] = conn[t] \/ conn'[t] = "ending"
    BY StreamingAssumption DEF JoinBroadcaster, TypeOK, Terminated
<1>4. \A g \in Gens : broadcaster'[g] = IF g = gen THEN s ELSE broadcaster[g]
    BY DEF JoinBroadcaster, TypeOK, Ready
<1>5. UNCHANGED <<peerUp, kdf, gen, listeners>>
    BY DEF JoinBroadcaster, table, Ready
<1>6. role[s] = "none" /\ ~joinHandled[s]
    BY DEF JoinBroadcaster, Latch, Unjoined
<1>7. ~kdf[s] /\ conn[s] # "closing" /\ \A g \in Gens : broadcaster[g] # s /\ s \notin listeners[g]
    BY <1>6 DEF Registry, Handshake, Registered, OneRegistration
<1>8. Handshake'
    <2> SUFFICES ASSUME NEW t \in Sockets
                 PROVE  /\ role'[t] # "none" \/ kdf[t] => joinHandled'[t]
                        /\ kdf[t] => role'[t] = "none"
                        /\ conn'[t] = "closing" => joinHandled'[t] /\ role'[t] # "broadcaster"
                        /\ at'[t] <= gen
        BY <1>5 DEF Handshake
    <2>1. CASE t = s
        BY <1>1, <1>2, <1>3, <1>7, <2>1
    <2>2. CASE t # s
        BY <1>2, <1>3, <2>2 DEF Registry, Handshake
    <2>3. QED
        BY <2>1, <2>2
<1>9. Registered'
    <2> SUFFICES ASSUME NEW t \in Sockets, NEW g \in Gens, broadcaster'[g] = t
                 PROVE  role'[t] = "broadcaster" /\ at'[t] = g
        BY DEF Registered
    <2>1. CASE g = gen
        BY <1>2, <1>4, <2>1
    <2>2. CASE g # gen
        BY <1>2, <1>4, <1>7, <2>2 DEF Registry, Registered
    <2>3. QED
        BY <2>1, <2>2
<1>10. OneRegistration'
    BY <1>2, <1>4, <1>5, <1>7 DEF Registry, OneRegistration
<1>11. SoleBroadcaster'
    <2> SUFFICES ASSUME NEW t \in Sockets, role'[t] = "broadcaster", at'[t] = gen, Readable(t)'
                 PROVE  t = s
        BY <1>1, <1>4, <1>5 DEF SoleBroadcaster
    <2>1. SUFFICES ASSUME t # s PROVE FALSE
        OBVIOUS
    <2>2. Readable(t)
        BY <1>3, <1>5 DEF Readable
    <2>3. broadcaster[gen] = t /\ conn[t] # "closed"
        BY <1>2, <2>1, <2>2 DEF Registry, SoleBroadcaster, Readable
    <2>4. conn'[t] = "ending"
        BY StreamingAssumption, <2>3 DEF JoinBroadcaster, Terminated, TypeOK
    <2>5. QED
        BY <2>4 DEF Readable
<1>12. QED
    BY <1>8, <1>9, <1>10, <1>11 DEF Registry

\* Culling: listeners are closed and dropped from the room.
LEMMA FrameKeepsRegistry ==
    ASSUME TypeOK, Registry, NEW s \in Sockets, Frame(s)
    PROVE  Registry'
<1>1. PICK slow \in SUBSET {l \in listeners[gen] : conn[l] = "open"} :
        /\ listeners' = [listeners EXCEPT ![gen] = @ \ slow]
        /\ conn' = Closing(slow)
    BY DEF Frame
<1>2. UNCHANGED <<peerUp, joinHandled, role, at, kdf, gen, broadcaster>>
    BY DEF Frame, session, table
<1>3. \A g \in Gens : listeners'[g] \subseteq listeners[g]
    BY <1>1 DEF TypeOK
<1>4. \A t \in Sockets : conn'[t] = conn[t] \/ (conn[t] = "open" /\ conn'[t] = "closing" /\ role[t] = "listener")
    BY <1>1 DEF Closing, Registry, OneRegistration, TypeOK
<1>5. Handshake'
    BY <1>2, <1>4 DEF Registry, Handshake
<1>6. Registered'
    BY <1>2 DEF Registry, Registered
<1>7. OneRegistration'
    BY <1>2, <1>3 DEF Registry, OneRegistration
<1>8. SoleBroadcaster'
    BY <1>2, <1>4 DEF Registry, SoleBroadcaster, Readable
<1>9. QED
    BY <1>5, <1>6, <1>7, <1>8 DEF Registry

LEMMA CloseKeepsRegistry ==
    ASSUME TypeOK, Registry, NEW s \in Sockets, OnClose(s)
    PROVE  Registry'
<1>1. conn' = [conn EXCEPT ![s] = "closed"] /\ UNCHANGED <<peerUp, joinHandled, role, at, kdf, gen>>
    BY DEF OnClose, session, table
<1>2. \A t \in Sockets : conn'[t] = IF t = s THEN "closed" ELSE conn[t]
    BY <1>1 DEF TypeOK
<1>3. \A g \in Gens : listeners'[g] \subseteq listeners[g]
    BY DEF OnClose, room, TypeOK
<1>4. \A g \in Gens : broadcaster'[g] = broadcaster[g] \/ (broadcaster[g] = s /\ broadcaster'[g] = Nobody)
    BY DEF OnClose, room, TypeOK, IsCurrentBroadcaster
<1>5. Handshake'
    BY <1>1, <1>2 DEF Registry, Handshake
<1>6. Registered'
    BY StreamingAssumption, <1>1, <1>4 DEF Registry, Registered
<1>7. OneRegistration'
    BY StreamingAssumption, <1>1, <1>3, <1>4 DEF Registry, OneRegistration
<1>8. SoleBroadcaster'
    <2> SUFFICES ASSUME NEW t \in Sockets, role[t] = "broadcaster", at[t] = gen, Readable(t)'
                 PROVE  broadcaster'[gen] = t
        BY <1>1 DEF SoleBroadcaster
    <2>1. t # s /\ Readable(t)
        BY <1>1, <1>2 DEF Readable
    <2>2. broadcaster[gen] = t
        BY <2>1 DEF Registry, SoleBroadcaster
    <2>3. QED
        BY <1>4, <2>1, <2>2 DEF TypeOK
<1>9. QED
    BY <1>5, <1>6, <1>7, <1>8 DEF Registry

\* After a deletion nobody has joined the fresh state object yet.
LEMMA DeleteKeepsRegistry == TypeOK /\ Registry /\ DeleteRoom => Registry'
<1> SUFFICES ASSUME TypeOK, Registry, DeleteRoom PROVE Registry'
    OBVIOUS
<1>1. UNCHANGED <<conn, peerUp, joinHandled, role, at, kdf, broadcaster, listeners>> /\ gen' = gen + 1
    BY DEF DeleteRoom, link, session, room
<1>2. \A t \in Sockets : at[t] <= gen /\ at[t] \in Int /\ gen \in Int
    BY StreamingAssumption DEF TypeOK, Gens, Registry, Handshake
<1>3. \A t \in Sockets : at[t] <= gen' /\ at[t] # gen'
    BY <1>1, <1>2
<1>4. Handshake'
    BY <1>1, <1>3 DEF Registry, Handshake
<1>5. Registered' /\ OneRegistration'
    BY <1>1 DEF Registry, Registered, OneRegistration
<1>6. SoleBroadcaster'
    BY <1>1, <1>3 DEF SoleBroadcaster
<1>7. QED
    BY <1>4, <1>5, <1>6 DEF Registry

\* The join frames that only suspend at the await.
LEMMA SuspendKeepsRegistry ==
    ASSUME TypeOK, Registry, NEW s \in Sockets, JoinPassword(s)
    PROVE  Registry'
<1>1. gen <= gen
    BY StreamingAssumption DEF TypeOK, Gens
<1>2. UNCHANGED <<conn, peerUp, role, gen, broadcaster, listeners>>
    BY DEF JoinPassword, link, table, room
<1>3. \A t \in Sockets :
        /\ t # s => joinHandled'[t] = joinHandled[t] /\ at'[t] = at[t] /\ kdf'[t] = kdf[t]
        /\ t = s => joinHandled'[t] /\ at'[t] = gen
    BY DEF JoinPassword, Latch, TypeOK
<1>4. role[s] = "none"
    BY DEF JoinPassword, Latch, Unjoined
<1>5. Handshake'
    BY <1>1, <1>2, <1>3, <1>4 DEF Registry, Handshake
<1>6. Registered'
    BY <1>2, <1>3, <1>4 DEF Registry, Registered
<1>7. OneRegistration'
    BY <1>2, <1>3, <1>4 DEF Registry, OneRegistration
<1>8. SoleBroadcaster'
    BY <1>2, <1>3, <1>4 DEF Registry, SoleBroadcaster, Readable
<1>9. QED
    BY <1>5, <1>6, <1>7, <1>8 DEF Registry

LEMMA RegistryStep == TypeOK /\ Registry /\ [Next]_vars => Registry'
<1> SUFFICES ASSUME TypeOK, Registry, [Next]_vars PROVE Registry'
    OBVIOUS
<1>1. ASSUME NEW s \in Sockets, Connect(s) PROVE Registry'
    BY <1>1, ConnectKeepsRegistry
<1>2. ASSUME NEW s \in Sockets, PeerClose(s) \/ PeerVanish(s) PROVE Registry'
    <2>1. CASE PeerClose(s)
        <3>1. OnlyCuts
            BY <2>1 DEF PeerClose, OnlyCuts, table, room, TypeOK
        <3>2. QED
            BY <3>1, CutsKeepRegistry
    <2>2. CASE PeerVanish(s)
        <3>1. OnlyCuts
            BY <2>2 DEF PeerVanish, OnlyCuts, table, room, TypeOK
        <3>2. QED
            BY <3>1, CutsKeepRegistry
    <2>3. QED
        BY <1>2, <2>1, <2>2
<1>3. ASSUME NEW s \in Sockets, CloseTimeout(s) PROVE Registry'
    <2>1. OnlyCuts
        BY <1>3 DEF CloseTimeout, Terminated, OnlyCuts, table, room, TypeOK
    <2>2. QED
        BY <2>1, CutsKeepRegistry
<1>4. ASSUME NEW s \in Sockets, JoinNoRoom(s) \/ JoinNotAllowed(s) \/ JoinOccupied(s) \/ JoinThrottled(s)
      PROVE  Registry'
    <2>1. Latch(s) /\ Refuse(s) /\ UNCHANGED <<role, at, kdf>>
        BY <1>4 DEF JoinNoRoom, JoinNotAllowed, JoinOccupied, JoinThrottled
    <2>2. /\ joinHandled'[s] /\ role[s] = "none"
          /\ \A t \in Sockets : joinHandled[t] => joinHandled'[t]
        BY <2>1 DEF Latch, TypeOK, Unjoined
    <2>3. QED
        BY <2>1, <2>2, RefuseKeepsRegistry
<1>5. ASSUME NEW s \in Sockets, JoinBroadcaster(s) PROVE Registry'
    BY <1>5, TakeKeepsRegistry
<1>6. ASSUME NEW s \in Sockets, JoinListener(s) PROVE Registry'
    <2>1. gen \in Gens /\ gen <= gen
        BY StreamingAssumption DEF TypeOK, Gens
    <2>2. /\ joinHandled'[s] /\ role[s] = "none" /\ at'[s] = gen
          /\ \A t \in Sockets : joinHandled[t] => joinHandled'[t]
          /\ \A t \in Sockets : t # s => at'[t] = at[t]
        BY <1>6 DEF JoinListener, Latch, TypeOK, Unjoined
    <2>3. \A t \in Sockets : kdf'[t] => kdf[t] /\ t # s
        BY <1>6 DEF JoinListener, Latch, Registry, Handshake, Unjoined
    <2>4. Admit(s, gen)
        BY <1>6 DEF JoinListener
    <2>5. QED
        BY <2>1, <2>2, <2>3, <2>4, AdmitKeepsRegistry
<1>7. ASSUME NEW s \in Sockets, JoinPassword(s) PROVE Registry'
    BY <1>7, SuspendKeepsRegistry
<1>8. ASSUME NEW s \in Sockets, KdfDone(s) PROVE Registry'
    <2>1. kdf[s] /\ joinHandled[s] /\ role[s] = "none" /\ UNCHANGED <<joinHandled, at>>
        BY <1>8 DEF KdfDone, Registry, Handshake
    <2>2. \A t \in Sockets : kdf'[t] => kdf[t] /\ t # s
        BY <1>8 DEF KdfDone, TypeOK
    <2>3. at[s] \in Gens /\ at[s] <= gen
        BY DEF TypeOK, Registry, Handshake
    <2>4. CASE Refuse(s) /\ UNCHANGED role
        BY <2>1, <2>2, <2>4, RefuseKeepsRegistry
    <2>5. CASE Admit(s, at[s])
        BY <2>1, <2>2, <2>3, <2>5, AdmitKeepsRegistry
    <2>6. QED
        BY <1>8, <2>4, <2>5 DEF KdfDone
<1>9. ASSUME NEW s \in Sockets, GoLive(s) \/ Stop(s) \/ Pong(s) PROVE Registry'
    <2>1. UNCHANGED <<link, session, gen, broadcaster, listeners>>
        BY <1>9 DEF GoLive, Stop, Pong, table, room
    <2>2. OnlyCuts
        BY <2>1 DEF OnlyCuts, link
    <2>3. QED
        BY <2>2, CutsKeepRegistry
<1>10. ASSUME NEW s \in Sockets, Frame(s) PROVE Registry'
    BY <1>10, FrameKeepsRegistry
<1>11. ASSUME NEW s \in Sockets, OnClose(s) PROVE Registry'
    BY <1>11, CloseKeepsRegistry
<1>12. ASSUME NEW s \in Sockets, Heartbeat(s) PROVE Registry'
    <2>1. OnlyCuts
        BY <1>12 DEF Heartbeat, Terminated, OnlyCuts, table, room, TypeOK
    <2>2. QED
        BY <2>1, CutsKeepRegistry
<1>13. ASSUME NEW r \in Recordings, StreamError(r) \/ StreamFlushed(r) PROVE Registry'
    <2>1. UNCHANGED <<link, session, gen, broadcaster, listeners>>
        BY <1>13 DEF StreamError, StreamFlushed, table, room
    <2>2. OnlyCuts
        BY <2>1 DEF OnlyCuts, link
    <2>3. QED
        BY <2>2, CutsKeepRegistry
<1>14. CASE DeleteRoom
    BY <1>14, DeleteKeepsRegistry
<1>15. CASE CreateRoom \/ DeleteOrganization \/ UNCHANGED vars
    <2>1. UNCHANGED <<link, session, gen, broadcaster, listeners>>
        BY <1>15 DEF CreateRoom, DeleteOrganization, vars, table, room
    <2>2. OnlyCuts
        BY <2>1 DEF OnlyCuts, link
    <2>3. QED
        BY <2>2, CutsKeepRegistry
<1>16. QED
    BY <1>1, <1>2, <1>3, <1>4, <1>5, <1>6, <1>7, <1>8, <1>9, <1>10, <1>11, <1>12, <1>13, <1>14, <1>15
       DEF Next, Join

LEMMA RegistryInit == Init => Registry
    BY StreamingAssumption
       DEF Init, Gens, Registry, Handshake, Registered, OneRegistration, SoleBroadcaster, Readable

LEMMA RegistryCorrect == Spec => [](TypeOK /\ Registry)
<1>1. Init => TypeOK /\ Registry
    BY TypeInit, RegistryInit
<1>2. TypeOK /\ Registry /\ [Next]_vars => (TypeOK /\ Registry)'
    BY TypeStep, RegistryStep
<1>3. QED
    BY <1>1, <1>2, PTL DEF Spec

\* No interleaving of join frames, the password await, take-overs, closes and deletions
\* registers a socket twice.
THEOREM RegisteredOnce == Spec => []OneRegistration
<1>1. TypeOK /\ Registry => OneRegistration
    BY DEF Registry
<1>2. QED
    BY <1>1, RegistryCorrect, PTL

\* No take-over leaves a second socket able to send media into the room.
THEOREM SoleSource == Spec => []SoleBroadcaster
<1>1. TypeOK /\ Registry => SoleBroadcaster
    BY DEF Registry
<1>2. QED
    BY <1>1, RegistryCorrect, PTL

-----------------------------------------------------------------------------
(* The listener cap *)

\* What a handler may do to a room's listeners without looking at the cap.
LEMMA ShrinkKeepsCapacity ==
    ASSUME TypeOK, CapacityRespected, \A g \in Gens : listeners'[g] \subseteq listeners[g]
    PROVE  CapacityRespected'
<1> SUFFICES ASSUME NEW g \in Gens PROVE Cardinality(listeners'[g]) <= MaxListeners
    BY DEF CapacityRespected
<1>1. IsFiniteSet(listeners[g])
    BY StreamingAssumption, FS_Subset DEF TypeOK
<1>2. /\ Cardinality(listeners'[g]) <= Cardinality(listeners[g])
      /\ IsFiniteSet(listeners'[g])
    BY <1>1, FS_Subset
<1>3. Cardinality(listeners[g]) \in Nat /\ Cardinality(listeners'[g]) \in Nat
    BY <1>1, <1>2, FS_CardinalityType
<1>4. Cardinality(listeners[g]) <= MaxListeners
    BY DEF CapacityRespected
<1>5. QED
    BY <1>2, <1>3, <1>4, StreamingAssumption

\* The check of the cap and the registration run in one turn, so no other admission comes
\* between them, however long ago the state object was looked up.
LEMMA AdmitKeepsCapacity ==
    ASSUME TypeOK, CapacityRespected, NEW s \in Sockets, NEW g \in Gens, Admit(s, g)
    PROVE  CapacityRespected'
<1>1. CASE UNCHANGED listeners
    BY <1>1 DEF CapacityRespected
<1>2. CASE ~Full(g) /\ listeners' = [listeners EXCEPT ![g] = @ \union {s}]
    <2> SUFFICES ASSUME NEW h \in Gens PROVE Cardinality(listeners'[h]) <= MaxListeners
        BY DEF CapacityRespected
    <2>1. CASE h # g
        <3>1. listeners'[h] = listeners[h]
            BY <1>2, <2>1 DEF TypeOK
        <3>2. QED
            BY <3>1 DEF CapacityRespected
    <2>2. CASE h = g
        <3>1. listeners'[h] = listeners[g] \union {s}
            BY <1>2, <2>2 DEF TypeOK
        <3>2. IsFiniteSet(listeners[g])
            BY StreamingAssumption, FS_Subset DEF TypeOK
        <3>3. Cardinality(listeners[g]) \in Nat
            BY <3>2, FS_CardinalityType
        <3>4. \/ Cardinality(listeners'[h]) = Cardinality(listeners[g])
              \/ Cardinality(listeners'[h]) = Cardinality(listeners[g]) + 1
            BY <3>1, <3>2, FS_AddElement
        <3>5. QED
            BY <1>2, <3>3, <3>4, StreamingAssumption DEF Full
    <2>3. QED
        BY <2>1, <2>2
<1>3. QED
    BY <1>1, <1>2 DEF Admit, Refuse, room, Register

LEMMA CapacityStep == TypeOK /\ CapacityRespected /\ [Next]_vars => CapacityRespected'
<1> SUFFICES ASSUME TypeOK, CapacityRespected, [Next]_vars PROVE CapacityRespected'
    OBVIOUS
<1>1. ASSUME NEW s \in Sockets, JoinListener(s) PROVE CapacityRespected'
    BY <1>1, StreamingAssumption, AdmitKeepsCapacity DEF JoinListener, TypeOK
<1>2. ASSUME NEW s \in Sockets, KdfDone(s) PROVE CapacityRespected'
    <2>1. at[s] \in Gens
        BY DEF TypeOK
    <2>2. CASE Admit(s, at[s])
        BY <2>1, <2>2, AdmitKeepsCapacity
    <2>3. CASE Refuse(s)
        BY <2>3 DEF Refuse, room, CapacityRespected
    <2>4. QED
        BY <1>2, <2>2, <2>3 DEF KdfDone
<1>3. ASSUME NEW s \in Sockets, Frame(s) \/ OnClose(s) PROVE CapacityRespected'
    <2>1. CASE Frame(s)
        BY <2>1, ShrinkKeepsCapacity DEF Frame, TypeOK
    <2>2. CASE OnClose(s)
        <3>1. \A g \in Gens : listeners'[g] \subseteq listeners[g]
            BY <2>2 DEF OnClose, room, TypeOK
        <3>2. QED
            BY <3>1, ShrinkKeepsCapacity
    <2>3. QED
        BY <1>3, <2>1, <2>2
<1>4. CASE UNCHANGED listeners
    BY <1>4 DEF CapacityRespected
<1>5. ASSUME NEW s \in Sockets,
             \/ Connect(s) \/ PeerClose(s) \/ PeerVanish(s) \/ CloseTimeout(s)
             \/ JoinNoRoom(s) \/ JoinNotAllowed(s) \/ JoinOccupied(s) \/ JoinBroadcaster(s)
             \/ JoinThrottled(s) \/ JoinPassword(s)
             \/ GoLive(s) \/ Stop(s) \/ Heartbeat(s) \/ Pong(s)
      PROVE  UNCHANGED listeners
    BY <1>5 DEF Connect, PeerClose, PeerVanish, CloseTimeout, JoinNoRoom, JoinNotAllowed, JoinOccupied,
                JoinBroadcaster, JoinThrottled, JoinPassword, Refuse, GoLive, Stop, Heartbeat, Pong, room,
                Ready, MayGoLive, StopBroadcast
<1>6. ASSUME NEW r \in Recordings, StreamError(r) \/ StreamFlushed(r) PROVE UNCHANGED listeners
    BY <1>6 DEF StreamError, StreamFlushed, room
<1>7. ASSUME DeleteRoom \/ CreateRoom \/ DeleteOrganization \/ UNCHANGED vars PROVE UNCHANGED listeners
    BY <1>7 DEF DeleteRoom, CreateRoom, DeleteOrganization, vars, room
<1>8. QED
    BY <1>1, <1>2, <1>3, <1>4, <1>5, <1>6, <1>7 DEF Next, Join

\* MAX_LISTENERS_PER_ROOM is never exceeded, whatever joins while a password is being checked.
THEOREM CapacityCorrect == Spec => []CapacityRespected
<1>1. Init => TypeOK /\ CapacityRespected
    <2>1. Init => CapacityRespected
        BY StreamingAssumption, FS_EmptySet DEF Init, CapacityRespected
    <2>2. QED
        BY <2>1, TypeInit
<1>2. TypeOK /\ CapacityRespected /\ [Next]_vars => (TypeOK /\ CapacityRespected)'
    BY TypeStep, CapacityStep
<1>3. QED
    BY <1>1, <1>2, PTL DEF Spec

-----------------------------------------------------------------------------
(* What the room shows of its broadcaster, while it has not been deleted *)

Shown == LiveHasBroadcaster /\ InitSegmentFromBroadcaster

\* In a room that was never deleted the broadcasting socket is the registered one.
LEMMA SourceIsRegistered ==
    ASSUME TypeOK, Registry, NeverDeleted, NEW s \in Sockets, role[s] = "broadcaster", Readable(s)
    PROVE  broadcaster[gen] = s /\ s # Nobody
<1>1. at[s] \in 0 .. MaxGen /\ at[s] <= gen /\ gen = 0
    BY DEF TypeOK, Gens, Registry, Handshake, NeverDeleted
<1>2. at[s] = gen
    BY <1>1, StreamingAssumption
<1>3. QED
    BY <1>2, StreamingAssumption DEF Registry, SoleBroadcaster

LEMMA ShownStep == TypeOK /\ Registry /\ Shown /\ [Next]_vars => Shown'
<1> SUFFICES ASSUME TypeOK, Registry, Shown, [Next]_vars, gen' = 0
             PROVE  /\ live'[gen'] => broadcaster'[gen'] # Nobody
                    /\ broadcaster'[gen'] # Nobody => initSegment'[gen'] \in {Nobody, broadcaster'[gen']}
    BY DEF Shown, LiveHasBroadcaster, InitSegmentFromBroadcaster, NeverDeleted
<1> DEFINE Goal == /\ live'[gen'] => broadcaster'[gen'] # Nobody
                   /\ broadcaster'[gen'] # Nobody => initSegment'[gen'] \in {Nobody, broadcaster'[gen']}
<1>1. gen \in Gens /\ gen \in Nat
    BY StreamingAssumption DEF TypeOK, Gens
<1>2. ASSUME UNCHANGED <<gen, broadcaster, initSegment, live>> PROVE Goal
    BY <1>2 DEF Shown, LiveHasBroadcaster, InitSegmentFromBroadcaster, NeverDeleted
<1>3. ASSUME NEW s \in Sockets, JoinBroadcaster(s) PROVE Goal
    <2>1. broadcaster'[gen] = s /\ initSegment'[gen] = Nobody /\ gen' = gen
        BY <1>1, <1>3 DEF JoinBroadcaster, table, TypeOK, Ready
    <2>2. QED
        BY <2>1, StreamingAssumption
<1>4. ASSUME NEW s \in Sockets, GoLive(s) PROVE Goal
    <2>1. UNCHANGED <<gen, broadcaster, initSegment>> /\ role[s] = "broadcaster" /\ Readable(s)
        BY <1>4 DEF GoLive, table, MayGoLive
    <2>2. broadcaster[gen] = s /\ s # Nobody
        BY <2>1, SourceIsRegistered DEF NeverDeleted
    <2>3. QED
        BY <2>1, <2>2 DEF Shown, InitSegmentFromBroadcaster, NeverDeleted
<1>5. ASSUME NEW s \in Sockets, Frame(s) PROVE Goal
    <2>1. UNCHANGED <<gen, broadcaster, live>> /\ role[s] = "broadcaster" /\ Readable(s)
        BY <1>5 DEF Frame, table
    <2>2. broadcaster[gen] = s /\ s # Nobody
        BY <2>1, SourceIsRegistered DEF NeverDeleted
    <2>3. initSegment'[gen] \in {s, initSegment[gen]}
        BY <1>1, <1>5 DEF Frame, TypeOK
    <2>4. initSegment[gen] \in {Nobody, s}
        BY <2>1, <2>2 DEF Shown, InitSegmentFromBroadcaster, NeverDeleted
    <2>5. QED
        BY <2>1, <2>2, <2>3, <2>4
<1>6. ASSUME NEW s \in Sockets, Stop(s) PROVE Goal
    <2>1. gen' = gen /\ ~live'[gen] /\ initSegment'[gen] = Nobody
        BY <1>1, <1>6 DEF Stop, table, TypeOK, StopBroadcast
    <2>2. QED
        BY <2>1
<1>7. ASSUME NEW s \in Sockets, OnClose(s) PROVE Goal
    <2>1. gen' = gen
        BY <1>7 DEF OnClose, table, IsCurrentBroadcaster, StopBroadcast
    <2>2. CASE broadcaster' = [broadcaster EXCEPT ![gen] = Nobody] /\ ~live'[gen]
        BY <1>1, <2>1, <2>2 DEF TypeOK
    <2>3. CASE UNCHANGED <<broadcaster, initSegment, live>>
        BY <1>2, <2>1, <2>3
    <2>4. QED
        BY <1>1, <1>7, <2>2, <2>3 DEF OnClose, room, TypeOK, IsCurrentBroadcaster, StopBroadcast
<1>8. ASSUME NEW s \in Sockets,
             \/ Connect(s) \/ PeerClose(s) \/ PeerVanish(s) \/ CloseTimeout(s)
             \/ JoinNoRoom(s) \/ JoinNotAllowed(s) \/ JoinOccupied(s) \/ JoinListener(s)
             \/ JoinThrottled(s) \/ JoinPassword(s) \/ KdfDone(s) \/ Heartbeat(s) \/ Pong(s)
      PROVE  UNCHANGED <<gen, broadcaster, initSegment, live>>
    BY <1>8 DEF Connect, PeerClose, PeerVanish, CloseTimeout, JoinNoRoom, JoinNotAllowed, JoinOccupied,
                JoinListener, JoinThrottled, JoinPassword, KdfDone, Refuse, Admit, Heartbeat, Pong, table,
                room, Register
<1>9. ASSUME NEW r \in Recordings, StreamError(r) \/ StreamFlushed(r)
      PROVE  UNCHANGED <<gen, broadcaster, initSegment, live>>
    BY <1>9 DEF StreamError, StreamFlushed, table, room
<1>10. ~DeleteRoom
    BY <1>1 DEF DeleteRoom
<1>11. ASSUME CreateRoom \/ DeleteOrganization \/ UNCHANGED vars PROVE UNCHANGED <<gen, broadcaster, initSegment, live>>
    BY <1>11 DEF CreateRoom, DeleteOrganization, vars, table, room
<1>12. QED
    BY <1>2, <1>3, <1>4, <1>5, <1>6, <1>7, <1>8, <1>9, <1>10, <1>11 DEF Next, Join

LEMMA ShownInit == Init => Shown
    BY StreamingAssumption DEF Init, Gens, Shown, LiveHasBroadcaster, InitSegmentFromBroadcaster, NeverDeleted

LEMMA ShownCorrect == Spec => [](TypeOK /\ Registry /\ Shown)
<1>1. Init => TypeOK /\ Registry /\ Shown
    BY TypeInit, RegistryInit, ShownInit
<1>2. TypeOK /\ Registry /\ Shown /\ [Next]_vars => (TypeOK /\ Registry /\ Shown)'
    BY TypeStep, RegistryStep, ShownStep
<1>3. QED
    BY <1>1, <1>2, PTL DEF Spec

\* No order of stops, closes and take-overs leaves a room live without a broadcaster.
THEOREM LiveCorrect == Spec => []LiveHasBroadcaster
<1>1. TypeOK /\ Registry /\ Shown => LiveHasBroadcaster
    BY DEF Shown
<1>2. QED
    BY <1>1, ShownCorrect, PTL

\* A joining listener is never handed the header of a former broadcaster's stream.
THEOREM InitSegmentCorrect == Spec => []InitSegmentFromBroadcaster
<1>1. TypeOK /\ Registry /\ Shown => InitSegmentFromBroadcaster
    BY DEF Shown
<1>2. QED
    BY <1>1, ShownCorrect, PTL

-----------------------------------------------------------------------------
(* Recordings *)

Recorder == RecordingOwned /\ OpenStreamHeld

LEMMA UntouchedKeepsRecorder ==
    ASSUME TypeOK, Recorder, UNCHANGED <<disk, gen, broadcaster, live>>,
           \A s \in Sockets : role'[s] = role[s] \/ rec[s] = NoRec
    PROVE  Recorder'
<1>1. RecordingOwned'
    BY DEF Recorder, RecordingOwned, NeverDeleted, disk
<1>2. OpenStreamHeld'
    BY DEF Recorder, OpenStreamHeld, NeverDeleted, disk
<1>3. QED
    BY <1>1, <1>2 DEF Recorder

\* A socket without a role records nothing.
LEMMA NoRoleNoRecording ==
    ASSUME Recorder, NEW s \in Sockets, role[s] # "broadcaster"
    PROVE  rec[s] = NoRec
BY DEF Recorder, RecordingOwned

LEMMA TakeKeepsRecorder ==
    ASSUME TypeOK, Recorder, NEW s \in Sockets, JoinBroadcaster(s)
    PROVE  Recorder'
<1>1. rec[s] = NoRec
    BY NoRoleNoRecording DEF JoinBroadcaster, Latch, Ready, Unjoined
<1>2. UNCHANGED <<rec, stream, writer, gen, live>>
    BY DEF JoinBroadcaster, disk, table, Ready
<1>3. \A t \in Sockets : t # s => role'[t] = role[t]
    BY DEF JoinBroadcaster, TypeOK, Ready
<1>4. broadcaster'[gen] = s
    BY DEF JoinBroadcaster, TypeOK, Ready
<1>5. RecordingOwned'
    BY <1>1, <1>2, <1>3, <1>4 DEF Recorder, RecordingOwned
<1>6. OpenStreamHeld'
    BY <1>2 DEF Recorder, OpenStreamHeld, NeverDeleted
<1>7. QED
    BY <1>5, <1>6 DEF Recorder

\* The room not being live, its broadcaster holds no recording that a new one could overwrite.
LEMMA GoLiveKeepsRecorder ==
    ASSUME TypeOK, Registry, Recorder, NEW s \in Sockets, GoLive(s)
    PROVE  Recorder'
<1>1. PICK r \in Recordings :
        /\ stream[r] = "free"
        /\ stream' = [stream EXCEPT ![r] = "open"]
        /\ writer' = [writer EXCEPT ![r] = s]
        /\ rec' = [rec EXCEPT ![s] = r]
    BY DEF GoLive, MayGoLive
<1>2. UNCHANGED <<role, gen, broadcaster>> /\ ~live[gen] /\ live'[gen] /\ role[s] = "broadcaster" /\ Readable(s)
    BY DEF GoLive, session, table, TypeOK, MayGoLive
<1>3. \A q \in Recordings :
        /\ q = r => stream'[q] = "open" /\ writer'[q] = s
        /\ q # r => stream'[q] = stream[q] /\ writer'[q] = writer[q]
    BY <1>1 DEF TypeOK
<1>4. \A t \in Sockets : rec'[t] = IF t = s THEN r ELSE rec[t]
    BY <1>1 DEF TypeOK
<1>5. RecordingOwned'
    <2>1. \A q \in Recordings : stream'[q] # "free" => writer'[q] \in Sockets
        BY <1>3 DEF Recorder, RecordingOwned
    <2>2. ASSUME NEW t \in Sockets, rec'[t] # NoRec
          PROVE  /\ role'[t] = "broadcaster"
                 /\ stream'[rec'[t]] = "open" /\ writer'[rec'[t]] = t
                 /\ NeverDeleted' /\ broadcaster'[gen'] = t => live'[gen']
        <3>1. CASE t = s
            BY <1>2, <1>3, <1>4, <3>1
        <3>2. CASE t # s
            <4>1. rec'[t] = rec[t] /\ rec[t] \in Recordings /\ role[t] = "broadcaster"
                  /\ stream[rec[t]] = "open" /\ writer[rec[t]] = t
                BY <1>4, <2>2, <3>2 DEF Recorder, RecordingOwned, TypeOK
            <4>2. rec[t] # r
                BY <1>1, <4>1
            <4>3. QED
                BY <1>2, <1>3, <4>1, <4>2
        <3>3. QED
            BY <3>1, <3>2
    <2>3. QED
        BY <2>1, <2>2 DEF RecordingOwned
<1>6. OpenStreamHeld'
    <2> SUFFICES ASSUME NeverDeleted, NEW q \in Recordings, stream'[q] = "open"
                 PROVE  rec'[writer'[q]] = q
        BY <1>2 DEF OpenStreamHeld, NeverDeleted
    <2>1. CASE q = r
        BY <1>3, <1>4, <2>1
    <2>2. CASE q # r
        <3>1. stream[q] = "open" /\ writer'[q] = writer[q] /\ rec[writer[q]] = q /\ writer[q] \in Sockets
            BY <1>3, <2>2 DEF Recorder, OpenStreamHeld, RecordingOwned
        <3>2. writer[q] # s
            <4>1. SUFFICES ASSUME writer[q] = s PROVE FALSE
                OBVIOUS
            <4>2. rec[s] = q /\ q # NoRec
                BY <3>1, <4>1, StreamingAssumption
            <4>3. broadcaster[gen] = s
                BY <1>2, SourceIsRegistered
            <4>4. QED
                BY <1>2, <4>2, <4>3 DEF Recorder, RecordingOwned
        <3>3. QED
            BY <1>4, <3>1, <3>2
    <2>3. QED
        BY <2>1, <2>2
<1>7. QED
    BY <1>5, <1>6 DEF Recorder

\* stopBroadcast by s, when whoever is registered afterwards, if anybody, is s.
LEMMA EndKeepsRecorder ==
    ASSUME TypeOK, Recorder, NEW s \in Sockets, EndRecording(s), UNCHANGED <<role, gen>>,
           NeverDeleted => broadcaster'[gen] \in {s, Nobody}
    PROVE  Recorder'
<1>1. /\ \A t \in Sockets : rec'[t] = IF t = s THEN NoRec ELSE rec[t]
      /\ \A q \in Recordings : stream'[q] = stream[q] \/ (q = rec[s] /\ stream'[q] \in {"saved", "discarded"})
      /\ rec[s] # NoRec => stream'[rec[s]] \in {"saved", "discarded"}
      /\ writer' = writer
    <2>1. CASE rec[s] = NoRec /\ UNCHANGED disk
        BY <2>1 DEF disk
    <2>2. CASE /\ rec[s] # NoRec
               /\ \E outcome \in {"saved", "discarded"} : stream' = [stream EXCEPT ![rec[s]] = outcome]
               /\ rec' = [rec EXCEPT ![s] = NoRec]
               /\ UNCHANGED writer
        <3>1. PICK outcome \in {"saved", "discarded"} : stream' = [stream EXCEPT ![rec[s]] = outcome]
            BY <2>2
        <3>2. \A t \in Sockets : rec'[t] = IF t = s THEN NoRec ELSE rec[t]
            BY <2>2 DEF TypeOK
        <3>3. rec[s] \in Recordings
            BY <2>2 DEF TypeOK
        <3>4. \A q \in Recordings : stream'[q] = IF q = rec[s] THEN outcome ELSE stream[q]
            BY <3>1 DEF TypeOK
        <3>5. QED
            BY <2>2, <3>2, <3>3, <3>4
    <2>3. QED
        BY <2>1, <2>2 DEF EndRecording
<1>2. RecordingOwned'
    <2>1. \A q \in Recordings : stream'[q] # "free" => writer'[q] \in Sockets
        <3> SUFFICES ASSUME NEW q \in Recordings, stream'[q] # "free" PROVE writer[q] \in Sockets
            BY <1>1
        <3>1. CASE q = rec[s]
            BY <3>1, StreamingAssumption DEF Recorder, RecordingOwned
        <3>2. CASE q # rec[s]
            BY <1>1, <3>2 DEF Recorder, RecordingOwned
        <3>3. QED
            BY <3>1, <3>2
    <2>2. ASSUME NEW t \in Sockets, rec'[t] # NoRec
          PROVE  /\ role'[t] = "broadcaster"
                 /\ stream'[rec'[t]] = "open" /\ writer'[rec'[t]] = t
                 /\ NeverDeleted' /\ broadcaster'[gen'] = t => live'[gen']
        <3>1. t # s /\ rec'[t] = rec[t] /\ rec[t] \in Recordings
            BY <1>1, <2>2 DEF TypeOK
        <3>2. role[t] = "broadcaster" /\ stream[rec[t]] = "open" /\ writer[rec[t]] = t
            BY <2>2, <3>1 DEF Recorder, RecordingOwned
        <3>3. rec[t] # rec[s]
            BY <2>2, <3>1, <3>2 DEF Recorder, RecordingOwned
        <3>4. NeverDeleted => broadcaster'[gen] # t
            BY <3>1, StreamingAssumption
        <3>5. QED
            BY <1>1, <3>1, <3>2, <3>3, <3>4 DEF NeverDeleted
    <2>3. QED
        BY <2>1, <2>2 DEF RecordingOwned
<1>3. OpenStreamHeld'
    <2> SUFFICES ASSUME NeverDeleted, NEW q \in Recordings, stream'[q] = "open"
                 PROVE  rec'[writer[q]] = q
        BY <1>1 DEF OpenStreamHeld, NeverDeleted
    <2>1. stream[q] = "open" /\ q # rec[s]
        <3>1. q # rec[s]
            <4>1. SUFFICES ASSUME q = rec[s] PROVE FALSE
                OBVIOUS
            <4>2. stream'[q] \in {"saved", "discarded"}
                BY <1>1, <4>1, StreamingAssumption
            <4>3. QED
                BY <4>2
        <3>2. QED
            BY <1>1, <3>1
    <2>2. rec[writer[q]] = q /\ writer[q] \in Sockets
        BY <2>1 DEF Recorder, OpenStreamHeld, RecordingOwned
    <2>3. QED
        BY <1>1, <2>1, <2>2
<1>4. QED
    BY <1>2, <1>3 DEF Recorder

LEMMA CloseKeepsRecorder ==
    ASSUME TypeOK, Recorder, NEW s \in Sockets, OnClose(s)
    PROVE  Recorder'
<1>1. UNCHANGED <<role, gen>>
    BY DEF OnClose, session, table, IsCurrentBroadcaster, StopBroadcast
<1>2. gen \in Gens
    BY DEF TypeOK
<1>3. CASE broadcaster' = [broadcaster EXCEPT ![gen] = Nobody] /\ EndRecording(s)
    <2>1. broadcaster'[gen] = Nobody
        BY <1>2, <1>3 DEF TypeOK
    <2>2. QED
        BY <1>1, <1>3, <2>1, EndKeepsRecorder
<1>4. CASE broadcaster' = [broadcaster EXCEPT ![gen] = Nobody] /\ UNCHANGED <<live, disk>>
    <2>1. \A g \in Gens : broadcaster'[g] \in {broadcaster[g], Nobody}
        BY <1>4 DEF TypeOK
    <2>2. RecordingOwned'
        <3>1. UNCHANGED <<rec, stream, writer, live>>
            BY <1>4 DEF disk
        <3>2. \A t \in Sockets : broadcaster'[gen] = t => broadcaster[gen] = t
            BY <1>2, <2>1, StreamingAssumption
        <3>3. QED
            BY <1>1, <3>1, <3>2 DEF Recorder, RecordingOwned, NeverDeleted
    <2>3. OpenStreamHeld'
        BY <1>1, <1>4 DEF Recorder, OpenStreamHeld, NeverDeleted, disk
    <2>4. QED
        BY <2>2, <2>3 DEF Recorder
<1>5. CASE UNCHANGED <<broadcaster, live, disk>>
    BY <1>1, <1>5, UntouchedKeepsRecorder
<1>6. QED
    BY <1>3, <1>4, <1>5 DEF OnClose, room, IsCurrentBroadcaster, StopBroadcast

\* The error of a stream takes down the recording its closure holds at that time with it.
LEMMA ErrorKeepsRecorder ==
    ASSUME TypeOK, Recorder, NEW r \in Recordings, StreamError(r)
    PROVE  Recorder'
<1> DEFINE s == writer[r]
<1>1. s \in Sockets /\ UNCHANGED <<role, gen, broadcaster, live, writer>>
    BY DEF StreamError, session, table, room, Recorder, RecordingOwned
<1>2. \A q \in Recordings : stream'[q] = IF q = r \/ q = rec[s] THEN "free" ELSE stream[q]
    BY DEF StreamError
<1>3. \A t \in Sockets : rec'[t] = IF t = s THEN NoRec ELSE rec[t]
    BY <1>1 DEF StreamError, TypeOK
<1> HIDE DEF s
<1>4. RecordingOwned'
    <2>1. \A q \in Recordings : stream'[q] # "free" => writer[q] \in Sockets
        BY <1>2 DEF Recorder, RecordingOwned
    <2>2. ASSUME NEW t \in Sockets, rec'[t] # NoRec
          PROVE  /\ role[t] = "broadcaster"
                 /\ stream'[rec'[t]] = "open" /\ writer[rec'[t]] = t
                 /\ NeverDeleted /\ broadcaster[gen] = t => live[gen]
        <3>1. t # s /\ rec'[t] = rec[t] /\ rec[t] \in Recordings
            BY <1>3, <2>2 DEF TypeOK
        <3>2. /\ role[t] = "broadcaster" /\ stream[rec[t]] = "open" /\ writer[rec[t]] = t
              /\ NeverDeleted /\ broadcaster[gen] = t => live[gen]
            BY <2>2, <3>1 DEF Recorder, RecordingOwned
        <3>3. rec[t] # r
            BY <3>1, <3>2 DEF s
        <3>4. rec[t] # rec[s]
            BY <1>1, <2>2, <3>1, <3>2 DEF Recorder, RecordingOwned
        <3>5. QED
            BY <1>2, <3>1, <3>2, <3>3, <3>4
    <2>3. QED
        BY <1>1, <2>1, <2>2 DEF RecordingOwned, NeverDeleted
<1>5. OpenStreamHeld'
    <2> SUFFICES ASSUME NeverDeleted, NEW q \in Recordings, stream'[q] = "open"
                 PROVE  rec'[writer[q]] = q
        BY <1>1 DEF OpenStreamHeld, NeverDeleted
    <2>1. stream[q] = "open" /\ q # rec[s]
        BY <1>2
    <2>2. rec[writer[q]] = q /\ writer[q] \in Sockets
        BY <2>1 DEF Recorder, OpenStreamHeld, RecordingOwned
    <2>3. QED
        BY <1>3, <2>1, <2>2
<1>6. QED
    BY <1>4, <1>5 DEF Recorder

LEMMA FlushKeepsRecorder ==
    ASSUME TypeOK, Recorder, NEW r \in Recordings, StreamFlushed(r)
    PROVE  Recorder'
<1>1. UNCHANGED <<role, gen, broadcaster, live, rec, writer>> /\ stream[r] # "open"
    BY DEF StreamFlushed, session, table, room
<1>2. \A q \in Recordings : stream'[q] = IF q = r THEN "free" ELSE stream[q]
    BY DEF StreamFlushed, TypeOK
<1>3. RecordingOwned'
    <2>1. \A q \in Recordings : stream'[q] # "free" => writer[q] \in Sockets
        BY <1>2 DEF Recorder, RecordingOwned
    <2>2. \A t \in Sockets : rec[t] # NoRec => rec[t] \in Recordings /\ rec[t] # r
        BY <1>1 DEF Recorder, RecordingOwned, TypeOK
    <2>3. QED
        BY <1>1, <1>2, <2>1, <2>2 DEF Recorder, RecordingOwned, NeverDeleted
<1>4. OpenStreamHeld'
    BY <1>1, <1>2 DEF Recorder, OpenStreamHeld, NeverDeleted
<1>5. QED
    BY <1>3, <1>4 DEF Recorder

LEMMA RecorderStep == TypeOK /\ Registry /\ Recorder /\ [Next]_vars => Recorder'
<1> SUFFICES ASSUME TypeOK, Registry, Recorder, [Next]_vars PROVE Recorder'
    OBVIOUS
<1>1. ASSUME NEW s \in Sockets, Connect(s) PROVE Recorder'
    <2>1. rec[s] = NoRec /\ UNCHANGED <<disk, gen, broadcaster, live>>
        BY <1>1 DEF Connect, Referenced, table, room
    <2>2. \A t \in Sockets : role'[t] = role[t] \/ rec[t] = NoRec
        BY <1>1, <2>1 DEF Connect, TypeOK
    <2>3. QED
        BY <2>1, <2>2, UntouchedKeepsRecorder
<1>2. ASSUME NEW s \in Sockets, JoinBroadcaster(s) PROVE Recorder'
    BY <1>2, TakeKeepsRecorder
<1>3. ASSUME NEW s \in Sockets, JoinListener(s) \/ KdfDone(s) PROVE Recorder'
    <2>1. role[s] = "none" /\ UNCHANGED <<disk, gen, broadcaster, live>>
        BY <1>3 DEF JoinListener, KdfDone, Latch, Admit, Refuse, table, room, Registry, Handshake,
                    Register, Unjoined
    <2>2. rec[s] = NoRec
        BY <2>1, NoRoleNoRecording
    <2>3. \A t \in Sockets : t # s => role'[t] = role[t]
        BY <1>3 DEF JoinListener, KdfDone, Admit, TypeOK, Register
    <2>4. QED
        BY <2>1, <2>2, <2>3, UntouchedKeepsRecorder
<1>4. ASSUME NEW s \in Sockets, GoLive(s) PROVE Recorder'
    BY <1>4, GoLiveKeepsRecorder
<1>5. ASSUME NEW s \in Sockets, Stop(s) PROVE Recorder'
    <2>1. EndRecording(s) /\ UNCHANGED <<role, gen, broadcaster>> /\ role[s] = "broadcaster" /\ Readable(s)
        BY <1>5 DEF Stop, session, table, StopBroadcast
    <2>2. NeverDeleted => broadcaster'[gen] = s
        BY <2>1, SourceIsRegistered
    <2>3. QED
        BY <2>1, <2>2, EndKeepsRecorder
<1>6. ASSUME NEW s \in Sockets, OnClose(s) PROVE Recorder'
    BY <1>6, CloseKeepsRecorder
<1>7. ASSUME NEW r \in Recordings, StreamError(r) \/ StreamFlushed(r) PROVE Recorder'
    BY <1>7, ErrorKeepsRecorder, FlushKeepsRecorder
<1>8. CASE UNCHANGED <<role, disk, gen, broadcaster, live>>
    BY <1>8, UntouchedKeepsRecorder
<1>9. ASSUME NEW s \in Sockets,
             \/ PeerClose(s) \/ PeerVanish(s) \/ CloseTimeout(s)
             \/ JoinNoRoom(s) \/ JoinNotAllowed(s) \/ JoinOccupied(s) \/ JoinThrottled(s)
             \/ JoinPassword(s) \/ Frame(s) \/ Heartbeat(s) \/ Pong(s)
      PROVE  UNCHANGED <<role, disk, gen, broadcaster, live>>
    BY <1>9 DEF PeerClose, PeerVanish, CloseTimeout, JoinNoRoom, JoinNotAllowed, JoinOccupied, JoinThrottled,
                JoinPassword, Refuse, Frame, Heartbeat, Pong, session, table, room
<1>10. CASE DeleteRoom
    <2>1. ~NeverDeleted'
        BY <1>10, StreamingAssumption DEF DeleteRoom, NeverDeleted, TypeOK, Gens
    <2>2. UNCHANGED <<role, disk, broadcaster, live>>
        BY <1>10 DEF DeleteRoom, session, room
    <2>3. QED
        BY <2>1, <2>2 DEF Recorder, RecordingOwned, OpenStreamHeld, disk
<1>11. ASSUME CreateRoom \/ DeleteOrganization \/ UNCHANGED vars PROVE UNCHANGED <<role, disk, gen, broadcaster, live>>
    BY <1>11 DEF CreateRoom, DeleteOrganization, vars, session, table, room
<1>12. QED
    BY <1>1, <1>2, <1>3, <1>4, <1>5, <1>6, <1>7, <1>8, <1>9, <1>10, <1>11 DEF Next, Join

LEMMA RecorderInit == Init => Recorder
    BY StreamingAssumption DEF Init, Recorder, RecordingOwned, OpenStreamHeld

\* The inductive invariant of the hub holds for any number of sockets, streams and deletions.
THEOREM Inductive == Spec => []IInv
<1>1. IInv <=> TypeOK /\ Registry /\ CapacityRespected /\ Shown /\ Recorder
    BY DEF IInv, Registry, Shown, Recorder
<1>2. Init => IInv
    <2>1. Init => CapacityRespected
        BY StreamingAssumption, FS_EmptySet DEF Init, CapacityRespected
    <2>2. QED
        BY <1>1, <2>1, TypeInit, RegistryInit, ShownInit, RecorderInit
<1>3. IInv /\ [Next]_vars => IInv'
    BY <1>1, TypeStep, RegistryStep, CapacityStep, ShownStep, RecorderStep
       DEF IInv, Registry, Shown, Recorder
<1>4. QED
    BY <1>2, <1>3, PTL DEF Spec

\* No order of go-live, stop, close, take-over and stream errors leaks an open recording.
THEOREM OpenStreamCorrect == Spec => []OpenStreamHeld
<1>1. IInv => OpenStreamHeld
    BY DEF IInv
<1>2. QED
    BY <1>1, Inductive, PTL

-----------------------------------------------------------------------------
(* What no step of the hub does *)

\* An open broadcaster is not displaced: only a join that found it no longer open, or its own
\* 'close', takes its place away.
THEOREM BroadcasterKept == Spec => OpenBroadcasterKept
<1> DEFINE Kept == \A g \in Gens :
        broadcaster[g] # Nobody /\ broadcaster'[g] # broadcaster[g] => conn[broadcaster[g]] # "open"
<1>1. TypeOK /\ [Next]_vars => Kept
    <2> SUFFICES ASSUME TypeOK, [Next]_vars PROVE Kept
        OBVIOUS
    <2>1. ASSUME NEW s \in Sockets, JoinBroadcaster(s) PROVE Kept
        <3>1. \A g \in Gens : g # gen => broadcaster'[g] = broadcaster[g]
            BY <2>1 DEF JoinBroadcaster, TypeOK, Ready
        <3>2. broadcaster[gen] # Nobody => conn[broadcaster[gen]] # "open"
            BY <2>1 DEF JoinBroadcaster, Occupied, Ready
        <3>3. QED
            BY <3>1, <3>2
    <2>2. ASSUME NEW s \in Sockets, OnClose(s) PROVE Kept
        <3>1. conn[s] # "open"
            BY <2>2 DEF OnClose, IsCurrentBroadcaster, StopBroadcast
        <3>2. \A g \in Gens : broadcaster'[g] = broadcaster[g] \/ broadcaster[g] = s
            BY <2>2 DEF OnClose, room, TypeOK, IsCurrentBroadcaster, StopBroadcast
        <3>3. QED
            BY <3>1, <3>2
    <2>3. CASE UNCHANGED broadcaster
        BY <2>3
    <2>4. ASSUME NEW s \in Sockets,
                 \/ Connect(s) \/ PeerClose(s) \/ PeerVanish(s) \/ CloseTimeout(s)
                 \/ JoinNoRoom(s) \/ JoinNotAllowed(s) \/ JoinOccupied(s) \/ JoinListener(s)
                 \/ JoinThrottled(s) \/ JoinPassword(s) \/ KdfDone(s)
                 \/ GoLive(s) \/ Frame(s) \/ Stop(s) \/ Heartbeat(s) \/ Pong(s)
          PROVE  UNCHANGED broadcaster
        BY <2>4 DEF Connect, PeerClose, PeerVanish, CloseTimeout, JoinNoRoom, JoinNotAllowed, JoinOccupied,
                    JoinListener, JoinThrottled, JoinPassword, KdfDone, Refuse, Admit, GoLive, Frame, Stop,
                    Heartbeat, Pong, room, Register, MayGoLive, StopBroadcast
    <2>5. ASSUME NEW r \in Recordings, StreamError(r) \/ StreamFlushed(r) PROVE UNCHANGED broadcaster
        BY <2>5 DEF StreamError, StreamFlushed, room
    <2>6. ASSUME DeleteRoom \/ CreateRoom \/ DeleteOrganization \/ UNCHANGED vars PROVE UNCHANGED broadcaster
        BY <2>6 DEF DeleteRoom, CreateRoom, DeleteOrganization, vars, room
    <2> HIDE DEF Kept
    <2>7. QED
        BY <2>1, <2>2, <2>3, <2>4, <2>5, <2>6 DEF Next, Join
<1>2. QED
    BY <1>1, TypeCorrect, PTL DEF Spec, OpenBroadcasterKept

\* A live broadcast is ended by its own broadcaster: the late close of a socket that was taken
\* over never tears down its successor's.
THEOREM LiveEndsCorrect == Spec => LiveEndsWithBroadcaster
<1> DEFINE Own == \A b \in Sockets :
        NeverDeleted /\ live[gen] /\ ~live'[gen] /\ broadcaster[gen] = b => Stop(b) \/ OnClose(b)
<1>1. TypeOK /\ Registry /\ [Next]_vars => Own
    <2> SUFFICES ASSUME TypeOK, Registry, [Next]_vars PROVE Own
        OBVIOUS
    <2>1. ASSUME NEW s \in Sockets, Stop(s) PROVE Own
        BY <2>1, SourceIsRegistered DEF Stop, StopBroadcast
    <2>2. ASSUME NEW s \in Sockets, OnClose(s) PROVE Own
        BY <2>2 DEF OnClose, room, IsCurrentBroadcaster, StopBroadcast
    <2>3. CASE UNCHANGED live
        BY <2>3
    <2>4. ASSUME NEW s \in Sockets, GoLive(s) PROVE Own
        BY <2>4 DEF GoLive, TypeOK, MayGoLive
    <2>5. ASSUME NEW s \in Sockets,
                 \/ Connect(s) \/ PeerClose(s) \/ PeerVanish(s) \/ CloseTimeout(s)
                 \/ JoinNoRoom(s) \/ JoinNotAllowed(s) \/ JoinOccupied(s) \/ JoinBroadcaster(s)
                 \/ JoinListener(s) \/ JoinThrottled(s) \/ JoinPassword(s) \/ KdfDone(s)
                 \/ Frame(s) \/ Heartbeat(s) \/ Pong(s)
          PROVE  UNCHANGED live
        BY <2>5 DEF Connect, PeerClose, PeerVanish, CloseTimeout, JoinNoRoom, JoinNotAllowed, JoinOccupied,
                    JoinBroadcaster, JoinListener, JoinThrottled, JoinPassword, KdfDone, Refuse, Admit,
                    Frame, Heartbeat, Pong, room, Ready, Register
    <2>6. ASSUME NEW r \in Recordings, StreamError(r) \/ StreamFlushed(r) PROVE UNCHANGED live
        BY <2>6 DEF StreamError, StreamFlushed, room
    <2>7. ASSUME DeleteRoom \/ CreateRoom \/ DeleteOrganization \/ UNCHANGED vars PROVE UNCHANGED live
        BY <2>7 DEF DeleteRoom, CreateRoom, DeleteOrganization, vars, room
    <2> HIDE DEF Own
    <2>8. QED
        BY <2>1, <2>2, <2>3, <2>4, <2>5, <2>6, <2>7 DEF Next, Join
<1>2. QED
    BY <1>1, RegistryCorrect, PTL DEF Spec, LiveEndsWithBroadcaster

-----------------------------------------------------------------------------
(* The hub implements Stage *)

\* A step that leaves the broadcaster's place alone and opens no connection is a Leave.
LEMMA CutsImplementLeave ==
    ASSUME OpenSockets' \subseteq OpenSockets, UNCHANGED <<broadcaster[0], live[0]>>
    PROVE  Room!Next
<1>1. OpenSockets \ OpenSockets' \in SUBSET Sockets
    BY DEF OpenSockets
<1>2. OpenSockets' = OpenSockets \ (OpenSockets \ OpenSockets')
    OBVIOUS
<1>3. \E cs \in SUBSET Sockets : Room!Leave(cs)
    BY <1>1, <1>2 DEF Room!Leave
<1>4. QED
    BY <1>3 DEF Room!Next

LEMMA StageStep == IInv /\ [Next]_vars => [Room!Next]_(Room!vars)
<1> SUFFICES ASSUME IInv, [Next]_vars PROVE Room!Next \/ UNCHANGED <<OpenSockets, broadcaster[0], live[0]>>
    BY DEF Room!vars
<1> DEFINE Goal == Room!Next \/ UNCHANGED <<OpenSockets, broadcaster[0], live[0]>>
<1> HIDE DEF Goal
<1>1. TypeOK /\ Registry /\ Shown
    BY DEF IInv, Registry, Shown
<1>2. 0 \in Gens /\ gen \in Gens
    BY <1>1, StreamingAssumption DEF Gens, TypeOK
<1>3. Nobody \notin OpenSockets
    BY StreamingAssumption DEF OpenSockets
<1>4. ASSUME NEW s \in Sockets, Connect(s) PROVE Goal
    <2>1. s \notin OpenSockets /\ broadcaster[0] # s
        BY <1>2, <1>4 DEF Connect, Referenced, OpenSockets
    <2>2. OpenSockets' = OpenSockets \union {s} /\ UNCHANGED <<broadcaster, live>>
        BY <1>1, <1>4 DEF Connect, OpenSockets, TypeOK, room
    <2>3. Room!Arrive(s)
        BY <2>1, <2>2 DEF Room!Arrive
    <2>4. QED
        BY <2>3 DEF Room!Next, Goal
<1>5. ASSUME UNCHANGED <<broadcaster[0], live[0]>>, \A t \in Sockets : conn'[t] = "open" => conn[t] = "open"
      PROVE  Goal
    BY <1>5, CutsImplementLeave DEF OpenSockets, Goal
<1>6. ASSUME NEW s \in Sockets,
             \/ PeerClose(s) \/ PeerVanish(s) \/ CloseTimeout(s)
             \/ JoinNoRoom(s) \/ JoinNotAllowed(s) \/ JoinOccupied(s) \/ JoinListener(s)
             \/ JoinThrottled(s) \/ JoinPassword(s) \/ KdfDone(s) \/ Heartbeat(s) \/ Pong(s)
      PROVE  Goal
    <2>1. UNCHANGED <<broadcaster, live>>
        BY <1>6 DEF PeerClose, PeerVanish, CloseTimeout, JoinNoRoom, JoinNotAllowed, JoinOccupied,
                    JoinListener, JoinThrottled, JoinPassword, KdfDone, Refuse, Admit, Heartbeat, Pong,
                    room, Register
    <2>2. \/ UNCHANGED conn
          \/ conn' = [conn EXCEPT ![s] = "ending"]
          \/ conn' = Terminated(s)
          \/ conn' = Closing({s})
        BY <1>6 DEF PeerClose, PeerVanish, CloseTimeout, JoinNoRoom, JoinNotAllowed, JoinOccupied,
                    JoinListener, JoinThrottled, JoinPassword, KdfDone, Refuse, Admit, Heartbeat, Pong,
                    link, Register
    <2>3. \A t \in Sockets : conn'[t] = "open" => conn[t] = "open"
        BY <1>1, <2>2 DEF Terminated, Closing, TypeOK
    <2>4. QED
        BY <1>5, <2>1, <2>3
<1>7. ASSUME NEW s \in Sockets, JoinBroadcaster(s) PROVE Goal
    <2>1. conn[s] = "open"
        BY <1>1, <1>7 DEF JoinBroadcaster, Latch, Readable, Registry, Handshake, Ready, Unjoined
    <2>2. broadcaster[gen] = Nobody \/ conn[broadcaster[gen]] # "open"
        BY <1>7 DEF JoinBroadcaster, Occupied, Ready
    <2>3. \A t \in Sockets : conn'[t] = "open" <=> conn[t] = "open"
        <3>1. CASE broadcaster[gen] = Nobody
            BY <1>7, <3>1 DEF JoinBroadcaster, Ready
        <3>2. CASE broadcaster[gen] # Nobody
            <4>1. conn' = Terminated(broadcaster[gen])
                BY <1>7, <3>2 DEF JoinBroadcaster, Ready
            <4>2. QED
                BY <1>1, <2>2, <3>2, <4>1 DEF Terminated, TypeOK
        <3>3. QED
            BY <3>1, <3>2
    <2>4. UNCHANGED <<OpenSockets, live>>
        BY <1>7, <2>3 DEF JoinBroadcaster, OpenSockets, Ready
    <2>5. CASE gen = 0
        <3>1. s \in OpenSockets /\ broadcaster[0] \notin OpenSockets
            BY <2>1, <2>2, <2>5, <1>3 DEF OpenSockets
        <3>2. broadcaster'[0] = s
            BY <1>1, <1>7, <2>5 DEF JoinBroadcaster, TypeOK, Ready
        <3>3. QED
            BY <2>4, <3>1, <3>2 DEF Room!Next, Room!Take, Goal
    <2>6. CASE gen # 0
        <3>1. broadcaster'[0] = broadcaster[0]
            BY <1>1, <1>2, <1>7, <2>6 DEF JoinBroadcaster, TypeOK, Ready
        <3>2. QED
            BY <2>4, <3>1 DEF Goal
    <2>7. QED
        BY <2>5, <2>6
<1>8. ASSUME NEW s \in Sockets, GoLive(s) PROVE Goal
    <2>1. UNCHANGED <<OpenSockets, broadcaster>> /\ role[s] = "broadcaster" /\ Readable(s)
        BY <1>8 DEF GoLive, OpenSockets, link, MayGoLive
    <2>2. CASE gen = 0
        <3>1. broadcaster[0] = s
            BY <1>1, <2>1, <2>2, SourceIsRegistered DEF NeverDeleted
        <3>2. s \in OpenSockets
            BY <1>1, <2>1 DEF OpenSockets, Readable, Registry, Handshake
        <3>3. ~live[0] /\ live'[0] = TRUE
            BY <1>1, <1>2, <1>8, <2>2 DEF GoLive, TypeOK, MayGoLive
        <3>4. Room!Start
            BY <2>1, <3>1, <3>2, <3>3 DEF Room!Start
        <3>5. QED
            BY <3>4 DEF Room!Next, Goal
    <2>3. CASE gen # 0
        <3>1. live'[0] = live[0]
            BY <1>1, <1>2, <1>8, <2>3 DEF GoLive, TypeOK, MayGoLive
        <3>2. QED
            BY <2>1, <3>1 DEF Goal
    <2>4. QED
        BY <2>2, <2>3
<1>9. ASSUME NEW s \in Sockets, Frame(s) PROVE Goal
    <2>1. UNCHANGED <<broadcaster, live>>
        BY <1>9 DEF Frame
    <2>2. \A t \in Sockets : conn'[t] = "open" => conn[t] = "open"
        BY <1>1, <1>9 DEF Frame, Closing, TypeOK
    <2>3. QED
        BY <1>5, <2>1, <2>2
<1>10. ASSUME NEW s \in Sockets, Stop(s) PROVE Goal
    <2>1. UNCHANGED <<OpenSockets, broadcaster>> /\ role[s] = "broadcaster" /\ Readable(s)
        BY <1>10 DEF Stop, OpenSockets, link, StopBroadcast
    <2>2. CASE gen = 0 /\ live[0]
        <3>1. broadcaster[0] = s
            BY <1>1, <2>1, <2>2, SourceIsRegistered DEF NeverDeleted
        <3>2. s \in OpenSockets
            BY <1>1, <2>1 DEF OpenSockets, Readable, Registry, Handshake
        <3>3. live'[0] = FALSE
            BY <1>1, <1>2, <1>10, <2>2 DEF Stop, TypeOK, StopBroadcast
        <3>4. Room!End
            BY <2>1, <2>2, <3>1, <3>2, <3>3 DEF Room!End
        <3>5. QED
            BY <3>4 DEF Room!Next, Goal
    <2>3. CASE ~(gen = 0 /\ live[0])
        <3>1. live'[0] = live[0]
            BY <1>1, <1>2, <1>10, <2>3 DEF Stop, TypeOK, StopBroadcast
        <3>2. QED
            BY <2>1, <3>1 DEF Goal
    <2>4. QED
        BY <2>2, <2>3
<1>11. ASSUME NEW s \in Sockets, OnClose(s) PROVE Goal
    <2>1. conn[s] = "ending" /\ UNCHANGED OpenSockets
        BY <1>1, <1>11 DEF OnClose, OpenSockets, TypeOK, IsCurrentBroadcaster, StopBroadcast
    <2>2. CASE gen = 0 /\ broadcaster[gen] = s /\ broadcaster' = [broadcaster EXCEPT ![gen] = Nobody]
        <3>1. broadcaster[0] # Nobody /\ broadcaster[0] \notin OpenSockets
            BY <2>1, <2>2, StreamingAssumption DEF OpenSockets
        <3>2. broadcaster'[0] = Nobody
            BY <1>1, <1>2, <2>2 DEF TypeOK
        <3>3. live'[0] = FALSE
            <4>1. CASE role[s] = "broadcaster" /\ live[gen] /\ live' = [live EXCEPT ![gen] = FALSE]
                BY <1>1, <1>2, <2>2, <4>1 DEF TypeOK
            <4>2. CASE ~live[gen] /\ UNCHANGED live
                BY <1>1, <1>2, <2>2, <4>2 DEF TypeOK
            <4>3. role[s] = "broadcaster"
                BY <1>1, <1>2, <2>2 DEF Registry, Registered
            <4>4. QED
                BY <1>11, <2>2, <4>1, <4>2, <4>3 DEF OnClose, IsCurrentBroadcaster, StopBroadcast
        <3>4. Room!Release
            BY <2>1, <3>1, <3>2, <3>3 DEF Room!Release
        <3>5. QED
            BY <3>4 DEF Room!Next, Goal
    <2>3. CASE gen # 0
        <3>1. broadcaster'[0] = broadcaster[0]
            BY <1>1, <1>2, <1>11, <2>3 DEF OnClose, room, TypeOK, IsCurrentBroadcaster, StopBroadcast
        <3>2. live'[0] = live[0]
            BY <1>1, <1>2, <1>11, <2>3 DEF OnClose, room, TypeOK, IsCurrentBroadcaster, StopBroadcast
        <3>3. QED
            BY <2>1, <3>1, <3>2 DEF Goal
    <2>4. CASE UNCHANGED <<broadcaster, live>>
        BY <2>1, <2>4 DEF Goal
    <2>5. QED
        BY <1>11, <2>2, <2>3, <2>4 DEF OnClose, room, IsCurrentBroadcaster, StopBroadcast
<1>12. ASSUME UNCHANGED <<link, broadcaster, live>> PROVE Goal
    BY <1>12 DEF OpenSockets, link, Goal
<1>13. ASSUME NEW r \in Recordings, StreamError(r) \/ StreamFlushed(r) PROVE Goal
    BY <1>12, <1>13 DEF StreamError, StreamFlushed, room
<1>14. ASSUME DeleteRoom \/ CreateRoom \/ DeleteOrganization \/ UNCHANGED vars PROVE Goal
    BY <1>12, <1>14 DEF DeleteRoom, CreateRoom, DeleteOrganization, vars, room
<1>15. QED
    <2>1. Goal
        BY <1>4, <1>6, <1>7, <1>8, <1>9, <1>10, <1>11, <1>13, <1>14 DEF Next, Join
    <2>2. QED
        BY <2>1 DEF Goal

\* Whatever the sockets, the timers and the join handlers do, the broadcaster's place of the room
\* changes hands as Stage says.
THEOREM HubImplementsStage == Spec => ImplementsStage
<1>1. Init => Room!Init
    BY StreamingAssumption DEF Init, Room!Init, OpenSockets, Gens
<1>2. IInv /\ [Next]_vars => [Room!Next]_(Room!vars)
    BY StageStep
<1>3. QED
    BY <1>1, <1>2, Inductive, PTL DEF Spec, ImplementsStage, Room!Spec
=============================================================================
