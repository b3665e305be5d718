------------------------- MODULE ServerFocusProofs -------------------------
(***************************************************************************)
(* Type correctness of ServerFocus for all options, and, for the default   *)
(* options, that the two tables agree, that the focus stays on a connected *)
(* screen and that exactly that screen is entered.                         *)
(***************************************************************************)
EXTENDS ServerFocus, TLAPS

\* The options under which the focus is safe: no switch delay, no switch
\* between the two events of the screen saver, and no aliases.
DefaultOptions ==
    /\ ~SwitchDelay
    /\ ~SwitchDuringSaver
    /\ \A cfg \in Configs, n \in Names : cfg[n] \in {n, NoName}

-----------------------------------------------------------------------------
(* The pending switch.                                                     *)

\* A wait timer that runs has a screen to switch to.
Pending == {sw \in SwitchStates : sw.wait # NoWait => sw.screen # NoScreen}

\* The options, as the definitions that read them need them.
LEMMA Options ==
    /\ SwitchDelay \in BOOLEAN
    /\ TwoTap \in BOOLEAN
    /\ Primary \in Screens
    /\ NoScreen \notin Screens
BY NamesAssumption, OptionsAssumption DEF Screens

\* A pending switch has the type of a switch.
LEMMA PendingType == Pending \subseteq SwitchStates
BY DEF Pending

\* No switch: what the constructor and stopSwitch() leave is well formed.
LEMMA IdlePending == Idle \in Pending
BY DEF Idle, NoWait, Pending, SwitchStates

\* stopSwitch() leaves a well formed switch and starts no timer.
LEMMA StopSwitchPending ==
    ASSUME NEW sw \in Pending
    PROVE  /\ StopSwitch(sw) \in Pending
           /\ sw.wait = NoWait => StopSwitch(sw).wait = NoWait
<1>1. CASE sw.screen = NoScreen
      BY <1>1 DEF StopSwitch
<1>2. CASE sw.screen # NoScreen
      BY <1>2, IdlePending DEF StopSwitch, Idle
<1> QED BY <1>1, <1>2

\* noSwitch() leaves a well formed switch and no timer.
LEMMA NoSwitchPending ==
    ASSUME NEW sw \in Pending, NEW out \in NoSwitchOutcomes(sw)
    PROVE  out \in Pending /\ out.wait = NoWait
<1>1. PICK t \in {"off", "engaged", "armed"} :
        out = [sw EXCEPT !.wait = NoWait, !.tap = t]
      BY DEF NoSwitchOutcomes, Pending, SwitchStates
<1>2. NoWait \in [on : Screens \cup {NoScreen}, to : Screens \cup {NoScreen}]
      BY DEF NoWait
<1> QED BY <1>1, <1>2 DEF Pending, SwitchStates

\* processOptions() leaves a well formed switch and starts no timer.
LEMMA AfterOptionsPending ==
    ASSUME NEW sw \in Pending
    PROVE  /\ AfterOptions(sw) \in Pending
           /\ sw.wait = NoWait => AfterOptions(sw).wait = NoWait
<1>1. NoWait \in [on : Screens \cup {NoScreen}, to : Screens \cup {NoScreen}]
      BY DEF NoWait
<1> QED BY <1>1 DEF AfterOptions, Pending, SwitchStates

\* What pushing against an edge with a screen behind it leaves pending.
LEMMA PushPending ==
    ASSUME NEW sw \in Pending, NEW on \in Screens, NEW new \in Screens, NEW dir \in Edges,
           NEW inTime \in BOOLEAN, NEW corner \in BOOLEAN, NEW held \in BOOLEAN
    PROVE  LET push == PushAgainst(sw, on, new, dir, inTime, corner, held)
           IN /\ push.sw \in Pending
              /\ ~SwitchDelay /\ sw.wait = NoWait => push.sw.wait = NoWait
<1> DEFINE newDir    == dir # sw.dir
           target    == IF newDir \/ sw.screen = NoScreen THEN new ELSE sw.screen
           secondTap == TwoTap /\ ~newDir /\ sw.tap = "armed" /\ inTime
           delayed   == SwitchDelay /\ ~secondTap
           wait      == IF delayed /\ (newDir \/ ~Waiting(sw))
                        THEN [on |-> on, to |-> new] ELSE sw.wait
           tap       == IF TwoTap /\ ~secondTap THEN "engaged" ELSE sw.tap
           noted     == [screen |-> target, dir |-> dir, tap |-> tap, wait |-> wait]
           prevent   == (TwoTap /\ ~secondTap) \/ delayed \/ corner
<1>1. target \in Screens
      BY DEF Pending, SwitchStates
<1>2. wait \in [on : Screens \cup {NoScreen}, to : Screens \cup {NoScreen}]
      BY DEF Pending, SwitchStates
<1>3. tap \in {"off", "engaged", "armed"}
      BY DEF Pending, SwitchStates
<1>4. noted \in Pending
      <2> HIDE DEF target, wait, tap
      <2>1. noted \in SwitchStates
            BY <1>1, <1>2, <1>3 DEF SwitchStates
      <2>2. noted.screen # NoScreen
            BY <1>1, Options
      <2> QED BY <2>1, <2>2 DEF Pending
<1>5. ~SwitchDelay /\ sw.wait = NoWait => noted.wait = NoWait
      OBVIOUS
<1>6. PushAgainst(sw, on, new, dir, inTime, corner, held)
        = [okay |-> ~prevent /\ ~held,
           sw   |-> IF corner \/ (~prevent /\ held) THEN StopSwitch(noted) ELSE noted]
      BY DEF PushAgainst
<1> HIDE DEF noted, prevent
<1> QED BY <1>4, <1>5, <1>6, StopSwitchPending

\* One pass of the loop over the edges leaves a well formed switch, grants a
\* switch to a connected screen only, and starts no timer without switchDelay.
LEMMA TryPending ==
    ASSUME NEW sw \in Pending, active \in Screens, Connected \subseteq Screens,
           NEW push \in Pushes(Edges) \cup {NoPush},
           NEW inTime \in BOOLEAN, NEW corner \in BOOLEAN, NEW held \in BOOLEAN
    PROVE  LET tried == Try(sw, push, inTime, corner, held)
           IN /\ tried.sw \in Pending
              /\ tried.okay => push.new \in Connected
              /\ ~SwitchDelay /\ sw.wait = NoWait => tried.sw.wait = NoWait
<1>1. CASE push.dir = NoEdge
      BY <1>1 DEF Try
<1>2. CASE push.dir # NoEdge
      <2>1. push.dir \in Edges /\ push.new \in Connected \cup {NoScreen}
            BY <1>2 DEF Pushes, NoPush
      <2>2. CASE push.new = NoScreen
            BY <1>2, <2>2, StopSwitchPending DEF Try, IsSwitchOkay
      <2>3. CASE push.new # NoScreen
            <3>1. push.new \in Screens /\ push.new \in Connected
                  BY <2>1, <2>3
            <3>2. Try(sw, push, inTime, corner, held)
                    = PushAgainst(sw, active, push.new, push.dir, inTime, corner, held)
                  BY <1>2, <2>3 DEF Try, IsSwitchOkay
            <3>3. push.dir \in Edges
                  BY <2>1
            <3> DEFINE pushed == PushAgainst(sw, active, push.new, push.dir, inTime, corner, held)
            <3>4. pushed.sw \in Pending
                  BY <3>1, <3>3, PushPending
            <3>5. ~SwitchDelay /\ sw.wait = NoWait => pushed.sw.wait = NoWait
                  BY <3>1, <3>3, PushPending
            <3> HIDE DEF pushed
            <3> QED BY <3>1, <3>2, <3>4, <3>5 DEF pushed
      <2> QED BY <2>2, <2>3
<1> QED BY <1>1, <1>2

\* What is pushed at a side, or at the top or bottom, is pushed at an edge.
LEMMA PushesAreEdges ==
    /\ Pushes(HEdges) \subseteq Pushes(Edges)
    /\ Pushes(VEdges) \subseteq Pushes(Edges)
BY DEF Pushes, Edges

-----------------------------------------------------------------------------
(* Type correctness, for all options.                                      *)

TypeInv == TypeOK /\ switch \in Pending

\* m_clients holds screens only.
LEMMA ConnectedType ==
    ASSUME TypeOK
    PROVE  Connected \subseteq Screens
BY DEF TypeOK, Connected

\* m_clients keeps its type when sessions are removed.
LEMMA ClientsWithoutType ==
    ASSUME TypeOK, NEW cfg \in Configs, NEW S
    PROVE  ClientsWithout(cfg, S) \in [Names -> Screens \cup {NoScreen}]
BY DEF TypeOK, ClientsWithout

\* forceLeaveClient() keeps the types of what it changes.
LEMMA ForceLeaveType ==
    ASSUME TypeInv, NEW S, NEW sw \in Pending, ForceLeaveClients(S, sw)
    PROVE  /\ active' \in Screens
           /\ activeSaver' \in Screens \cup {NoScreen}
           /\ switch' \in Pending
           /\ entered' \subseteq Screens
<1>1. StopSwitch(sw) \in Pending
      BY StopSwitchPending
<1> QED BY <1>1, Options DEF TypeInv, TypeOK, ForceLeaveClients

\* closeClient() keeps the types of what it changes.
LEMMA CloseType ==
    ASSUME TypeInv, NEW cfg \in Configs, NEW S \in SUBSET Sessions, NEW sw \in Pending,
           CloseClients(cfg, S, sw)
    PROVE  /\ clients' \in [Names -> Screens \cup {NoScreen}]
           /\ clientSet' \subseteq Screens
           /\ oldClients' \subseteq Sessions
           /\ active' \in Screens
           /\ activeSaver' \in Screens \cup {NoScreen}
           /\ switch' \in Pending
           /\ entered' \subseteq Screens
<1>1. ForceLeaveClients(S, sw)
      BY DEF CloseClients
<1>2. clients' \in [Names -> Screens \cup {NoScreen}]
      BY ClientsWithoutType DEF CloseClients, TypeInv
<1>3. clientSet' \subseteq Screens /\ oldClients' \subseteq Sessions
      BY DEF CloseClients, TypeInv, TypeOK
<1> QED BY <1>1, <1>2, <1>3, ForceLeaveType

\* switchScreen() keeps the types of what it changes.
LEMMA SwitchScreenType ==
    ASSUME TypeInv, NEW sw \in Pending, NEW dst \in Screens, NEW canLeave,
           SwitchScreen(sw, dst, canLeave)
    PROVE  /\ active' \in Screens
           /\ switch' \in Pending
           /\ entered' \subseteq Screens
<1>1. switch' \in Pending
      BY StopSwitchPending DEF SwitchScreen
<1> QED BY <1>1 DEF TypeInv, TypeOK, SwitchScreen

\* Deleting a proxy keeps the types of what describes proxies.
LEMMA DeleteType ==
    ASSUME TypeInv, NEW s \in Sessions, Delete(s)
    PROVE  /\ rawName' \in [Screens -> Names]
           /\ stage' \in [Sessions -> {"free", "waiting", "adopted"}]
           /\ hungUp' \subseteq Sessions
BY NamesAssumption DEF TypeInv, TypeOK, Delete

\* Motion and the wait timer change these three only.
LEMMA PointerMotionType ==
    ASSUME TypeInv, PointerMotion
    PROVE  /\ active' \in Screens
           /\ switch' \in Pending
           /\ entered' \subseteq Screens
           /\ UNCHANGED <<config, sessionVars, tableVars, activeSaver, lock, saverOn>>
<1> USE DEF TypeInv, TypeOK
<1>1. Connected \subseteq Screens
      BY ConnectedType
<1>2. PICK held \in Held, canLeave \in {TRUE, active # Primary} :
        \/ \E inTime \in {FALSE, TwoTap}, corner \in BOOLEAN :
            \/ \E h \in Pushes(HEdges) \cup {NoPush}, v \in Pushes(VEdges) \cup {NoPush} :
                   MouseMovePrimary(h, v, inTime, corner, held, canLeave)
            \/ \E push \in Pushes(Edges) \cup {NoPush} :
                   MouseMoveSecondary(push, inTime, corner, held)
        \/ SwitchWaitTimeout(held, canLeave)
      BY DEF PointerMotion
<1>3. held \in BOOLEAN
      BY DEF Held, LockStates
<1>4. ASSUME NEW inTime \in {FALSE, TwoTap}, NEW corner \in BOOLEAN,
             NEW h \in Pushes(HEdges) \cup {NoPush}, NEW v \in Pushes(VEdges) \cup {NoPush},
             MouseMovePrimary(h, v, inTime, corner, held, canLeave)
      PROVE  /\ active' \in Screens
             /\ switch' \in Pending
             /\ entered' \subseteq Screens
      <2> DEFINE first  == Try(switch, h, inTime, corner, held)
                 second == Try(first.sw, v, inTime, corner, held)
      <2>1. inTime \in BOOLEAN
            BY Options
      <2>2. h \in Pushes(Edges) \cup {NoPush} /\ v \in Pushes(Edges) \cup {NoPush}
            BY PushesAreEdges
      <2>3. first.sw \in Pending /\ (first.okay => h.new \in Connected)
            BY <1>1, <1>3, <2>1, <2>2, TryPending
      <2>4. second.sw \in Pending /\ (second.okay => v.new \in Connected)
            BY <1>1, <1>3, <2>1, <2>2, <2>3, TryPending
      <2>5. \/ switch' \in NoSwitchOutcomes(switch) /\ UNCHANGED <<active, entered>>
            \/ first.okay /\ SwitchScreen(first.sw, h.new, canLeave)
            \/ second.okay /\ SwitchScreen(second.sw, v.new, canLeave)
            \/ switch' = second.sw /\ UNCHANGED <<active, entered>>
            BY <1>4 DEF MouseMovePrimary
      <2> HIDE DEF first, second
      <2>6. CASE switch' \in NoSwitchOutcomes(switch) /\ UNCHANGED <<active, entered>>
            BY <2>6, NoSwitchPending
      <2>7. CASE first.okay /\ SwitchScreen(first.sw, h.new, canLeave)
            BY <1>1, <2>3, <2>7, SwitchScreenType
      <2>8. CASE second.okay /\ SwitchScreen(second.sw, v.new, canLeave)
            BY <1>1, <2>4, <2>8, SwitchScreenType
      <2>9. CASE switch' = second.sw /\ UNCHANGED <<active, entered>>
            BY <2>4, <2>9
      <2> QED BY <2>5, <2>6, <2>7, <2>8, <2>9
<1>5. ASSUME NEW inTime \in {FALSE, TwoTap}, NEW corner \in BOOLEAN,
             NEW push \in Pushes(Edges) \cup {NoPush},
             MouseMoveSecondary(push, inTime, corner, held)
      PROVE  /\ active' \in Screens
             /\ switch' \in Pending
             /\ entered' \subseteq Screens
      <2> DEFINE tried == Try(switch, push, inTime, corner, held)
      <2>1. inTime \in BOOLEAN
            BY Options
      <2>2. tried.sw \in Pending /\ (tried.okay => push.new \in Connected)
            BY <1>1, <1>3, <2>1, TryPending
      <2>3. \/ switch' \in NoSwitchOutcomes(switch) /\ UNCHANGED <<active, entered>>
            \/ tried.okay /\ SwitchScreen(tried.sw, push.new, TRUE)
            \/ switch' = tried.sw /\ UNCHANGED <<active, entered>>
            BY <1>5 DEF MouseMoveSecondary
      <2> HIDE DEF tried
      <2>4. CASE switch' \in NoSwitchOutcomes(switch) /\ UNCHANGED <<active, entered>>
            BY <2>4, NoSwitchPending
      <2>5. CASE tried.okay /\ SwitchScreen(tried.sw, push.new, TRUE)
            BY <1>1, <2>2, <2>5, SwitchScreenType
      <2> QED BY <2>2, <2>3, <2>4, <2>5
<1>6. ASSUME SwitchWaitTimeout(held, canLeave)
      PROVE  /\ active' \in Screens
             /\ switch' \in Pending
             /\ entered' \subseteq Screens
      <2>1. switch.screen \in Screens
            BY <1>6 DEF SwitchWaitTimeout, Waiting, Pending, SwitchStates
      <2>2. CASE held
            BY <1>6, <2>2, StopSwitchPending DEF SwitchWaitTimeout
      <2>3. CASE ~held
            <3>1. SwitchScreen(switch, switch.screen, canLeave)
                  BY <1>6, <2>3 DEF SwitchWaitTimeout
            <3> QED BY <2>1, <3>1, SwitchScreenType
      <2> QED BY <2>2, <2>3
<1>7. UNCHANGED <<config, sessionVars, tableVars, activeSaver, lock, saverOn>>
      <2>1. ASSUME NEW h, NEW v, NEW inTime, NEW corner,
                   MouseMovePrimary(h, v, inTime, corner, held, canLeave)
            PROVE  UNCHANGED <<config, sessionVars, tableVars, activeSaver, lock, saverOn>>
            BY <2>1 DEF MouseMovePrimary
      <2>2. ASSUME NEW push, NEW inTime, NEW corner,
                   MouseMoveSecondary(push, inTime, corner, held)
            PROVE  UNCHANGED <<config, sessionVars, tableVars, activeSaver, lock, saverOn>>
            BY <2>2 DEF MouseMoveSecondary
      <2>3. ASSUME SwitchWaitTimeout(held, canLeave)
            PROVE  UNCHANGED <<config, sessionVars, tableVars, activeSaver, lock, saverOn>>
            BY <2>3 DEF SwitchWaitTimeout
      <2> QED BY <1>2, <2>1, <2>2, <2>3
<1> QED BY <1>2, <1>4, <1>5, <1>6, <1>7

\* The server starts with every variable of its type and no switch pending.
\* (Server::Server.)
THEOREM TypeInit == Init => TypeInv
<1> SUFFICES ASSUME Init PROVE TypeInv
    OBVIOUS
<1>1. switch \in Pending /\ switch \in SwitchStates
      BY IdlePending, PendingType DEF Init
<1>2. /\ config \in Configs
      /\ rawName \in [Screens -> Names]
      /\ clients \in [Names -> Screens \cup {NoScreen}]
      BY NamesAssumption, Options DEF Init
<1>3. /\ stage \in [Sessions -> {"free", "waiting", "adopted"}]
      /\ clientSet \subseteq Screens /\ entered \subseteq Screens
      BY Options DEF Init
<1> QED BY <1>1, <1>2, <1>3, Options DEF Init, TypeInv, TypeOK

\* Nothing that happens to a session disturbs the types.
LEMMA TypeSession ==
    ASSUME TypeInv, NEW s \in Sessions,
           \/ \E n \in Names : Handshake(s, n)
           \/ HangUp(s)
           \/ DropWaiting(s)
           \/ AdoptClient(s)
           \/ HandleClientDisconnected(s)
           \/ HandleClientCloseTimeout(s)
    PROVE  TypeInv'
<1> USE PendingType DEF TypeInv, TypeOK
<1>0. s \in Screens /\ GetName(s) \in Names
      BY NamesAssumption DEF GetName, NameIn, Screens
<1>1. ASSUME NEW n \in Names, Handshake(s, n) PROVE TypeInv'
      BY <1>1, <1>0 DEF Handshake, tableVars
<1>2. ASSUME HangUp(s) PROVE TypeInv'
      BY <1>2 DEF HangUp, tableVars
<1>3. ASSUME DropWaiting(s) PROVE TypeInv'
      BY <1>3, DeleteType DEF DropWaiting, tableVars
<1>4. ASSUME AdoptClient(s) PROVE TypeInv'
      <2> DEFINE n == GetName(s)
                 old == clients[n]
                 takeOver == {old} \ {NoScreen}
                 refused == config[rawName[s]] = NoName \/ old = Primary
                 full == ClientsWithout(config, takeOver)[n] # NoScreen
      <2>1. /\ stage' \in [Sessions -> {"free", "waiting", "adopted"}]
            /\ UNCHANGED <<config, rawName, hungUp, lock, saverOn>>
            BY <1>4 DEF AdoptClient
      <2>2. \/ CloseClients(config, {s}, switch)
            \/ ~refused /\ CloseClients(config, takeOver \cup {s}, switch)
            \/ /\ ~refused
               /\ clients' = [ClientsWithout(config, takeOver) EXCEPT ![n] = s]
               /\ clientSet' = (clientSet \ takeOver) \cup {s}
               /\ oldClients' = oldClients \cup takeOver
               /\ ForceLeaveClients(takeOver, switch)
            BY <1>4 DEF AdoptClient
      <2>3. ~refused => takeOver \subseteq Sessions
            BY <1>0 DEF Screens
      <2>4. CASE CloseClients(config, {s}, switch)
            BY <2>1, <2>4, CloseType
      <2>5. CASE ~refused /\ CloseClients(config, takeOver \cup {s}, switch)
            <3> HIDE DEF takeOver, refused
            <3>1. takeOver \cup {s} \in SUBSET Sessions
                  BY <2>3, <2>5
            <3> QED BY <2>1, <2>5, <3>1, CloseType
      <2>6. CASE /\ ~refused
                 /\ clients' = [ClientsWithout(config, takeOver) EXCEPT ![n] = s]
                 /\ clientSet' = (clientSet \ takeOver) \cup {s}
                 /\ oldClients' = oldClients \cup takeOver
                 /\ ForceLeaveClients(takeOver, switch)
            <3> HIDE DEF takeOver, refused, n
            <3>1. ClientsWithout(config, takeOver) \in [Names -> Screens \cup {NoScreen}]
                  BY ClientsWithoutType
            <3>2. clients' \in [Names -> Screens \cup {NoScreen}]
                  BY <1>0, <2>6, <3>1
            <3>3. clientSet' \subseteq Screens /\ oldClients' \subseteq Sessions
                  BY <1>0, <2>3, <2>6
            <3> QED BY <2>1, <2>6, <3>2, <3>3, ForceLeaveType
      <2> QED BY <2>2, <2>4, <2>5, <2>6
<1>5. ASSUME HandleClientDisconnected(s) PROVE TypeInv'
      <2>1. /\ Delete(s)
            /\ oldClients' \subseteq Sessions
            /\ UNCHANGED <<config, lock, saverOn>>
            BY <1>5 DEF HandleClientDisconnected
      <2>2. CASE s \in clientSet
            <3>1. /\ clientSet' \subseteq Screens
                  /\ clients' = ClientsWithout(config, {s})
                  /\ ForceLeaveClients({s}, switch)
                  BY <1>5, <2>2 DEF HandleClientDisconnected
            <3>2. clients' \in [Names -> Screens \cup {NoScreen}]
                  BY <3>1, ClientsWithoutType
            <3> QED BY <2>1, <3>1, <3>2, DeleteType, ForceLeaveType
      <2>3. CASE s \notin clientSet
            BY <1>5, <2>1, <2>3, DeleteType DEF HandleClientDisconnected
      <2> QED BY <2>2, <2>3
<1>6. ASSUME HandleClientCloseTimeout(s) PROVE TypeInv'
      BY <1>6, DeleteType DEF HandleClientCloseTimeout
<1> QED BY <1>1, <1>2, <1>3, <1>4, <1>5, <1>6

\* A reload or a forced reconnect does not disturb the types.
LEMMA TypeAdmin ==
    ASSUME TypeInv, Admin
    PROVE  TypeInv'
<1> USE PendingType DEF TypeInv, TypeOK
<1>1. ASSUME NEW cfg \in Configs, NEW disabled \in BOOLEAN, Reload(cfg, disabled)
      PROVE  TypeInv'
      <2> DEFINE dropped == {clients[n] : n \in {m \in Names : ~IsCanonicalName(cfg, m)}}
                              \ {NoScreen, Primary}
      <2>1. dropped \in SUBSET Sessions
            BY DEF Screens
      <2>2. /\ config' = cfg /\ UNCHANGED <<sessionVars, saverOn>>
            /\ lock' \in LockStates
            BY <1>1 DEF Reload, LockStates
      <2>3. \/ UNCHANGED <<tableVars, active, activeSaver, switch, entered>>
            \/ CloseClients(cfg, dropped, AfterOptions(switch))
            BY <1>1 DEF Reload
      <2> HIDE DEF dropped
      <2>4. CASE UNCHANGED <<tableVars, active, activeSaver, switch, entered>>
            BY <2>2, <2>4 DEF sessionVars, tableVars
      <2>5. CASE CloseClients(cfg, dropped, AfterOptions(switch))
            <3>1. AfterOptions(switch) \in Pending
                  BY AfterOptionsPending
            <3> QED BY <2>1, <2>2, <2>5, <3>1, CloseType DEF sessionVars
      <2> QED BY <2>3, <2>4, <2>5
<1>2. ASSUME Disconnect PROVE TypeInv'
      <2>1. Connected \ {Primary} \in SUBSET Sessions
            BY ConnectedType DEF Screens
      <2>2. CloseClients(config, Connected \ {Primary}, switch)
            BY <1>2 DEF Disconnect
      <2>3. UNCHANGED <<config, sessionVars, lock, saverOn>>
            BY <1>2 DEF Disconnect
      <2> QED BY <2>1, <2>2, <2>3, CloseType DEF sessionVars
<1> QED BY <1>1, <1>2 DEF Admin

\* Hotkeys and the screen saver do not disturb the types.
LEMMA TypeInput ==
    ASSUME TypeInv, PointerMotion \/ Hotkeys \/ Saver
    PROVE  TypeInv'
<1> USE PendingType DEF TypeInv, TypeOK
<1>1. ASSUME PointerMotion PROVE TypeInv'
      BY <1>1, PointerMotionType DEF sessionVars, tableVars, Pending
<1>2. ASSUME NEW dst \in Connected, NEW canLeave, JumpToScreen(dst, canLeave) PROVE TypeInv'
      <2>1. dst \in Screens
            BY ConnectedType
      <2>2. SwitchScreen(switch, dst, canLeave)
            BY <1>2 DEF JumpToScreen
      <2> QED BY <1>2, <2>1, <2>2, SwitchScreenType DEF JumpToScreen, sessionVars, tableVars
<1>3. ASSUME NEW on \in BOOLEAN, LockCursorToScreen(on) PROVE TypeInv'
      BY <1>3 DEF LockCursorToScreen, LockStates, sessionVars, tableVars
<1>4. ASSUME SaverActivated PROVE TypeInv'
      <2>1. SwitchScreen(switch, Primary, TRUE) \/ UNCHANGED <<active, switch, entered>>
            BY <1>4 DEF SaverActivated
      <2>2. active' \in Screens /\ switch' \in Pending /\ entered' \subseteq Screens
            BY <2>1, SwitchScreenType, Options
      <2> QED BY <1>4, <2>2 DEF SaverActivated, sessionVars, tableVars
<1>5. ASSUME NEW canLeave, SaverDeactivated(canLeave) PROVE TypeInv'
      <2>1. \/ activeSaver \in Screens /\ SwitchScreen(switch, activeSaver, canLeave)
            \/ UNCHANGED <<active, switch, entered>>
            BY <1>5 DEF SaverDeactivated
      <2>2. active' \in Screens /\ switch' \in Pending /\ entered' \subseteq Screens
            BY <2>1, SwitchScreenType
      <2> QED BY <1>5, <2>2 DEF SaverDeactivated, sessionVars, tableVars
<1> QED BY <1>1, <1>2, <1>3, <1>4, <1>5 DEF Hotkeys, Saver

\* Every event handler keeps every variable in its type and every running wait
\* timer with a screen to switch to.  (isSwitchOkay, handleSwitchWaitTimeout.)
THEOREM TypeStep == TypeInv /\ [Next]_vars => TypeInv'
<1> SUFFICES ASSUME TypeInv, [Next]_vars PROVE TypeInv'
    OBVIOUS
<1>1. CASE SessionEvents
      BY <1>1, TypeSession DEF SessionEvents
<1>2. CASE Admin
      BY <1>2, TypeAdmin
<1>3. CASE PointerMotion \/ Hotkeys \/ Saver
      BY <1>3, TypeInput
<1>4. CASE UNCHANGED vars
      BY <1>4 DEF vars, TypeInv, TypeOK
<1> QED BY <1>1, <1>2, <1>3, <1>4 DEF Next

\* Every variable keeps its type, whatever the options: in particular the
\* focus is never on no screen, and an expired delay has a screen to go to.
THEOREM TypeCorrect == Spec => []TypeOK
<1>1. TypeInv => TypeOK
      BY DEF TypeInv
<1> QED BY <1>1, TypeInit, TypeStep, PTL DEF Spec

-----------------------------------------------------------------------------
(* The tables and the focus, for the default options.                      *)

\* The two tables hold the same screens, each under its own name.
Entries == \A n \in Names : clients[n] # NoScreen =>
               clients[n] \in clientSet /\ rawName[clients[n]] = n
Members == \A s \in clientSet : clients[rawName[s]] = s

\* Adopted proxies are in exactly one of m_clientSet and m_oldClients.
Stages == /\ Primary \in clientSet
          /\ clientSet \cap oldClients = {}
          /\ (clientSet \cup oldClients) \ {Primary}
                = {s \in Sessions : stage[s] = "adopted"}

\* While the saver runs with something to return to, the primary has the focus.
Focus == /\ active \in clientSet
         /\ entered = {active}
         /\ activeSaver # NoScreen =>
                saverOn /\ active = Primary /\ activeSaver \in clientSet
         /\ switch.wait = NoWait

TableInv == Entries /\ Members /\ Stages

Inv == TypeInv /\ TableInv /\ Focus

\* Without aliases a session keeps its name through every reload.
LEMMA NamesStay ==
    ASSUME DefaultOptions, TypeOK, NEW cfg \in Configs, NEW s \in Screens
    PROVE  NameIn(cfg, s) = rawName[s]
BY NamesAssumption DEF DefaultOptions, TypeOK, NameIn

\* Removing sessions takes exactly their entries out of m_clients.
LEMMA RemoveTables ==
    ASSUME DefaultOptions, TypeInv, Entries, Members, NEW cfg \in Configs,
           NEW S \in SUBSET Sessions
    PROVE  LET left == ClientsWithout(cfg, S)
           IN /\ left \in [Names -> Screens \cup {NoScreen}]
              /\ \A n \in Names : left[n] # NoScreen =>
                    left[n] \in clientSet \ S /\ rawName[left[n]] = n
              /\ \A s \in clientSet \ S : left[rawName[s]] = s
<1> USE DEF TypeInv, TypeOK
<1> DEFINE left == ClientsWithout(cfg, S)
<1>1. left \in [Names -> Screens \cup {NoScreen}]
      BY ClientsWithoutType
<1>2. ASSUME NEW n \in Names
      PROVE  left[n] = IF \E s \in S \cap clientSet : rawName[s] = n
                       THEN NoScreen ELSE clients[n]
      <2>1. \A s \in S \cap clientSet : NameIn(cfg, s) = rawName[s]
            BY NamesStay
      <2> QED BY <2>1 DEF ClientsWithout
<1> HIDE DEF left
<1>3. ASSUME NEW n \in Names, left[n] # NoScreen
      PROVE  left[n] \in clientSet \ S /\ rawName[left[n]] = n
      <2>1. left[n] = clients[n] /\ ~ \E s \in S \cap clientSet : rawName[s] = n
            BY <1>2, <1>3
      <2> QED BY <1>3, <2>1 DEF Entries
<1>4. ASSUME NEW s \in clientSet \ S
      PROVE  left[rawName[s]] = s
      <2>1. rawName[s] \in Names /\ clients[rawName[s]] = s
            BY DEF Members
      <2>2. ~ \E r \in S \cap clientSet : rawName[r] = rawName[s]
            BY DEF Members
      <2> QED BY <1>2, <2>1, <2>2
<1> QED BY <1>1, <1>3, <1>4 DEF left

\* Removing sessions and jumping off them keeps the focus where it is safe.
LEMMA LeaveFocus ==
    ASSUME Inv, NEW S \in SUBSET Sessions, NEW sw \in Pending, sw.wait = NoWait,
           ForceLeaveClients(S, sw), clientSet \ S \subseteq clientSet', saverOn' = saverOn
    PROVE  Focus'
<1> USE DEF Inv, TypeInv, TypeOK
<1>1. Primary \notin S /\ NoScreen \notin S /\ Primary # NoScreen
      BY NamesAssumption
<1>2. switch'.wait = NoWait
      BY StopSwitchPending DEF ForceLeaveClients
<1>3. Primary \in clientSet'
      BY <1>1 DEF TableInv, Stages
<1>4. CASE activeSaver # NoScreen
      <2>1. /\ active = Primary /\ active' = Primary
            /\ entered' = {Primary}
            /\ activeSaver' = IF activeSaver \in S THEN NoScreen ELSE activeSaver
            BY <1>1, <1>4 DEF Focus, ForceLeaveClients
      <2> QED BY <1>1, <1>2, <1>3, <1>4, <2>1 DEF Focus
<1>5. CASE activeSaver = NoScreen
      <2>1. activeSaver' = NoScreen
            BY <1>1, <1>5 DEF ForceLeaveClients
      <2>2. CASE active \in S
            BY <1>1, <1>2, <1>3, <1>5, <2>1, <2>2 DEF Focus, ForceLeaveClients
      <2>3. CASE active \notin S
            BY <1>1, <1>2, <1>5, <2>1, <2>3 DEF Focus, ForceLeaveClients
      <2> QED BY <2>2, <2>3
<1> QED BY <1>4, <1>5

\* closeClient() keeps the tables in agreement and the focus safe.
LEMMA CloseInv ==
    ASSUME DefaultOptions, Inv, NEW cfg \in Configs, NEW S \in SUBSET Sessions,
           NEW sw \in Pending, sw.wait = NoWait, CloseClients(cfg, S, sw),
           rawName' = rawName, saverOn' = saverOn,
           {s \in Sessions : stage'[s] = "adopted"}
               = {s \in Sessions : stage[s] = "adopted"} \cup S
    PROVE  (TableInv /\ Focus)'
<1> USE DEF Inv
<1>1. /\ clientSet' = clientSet \ S
      /\ clients' = ClientsWithout(cfg, S)
      /\ oldClients' = oldClients \cup S
      /\ ForceLeaveClients(S, sw)
      BY DEF CloseClients
<1>2. Entries' /\ Members'
      BY <1>1, RemoveTables DEF TableInv, Entries, Members
<1>3. Stages'
      BY <1>1, NamesAssumption DEF TableInv, Stages
<1>4. Focus'
      BY <1>1, LeaveFocus
<1> QED BY <1>2, <1>3, <1>4 DEF TableInv

\* Switching to a connected screen.
LEMMA SwitchFocus ==
    ASSUME Inv, NEW sw \in Pending, sw.wait = NoWait, NEW dst \in clientSet, NEW canLeave,
           SwitchScreen(sw, dst, canLeave)
    PROVE  /\ active' \in clientSet
           /\ entered' = {active'}
           /\ switch'.wait = NoWait
           /\ active' \in {active, dst}
<1>1. switch'.wait = NoWait
      BY StopSwitchPending DEF SwitchScreen
<1> QED BY <1>1 DEF Inv, Focus, SwitchScreen

\* The server starts with the primary as the one connected screen, which has
\* the focus.  (Server::Server.)
THEOREM FocusInit == DefaultOptions /\ Init => TableInv /\ Focus
<1> SUFFICES ASSUME Init PROVE TableInv /\ Focus
    OBVIOUS
<1>1. Entries /\ Members /\ Stages
      BY NamesAssumption DEF Init, Entries, Members, Stages, Screens
<1>2. Focus
      BY NamesAssumption DEF Init, Focus, Idle
<1> QED BY <1>1, <1>2 DEF TableInv

\* adoptClient() keeps the tables in agreement and the focus safe, whether it
\* refuses the session, lets it in, or lets it take over from another.
LEMMA FocusAdopt ==
    ASSUME DefaultOptions, Inv, NEW s \in Sessions, AdoptClient(s)
    PROVE  (TableInv /\ Focus)'
<1> USE PendingType DEF Inv, TypeInv, TypeOK
<1> DEFINE n == GetName(s)
           old == clients[n]
           takeOver == {old} \ {NoScreen}
           refused == config[rawName[s]] = NoName \/ old = Primary
           full == ClientsWithout(config, takeOver)[n] # NoScreen
<1>1. /\ s \in Screens /\ s # Primary /\ n = rawName[s] /\ n \in Names
      BY NamesAssumption, NamesStay DEF GetName, Screens
<1>2. s \notin clientSet /\ s \notin oldClients
      BY <1>1 DEF AdoptClient, TableInv, Stages
<1>3. stage' = [stage EXCEPT ![s] = "adopted"]
      BY DEF AdoptClient
<1>4. {r \in Sessions : stage'[r] = "adopted"}
        = {r \in Sessions : stage[r] = "adopted"} \cup {s}
      BY <1>3
<1>5. UNCHANGED <<config, rawName, hungUp, lock, saverOn>>
      BY DEF AdoptClient
<1>6. ~refused => takeOver \in SUBSET Sessions /\ takeOver \subseteq clientSet
      BY <1>1 DEF Screens, TableInv, Entries
<1>7. ~refused => ~full
      <2> SUFFICES ASSUME ~refused, full PROVE FALSE
          OBVIOUS
      <2> HIDE DEF takeOver, refused, n
      <2>1. /\ ClientsWithout(config, takeOver)[n] \in clientSet \ takeOver
            /\ ClientsWithout(config, takeOver)[n] # NoScreen
            BY <1>1, <1>6, RemoveTables DEF TableInv
      <2>2. ClientsWithout(config, takeOver)[n] \in {NoScreen, clients[n]}
            BY <1>1 DEF ClientsWithout
      <2> QED BY <2>1, <2>2 DEF takeOver
<1>8. \/ refused /\ CloseClients(config, {s}, switch)
      \/ /\ ~refused
         /\ clients' = [ClientsWithout(config, takeOver) EXCEPT ![n] = s]
         /\ clientSet' = (clientSet \ takeOver) \cup {s}
         /\ oldClients' = oldClients \cup takeOver
         /\ ForceLeaveClients(takeOver, switch)
      BY <1>7 DEF AdoptClient
<1>9. CASE CloseClients(config, {s}, switch)
      BY <1>4, <1>5, <1>9, CloseInv DEF Focus
<1>10. CASE /\ ~refused
            /\ clients' = [ClientsWithout(config, takeOver) EXCEPT ![n] = s]
            /\ clientSet' = (clientSet \ takeOver) \cup {s}
            /\ oldClients' = oldClients \cup takeOver
            /\ ForceLeaveClients(takeOver, switch)
      <2> DEFINE left == ClientsWithout(config, takeOver)
      <2>1. left[n] = NoScreen
            BY <1>7, <1>10
      <2>2. takeOver \in SUBSET Sessions /\ takeOver \subseteq clientSet
            BY <1>6, <1>10
      <2> HIDE DEF takeOver, refused
      <2>3. /\ left \in [Names -> Screens \cup {NoScreen}]
            /\ \A m \in Names : left[m] # NoScreen =>
                  left[m] \in clientSet \ takeOver /\ rawName[left[m]] = m
            /\ \A r \in clientSet \ takeOver : left[rawName[r]] = r
            BY <2>2, RemoveTables DEF TableInv
      <2>4. clients' = [left EXCEPT ![n] = s]
            BY <1>10
      <2> HIDE DEF left, n
      <2>5. Entries'
            BY <1>1, <1>5, <1>10, <2>3, <2>4 DEF Entries
      <2>6. Members'
            <3> SUFFICES ASSUME NEW r \in clientSet' PROVE clients'[rawName[r]] = r
                BY <1>5 DEF Members
            <3>1. CASE r = s
                  BY <1>1, <2>3, <2>4, <3>1
            <3>2. CASE r # s
                  <4>1. r \in clientSet \ takeOver /\ left[rawName[r]] = r
                        BY <1>10, <2>3, <3>2
                  <4>2. r # NoScreen /\ rawName[r] \in Names
                        BY <4>1, Options
                  <4>3. rawName[r] # n
                        BY <2>1, <4>1, <4>2
                  <4> QED BY <2>3, <2>4, <4>1, <4>2, <4>3
            <3> QED BY <3>1, <3>2
      <2>7. Stages'
            BY <1>1, <1>2, <1>4, <1>10, <2>2, NamesAssumption DEF TableInv, Stages
      <2>8. Focus'
            BY <1>5, <1>10, <2>2, LeaveFocus DEF Focus
      <2> QED BY <2>5, <2>6, <2>7, <2>8 DEF TableInv
<1> QED BY <1>8, <1>9, <1>10

\* So does dropping a proxy: before adoption, when its connection has ended, or
\* when it took too long to close.
LEMMA FocusDelete ==
    ASSUME DefaultOptions, Inv, NEW s \in Sessions,
           HandleClientDisconnected(s) \/ HandleClientCloseTimeout(s)
    PROVE  (TableInv /\ Focus)'
<1> USE PendingType DEF Inv, TypeInv, TypeOK
<1>1. /\ s # Primary /\ s \in Screens
      /\ oldClients' = oldClients \ {s} /\ Delete(s) /\ UNCHANGED <<config, saverOn>>
      BY NamesAssumption DEF HandleClientDisconnected, HandleClientCloseTimeout, Screens
<1>2. /\ rawName' = [rawName EXCEPT ![s] = PrimaryName]
      /\ stage' = [stage EXCEPT ![s] = "free"]
      BY <1>1 DEF Delete
<1>3. {r \in Sessions : stage'[r] = "adopted"}
        = {r \in Sessions : stage[r] = "adopted"} \ {s}
      BY <1>2
<1>4. CASE s \in clientSet
      <2>1. s \notin oldClients
            BY <1>4 DEF TableInv, Stages
      <2>2. /\ clientSet' = clientSet \ {s}
            /\ clients' = ClientsWithout(config, {s})
            /\ ForceLeaveClients({s}, switch)
            BY <1>4, <2>1 DEF HandleClientDisconnected, HandleClientCloseTimeout
      <2>3. /\ \A n \in Names : clients'[n] # NoScreen =>
                  clients'[n] \in clientSet \ {s} /\ rawName[clients'[n]] = n
            /\ \A r \in clientSet \ {s} : clients'[rawName[r]] = r
            BY <2>2, RemoveTables DEF TableInv
      <2>. \A r \in clientSet \ {s} : rawName'[r] = rawName[r]
            BY <1>2
      <2>4. Entries'
            BY <2>2, <2>3 DEF Entries
      <2>5. Members'
            BY <2>2, <2>3 DEF Members
      <2>6. Stages'
            BY <1>1, <1>3, <2>2 DEF TableInv, Stages
      <2>7. Focus'
            BY <1>1, <2>2, LeaveFocus DEF Focus
      <2> QED BY <2>4, <2>5, <2>6, <2>7 DEF TableInv
<1>5. CASE s \notin clientSet
      <2>1. UNCHANGED <<clients, clientSet, active, switch, activeSaver, entered>>
            BY <1>5 DEF HandleClientDisconnected, HandleClientCloseTimeout
      <2>2. Entries' /\ Members'
            BY <1>2, <1>5, <2>1 DEF TableInv, Entries, Members
      <2>3. Stages'
            BY <1>1, <1>3, <1>5, <2>1 DEF TableInv, Stages
      <2>4. Focus'
            BY <1>1, <2>1 DEF Focus
      <2> QED BY <2>2, <2>3, <2>4 DEF TableInv
<1> QED BY <1>4, <1>5

\* So does everything that happens to a session.
LEMMA FocusSession ==
    ASSUME DefaultOptions, Inv, SessionEvents
    PROVE  (TableInv /\ Focus)'
<1> USE DEF Inv, TypeInv, TypeOK
<1>1. PICK s \in Sessions :
        \/ \E n \in Names : Handshake(s, n)
        \/ HangUp(s)
        \/ DropWaiting(s)
        \/ AdoptClient(s)
        \/ HandleClientDisconnected(s)
        \/ HandleClientCloseTimeout(s)
      BY DEF SessionEvents
<1>2. s # Primary /\ s \in Screens
      BY NamesAssumption DEF Screens
\* A proxy that is not adopted is in no table.
<1>3. ASSUME stage[s] # "adopted",
             \A r \in Screens \ {s} : rawName'[r] = rawName[r],
             {r \in Sessions : stage'[r] = "adopted"}
                = {r \in Sessions : stage[r] = "adopted"},
             UNCHANGED <<tableVars, active, activeSaver, switch, saverOn, entered>>
      PROVE  (TableInv /\ Focus)'
      <2>1. s \notin clientSet
            BY <1>2, <1>3 DEF TableInv, Stages
      <2>2. Entries' /\ Members'
            BY <1>3, <2>1 DEF TableInv, Entries, Members, tableVars
      <2>3. Stages' /\ Focus'
            BY <1>3 DEF TableInv, Stages, Focus, tableVars
      <2> QED BY <2>2, <2>3 DEF TableInv
<1>4. ASSUME NEW n \in Names, Handshake(s, n) PROVE (TableInv /\ Focus)'
      BY <1>3, <1>4 DEF Handshake
<1>5. ASSUME HangUp(s) PROVE (TableInv /\ Focus)'
      BY <1>5 DEF HangUp, TableInv, Entries, Members, Stages, Focus, tableVars
<1>6. ASSUME DropWaiting(s) PROVE (TableInv /\ Focus)'
      BY <1>3, <1>6 DEF DropWaiting, Delete
<1> QED BY <1>1, <1>4, <1>5, <1>6, FocusAdopt, FocusDelete

\* So does a reload, taken or refused, and a forced reconnect.
LEMMA FocusAdmin ==
    ASSUME DefaultOptions, Inv, Admin
    PROVE  (TableInv /\ Focus)'
<1> USE DEF Inv, TypeInv, TypeOK
\* Every session in m_clients is adopted already.
<1>1. ASSUME NEW S \in SUBSET Sessions, S \subseteq Connected
      PROVE  {s \in Sessions : stage[s] = "adopted"}
                = {s \in Sessions : stage[s] = "adopted"} \cup S
      BY <1>1, NamesAssumption DEF Connected, TableInv, Entries, Stages
<1>2. ASSUME NEW cfg \in Configs, NEW disabled \in BOOLEAN, Reload(cfg, disabled)
      PROVE  (TableInv /\ Focus)'
      <2> DEFINE dropped == {clients[n] : n \in {m \in Names : ~IsCanonicalName(cfg, m)}}
                              \ {NoScreen, Primary}
      <2>1. dropped \in SUBSET Sessions /\ dropped \subseteq Connected
            BY DEF Screens, Connected
      <2>2. UNCHANGED <<sessionVars, saverOn>>
            BY <1>2 DEF Reload
      <2>3. \/ UNCHANGED <<tableVars, active, activeSaver, switch, entered>>
            \/ CloseClients(cfg, dropped, AfterOptions(switch))
            BY <1>2 DEF Reload
      <2> HIDE DEF dropped
      <2>4. CASE UNCHANGED <<tableVars, active, activeSaver, switch, entered>>
            BY <2>2, <2>4 DEF sessionVars, tableVars, TableInv, Entries, Members, Stages, Focus
      <2>5. CASE CloseClients(cfg, dropped, AfterOptions(switch))
            <3>1. /\ AfterOptions(switch) \in Pending
                  /\ AfterOptions(switch).wait = NoWait
                  BY AfterOptionsPending DEF Focus
            <3>2. /\ rawName' = rawName /\ saverOn' = saverOn
                  /\ {s \in Sessions : stage'[s] = "adopted"}
                        = {s \in Sessions : stage[s] = "adopted"} \cup dropped
                  BY <1>1, <2>1, <2>2 DEF sessionVars
            <3> QED BY <2>1, <2>5, <3>1, <3>2, CloseInv
      <2> QED BY <2>3, <2>4, <2>5
<1>3. ASSUME Disconnect PROVE (TableInv /\ Focus)'
      <2> DEFINE others == Connected \ {Primary}
      <2>1. others \in SUBSET Sessions /\ others \subseteq Connected
            BY ConnectedType DEF Screens
      <2>2. CloseClients(config, others, switch) /\ UNCHANGED <<sessionVars, saverOn>>
            BY <1>3 DEF Disconnect
      <2> HIDE DEF others
      <2>3. /\ rawName' = rawName /\ saverOn' = saverOn
            /\ {s \in Sessions : stage'[s] = "adopted"}
                  = {s \in Sessions : stage[s] = "adopted"} \cup others
            BY <1>1, <2>1, <2>2 DEF sessionVars
      <2> QED BY <2>1, <2>2, <2>3, CloseInv DEF Focus
<1> QED BY <1>2, <1>3 DEF Admin

\* Input changes no table, so it has to keep the focus only.
LEMMA SameTables ==
    ASSUME TableInv, UNCHANGED <<sessionVars, tableVars>>
    PROVE  TableInv'
BY DEF TableInv, Entries, Members, Stages, sessionVars, tableVars

\* What the pointer can be sent to is connected.
LEMMA ConnectedTargets ==
    ASSUME Inv
    PROVE  Connected \subseteq clientSet
BY DEF Inv, TableInv, Entries, Connected

\* Pointer motion and the wait timer keep the focus safe.
LEMMA FocusMotion ==
    ASSUME DefaultOptions, Inv, PointerMotion
    PROVE  Focus'
<1> USE DEF Inv, TypeInv, TypeOK
<1>1. /\ Connected \subseteq clientSet /\ Connected \subseteq Screens
      /\ switch \in Pending /\ switch.wait = NoWait /\ ~SwitchDelay
      BY ConnectedTargets, ConnectedType DEF Focus, DefaultOptions
<1>2. UNCHANGED <<config, sessionVars, tableVars, activeSaver, lock, saverOn>>
      BY PointerMotionType
<1>3. clientSet' = clientSet /\ activeSaver' = activeSaver /\ saverOn' = saverOn
      BY <1>2 DEF tableVars
\* While the saver remembers a screen, nothing switches.
<1>4. MaySwitch => activeSaver = NoScreen
      BY DEF Focus, MaySwitch, DefaultOptions
<1>5. ASSUME MaySwitch, active' \in clientSet, entered' = {active'}, switch'.wait = NoWait
      PROVE  Focus'
      BY <1>3, <1>4, <1>5 DEF Focus
<1>6. ASSUME NEW sw \in Pending, sw.wait = NoWait, NEW dst \in Connected, NEW canLeave,
             SwitchScreen(sw, dst, canLeave), MaySwitch
      PROVE  Focus'
      BY <1>1, <1>5, <1>6, SwitchFocus
<1>7. ASSUME switch' \in Pending, switch'.wait = NoWait, UNCHANGED <<active, entered>>,
             MaySwitch
      PROVE  Focus'
      BY <1>5, <1>7 DEF Focus
<1>8. PICK held \in Held, canLeave \in {TRUE, active # Primary} :
        \/ \E inTime \in {FALSE, TwoTap}, corner \in BOOLEAN :
            \/ \E h \in Pushes(HEdges) \cup {NoPush}, v \in Pushes(VEdges) \cup {NoPush} :
                   MouseMovePrimary(h, v, inTime, corner, held, canLeave)
            \/ \E push \in Pushes(Edges) \cup {NoPush} :
                   MouseMoveSecondary(push, inTime, corner, held)
        \/ SwitchWaitTimeout(held, canLeave)
      BY DEF PointerMotion
<1>9. held \in BOOLEAN
      BY DEF Held, LockStates
<1>10. ASSUME NEW inTime \in {FALSE, TwoTap}, NEW corner \in BOOLEAN,
              NEW h \in Pushes(HEdges) \cup {NoPush}, NEW v \in Pushes(VEdges) \cup {NoPush},
              MouseMovePrimary(h, v, inTime, corner, held, canLeave)
       PROVE  Focus'
      <2> DEFINE first  == Try(switch, h, inTime, corner, held)
                 second == Try(first.sw, v, inTime, corner, held)
      <2>1. inTime \in BOOLEAN
            BY Options
      <2>2. h \in Pushes(Edges) \cup {NoPush} /\ v \in Pushes(Edges) \cup {NoPush}
            BY PushesAreEdges
      <2>3. ASSUME NEW p \in Pending, p.wait = NoWait, NEW e \in Pushes(Edges) \cup {NoPush}
            PROVE  LET tried == Try(p, e, inTime, corner, held)
                   IN /\ tried.sw \in Pending
                      /\ tried.sw.wait = NoWait
                      /\ tried.okay => e.new \in Connected
            <3>1. /\ Try(p, e, inTime, corner, held).sw \in Pending
                  /\ Try(p, e, inTime, corner, held).okay => e.new \in Connected
                  BY <1>1, <1>9, <2>1, TryPending
            <3>2. Try(p, e, inTime, corner, held).sw.wait = NoWait
                  BY <1>1, <1>9, <2>1, <2>3, TryPending, SMTT(30)
            <3> QED BY <3>1, <3>2
      <2>4. first.sw \in Pending /\ first.sw.wait = NoWait
            BY <1>1, <2>2, <2>3
      <2>5. first.okay => h.new \in Connected
            BY <1>1, <2>2, <2>3
      <2>6. /\ second.sw \in Pending /\ second.sw.wait = NoWait
            /\ second.okay => v.new \in Connected
            BY <2>2, <2>3, <2>4
      <2>7. /\ MaySwitch
            /\ \/ switch' \in NoSwitchOutcomes(switch) /\ UNCHANGED <<active, entered>>
               \/ first.okay /\ SwitchScreen(first.sw, h.new, canLeave)
               \/ second.okay /\ SwitchScreen(second.sw, v.new, canLeave)
               \/ switch' = second.sw /\ UNCHANGED <<active, entered>>
            BY <1>10 DEF MouseMovePrimary
      <2> HIDE DEF first, second
      <2>8. CASE switch' \in NoSwitchOutcomes(switch) /\ UNCHANGED <<active, entered>>
            BY <1>1, <1>7, <2>7, <2>8, NoSwitchPending
      <2>9. CASE first.okay /\ SwitchScreen(first.sw, h.new, canLeave)
            BY <1>6, <2>4, <2>5, <2>7, <2>9
      <2>10. CASE second.okay /\ SwitchScreen(second.sw, v.new, canLeave)
            BY <1>6, <2>6, <2>7, <2>10
      <2>11. CASE switch' = second.sw /\ UNCHANGED <<active, entered>>
            BY <1>7, <2>6, <2>7, <2>11
      <2> QED BY <2>7, <2>8, <2>9, <2>10, <2>11
<1>11. ASSUME NEW inTime \in {FALSE, TwoTap}, NEW corner \in BOOLEAN,
              NEW push \in Pushes(Edges) \cup {NoPush},
              MouseMoveSecondary(push, inTime, corner, held)
       PROVE  Focus'
      <2> DEFINE tried == Try(switch, push, inTime, corner, held)
      <2>1. inTime \in BOOLEAN
            BY Options
      <2>2. tried.sw \in Pending /\ (tried.okay => push.new \in Connected)
            BY <1>1, <1>9, <2>1, TryPending
      <2>3. tried.sw.wait = NoWait
            BY <1>1, <1>9, <2>1, TryPending, SMTT(30)
      <2>4. /\ MaySwitch
            /\ \/ switch' \in NoSwitchOutcomes(switch) /\ UNCHANGED <<active, entered>>
               \/ tried.okay /\ SwitchScreen(tried.sw, push.new, TRUE)
               \/ switch' = tried.sw /\ UNCHANGED <<active, entered>>
            BY <1>11 DEF MouseMoveSecondary
      <2> HIDE DEF tried
      <2>5. CASE switch' \in NoSwitchOutcomes(switch) /\ UNCHANGED <<active, entered>>
            BY <1>1, <1>7, <2>4, <2>5, NoSwitchPending
      <2>6. CASE tried.okay /\ SwitchScreen(tried.sw, push.new, TRUE)
            BY <1>6, <2>2, <2>3, <2>4, <2>6
      <2>7. CASE switch' = tried.sw /\ UNCHANGED <<active, entered>>
            BY <1>7, <2>2, <2>3, <2>4, <2>7
      <2> QED BY <2>4, <2>5, <2>6, <2>7
\* No delay, no wait timer.
<1>12. ~SwitchWaitTimeout(held, canLeave)
       BY <1>1 DEF SwitchWaitTimeout, Waiting
<1> QED BY <1>8, <1>10, <1>11, <1>12

\* So do the hotkeys and the screen saver.
LEMMA FocusHotkeysSaver ==
    ASSUME DefaultOptions, Inv, Hotkeys \/ Saver
    PROVE  Focus'
<1> USE DEF Inv, TypeInv, TypeOK
<1>1. /\ Connected \subseteq clientSet
      /\ switch \in Pending /\ switch.wait = NoWait
      /\ Primary \in clientSet /\ NoScreen \notin clientSet
      BY ConnectedTargets, Options DEF Focus, TableInv, Stages
<1>2. ASSUME NEW dst \in Connected, NEW canLeave, JumpToScreen(dst, canLeave)
      PROVE  Focus'
      <2>1. /\ SwitchScreen(switch, dst, canLeave) /\ MaySwitch
            /\ UNCHANGED <<tableVars, activeSaver, saverOn>>
            BY <1>2 DEF JumpToScreen
      <2>2. activeSaver = NoScreen
            BY <2>1 DEF Focus, MaySwitch, DefaultOptions
      <2>3. active' \in clientSet /\ entered' = {active'} /\ switch'.wait = NoWait
            BY <1>1, <2>1, SwitchFocus
      <2> QED BY <2>1, <2>2, <2>3 DEF Focus, tableVars
<1>3. ASSUME NEW on \in BOOLEAN, LockCursorToScreen(on)
      PROVE  Focus'
      BY <1>3 DEF LockCursorToScreen, Focus, tableVars
<1>4. ASSUME SaverActivated
      PROVE  Focus'
      <2>1. /\ saverOn' = TRUE /\ activeSaver' = active /\ clientSet' = clientSet
            /\ IF active # Primary THEN SwitchScreen(switch, Primary, TRUE)
               ELSE UNCHANGED <<active, switch, entered>>
            BY <1>4 DEF SaverActivated, tableVars
      <2>2. CASE active # Primary
            <3>1. SwitchScreen(switch, Primary, TRUE)
                  BY <2>1, <2>2
            <3>2. active' = Primary
                  BY <2>2, <3>1 DEF SwitchScreen
            <3>3. active' \in clientSet /\ entered' = {active'} /\ switch'.wait = NoWait
                  BY <1>1, <3>1, SwitchFocus
            <3> QED BY <2>1, <3>2, <3>3 DEF Focus
      <2>3. CASE active = Primary
            BY <2>1, <2>3 DEF Focus
      <2> QED BY <2>2, <2>3
<1>5. ASSUME NEW canLeave, SaverDeactivated(canLeave)
      PROVE  Focus'
      <2>1. /\ activeSaver' = NoScreen /\ clientSet' = clientSet
            /\ IF activeSaver \notin {NoScreen, Primary}
               THEN SwitchScreen(switch, activeSaver, canLeave)
               ELSE UNCHANGED <<active, switch, entered>>
            BY <1>5 DEF SaverDeactivated, tableVars
      <2>2. CASE activeSaver \notin {NoScreen, Primary}
            <3>1. SwitchScreen(switch, activeSaver, canLeave) /\ activeSaver \in clientSet
                  BY <2>1, <2>2 DEF Focus
            <3>2. active' \in clientSet /\ entered' = {active'} /\ switch'.wait = NoWait
                  BY <1>1, <3>1, SwitchFocus
            <3> QED BY <2>1, <3>2 DEF Focus
      <2>3. CASE activeSaver \in {NoScreen, Primary}
            BY <2>1, <2>3 DEF Focus
      <2> QED BY <2>2, <2>3
<1> QED BY <1>2, <1>3, <1>4, <1>5 DEF Hotkeys, Saver

\* Under the default options every event handler keeps the tables in agreement
\* and the focus on a connected screen, the one that is entered.  (addClient,
\* removeClient, forceLeaveClient, switchScreen.)
THEOREM FocusStep == DefaultOptions /\ Inv /\ [Next]_vars => (TableInv /\ Focus)'
<1> SUFFICES ASSUME DefaultOptions, Inv, [Next]_vars PROVE (TableInv /\ Focus)'
    OBVIOUS
<1>1. CASE SessionEvents
      BY <1>1, FocusSession
<1>2. CASE Admin
      BY <1>2, FocusAdmin
<1>3. CASE PointerMotion
      <2>1. UNCHANGED <<sessionVars, tableVars>>
            BY <1>3, PointerMotionType DEF Inv
      <2> QED BY <1>3, <2>1, SameTables, FocusMotion DEF Inv
<1>4. CASE Hotkeys \/ Saver
      <2>1. UNCHANGED <<sessionVars, tableVars>>
            BY <1>4 DEF Hotkeys, Saver, JumpToScreen, LockCursorToScreen, SaverActivated,
                        SaverDeactivated
      <2> QED BY <1>4, <2>1, SameTables, FocusHotkeysSaver DEF Inv
<1>5. CASE UNCHANGED vars
      BY <1>5 DEF vars, Inv, TableInv, Entries, Members, Stages, Focus, sessionVars, tableVars
<1> QED BY <1>1, <1>2, <1>3, <1>4, <1>5 DEF Next

\* The inductive invariant says that the two tables agree.
LEMMA InvTablesAgree ==
    ASSUME DefaultOptions, Inv
    PROVE  TablesAgree
<1> USE DEF Inv, TypeInv, TypeOK
<1>1. Connected = clientSet
      <2>1. clientSet \subseteq Connected
            <3> SUFFICES ASSUME NEW s \in clientSet PROVE s \in Connected
                OBVIOUS
            <3>1. clients[rawName[s]] = s /\ rawName[s] \in Names /\ s # NoScreen
                  BY Options DEF TableInv, Members
            <3> QED BY <3>1 DEF Connected
      <2> QED BY <2>1, ConnectedTargets
<1>2. ASSUME NEW n \in Names, clients[n] # NoScreen PROVE GetName(clients[n]) = n
      <2>1. clients[n] \in Screens /\ rawName[clients[n]] = n
            BY <1>2 DEF TableInv, Entries
      <2> QED BY <2>1, NamesStay DEF GetName
<1> QED BY <1>1, <1>2 DEF TablesAgree, TableInv, Stages

\* With the default options the focus is always on a connected screen, the
\* one screen that is entered; the tables agree; and the screen saver returns
\* to a connected screen.
THEOREM FocusSafe ==
    ASSUME DefaultOptions
    PROVE  Spec => [](/\ TablesAgree
                      /\ FocusIsConnected
                      /\ OnlyFocusIsEntered
                      /\ SaverReturnsToConnected)
<1>1. Init => Inv
      BY TypeInit, FocusInit DEF Inv
<1>2. Inv /\ [Next]_vars => Inv'
      BY TypeStep, FocusStep DEF Inv
<1>3. Inv => /\ TablesAgree
             /\ FocusIsConnected
             /\ OnlyFocusIsEntered
             /\ SaverReturnsToConnected
      BY InvTablesAgree
      DEF Inv, Focus, FocusIsConnected, OnlyFocusIsEntered, SaverReturnsToConnected
<1> QED BY <1>1, <1>2, <1>3, PTL DEF Spec

-----------------------------------------------------------------------------
(* The lock.                                                               *)

\* While the cursor is held no push against an edge may switch.
LEMMA HeldPush ==
    ASSUME NEW sw, NEW push, NEW inTime, NEW corner
    PROVE  ~Try(sw, push, inTime, corner, TRUE).okay
BY DEF Try, IsSwitchOkay, PushAgainst

\* For all options, layouts and configurations: while the cursor is locked, and
\* the configuration does not disable the lock, no motion and no expired delay moves the focus.  (isSwitchOkay, noSwitch,
\* handleSwitchWaitTimeout.)
THEOREM LockHolds == Spec => LockHoldsPointer
<1>1. ASSUME lock.on, ~lock.disabled, PointerMotion PROVE active' = active
      <2>1. PICK held \in Held, canLeave \in {TRUE, active # Primary} :
               \/ \E inTime \in {FALSE, TwoTap}, corner \in BOOLEAN :
                   \/ \E h \in Pushes(HEdges) \cup {NoPush}, v \in Pushes(VEdges) \cup {NoPush} :
                          MouseMovePrimary(h, v, inTime, corner, held, canLeave)
                   \/ \E push \in Pushes(Edges) \cup {NoPush} :
                          MouseMoveSecondary(push, inTime, corner, held)
               \/ SwitchWaitTimeout(held, canLeave)
            BY <1>1 DEF PointerMotion
      <2>2. held = TRUE
            BY <1>1, <2>1 DEF Held
      <2>3. ASSUME NEW inTime, NEW corner, NEW h, NEW v,
                   MouseMovePrimary(h, v, inTime, corner, TRUE, canLeave)
            PROVE  active' = active
            <3>1. /\ ~Try(switch, h, inTime, corner, TRUE).okay
                  /\ ~Try(Try(switch, h, inTime, corner, TRUE).sw, v, inTime, corner, TRUE).okay
                  BY HeldPush
            <3> QED BY <2>3, <3>1 DEF MouseMovePrimary
      <2>4. ASSUME NEW inTime, NEW corner, NEW push,
                   MouseMoveSecondary(push, inTime, corner, TRUE)
            PROVE  active' = active
            <3>1. ~Try(switch, push, inTime, corner, TRUE).okay
                  BY HeldPush
            <3> QED BY <2>4, <3>1 DEF MouseMoveSecondary
      <2>5. ASSUME SwitchWaitTimeout(TRUE, canLeave) PROVE active' = active
            BY <2>5 DEF SwitchWaitTimeout
      <2> QED BY <2>1, <2>2, <2>3, <2>4, <2>5
<1>2. [Next]_vars => [lock.on /\ ~lock.disabled /\ active' # active => ~PointerMotion]_vars
      BY <1>1
<1> QED BY <1>2, PTL DEF Spec, LockHoldsPointer
=============================================================================
