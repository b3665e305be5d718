---------------------------- MODULE ServerFocus ----------------------------
(***************************************************************************)
(* The server's table of connected screens and its notion of focus:        *)
(* src/lib/server/Server.cpp.  A session is one BaseClientProxy object;    *)
(* Primary is the PrimaryClient, the server's own screen.  Everything runs *)
(* on the one event loop thread, so an action is one event handler, with   *)
(* every call it makes.                                                    *)
(*                                                                         *)
(* Geometry is abstracted: a motion event reaches an edge or not, and the  *)
(* screen an edge maps to is any connected screen or none.                 *)
(***************************************************************************)
EXTENDS FiniteSets

CONSTANTS
    Sessions,           \* client proxy objects
    Primary,            \* m_primaryClient
    NoScreen,           \* nullptr
    Names,              \* screen names and aliases
    PrimaryName,        \* the name of the primary screen
    NoName,             \* the empty string
    Configs,            \* configurations a reload can bring in
    HEdges, VEdges,     \* edges at the sides, edges at the top and bottom
    NoEdge,             \* Direction::NoDirection
    SwitchDelay,        \* BOOLEAN: the option switchDelay is set
    TwoTap,             \* BOOLEAN: the option switchDoubleTap is set
    SwitchDuringSaver   \* BOOLEAN: a switch may be asked for between the
                        \* screen saver's two events

Edges == HEdges \cup VEdges
Screens == Sessions \cup {Primary}

\* The configuration maps a name or alias to its canonical name.
ASSUME NamesAssumption ==
    /\ Primary \notin Sessions /\ NoScreen \notin Sessions
    /\ Primary # NoScreen
    /\ PrimaryName \in Names /\ NoName \notin Names
    /\ NoEdge \notin Edges /\ HEdges \cap VEdges = {}
    /\ Configs # {}
    /\ Configs \subseteq [Names -> Names \cup {NoName}]

ASSUME OptionsAssumption ==
    /\ SwitchDelay \in BOOLEAN
    /\ TwoTap \in BOOLEAN
    /\ SwitchDuringSaver \in BOOLEAN

VARIABLES
    config,      \* *m_config: canonical name of each known name
    rawName,     \* the name each proxy's peer announced (PrimaryName: no proxy)
    stage,       \* of each proxy: "free", "waiting" for adoption, "adopted"
    hungUp,      \* proxies whose ClientProxyDisconnected event is queued
    clients,     \* m_clients: name -> proxy (NoScreen: no entry)
    clientSet,   \* m_clientSet
    oldClients,  \* keys of m_oldClients, each with its 5 s close timer
    active,      \* m_active
    activeSaver, \* m_activeSaver
    switch,      \* m_switchScreen, m_switchDir, two-tap and wait timer
    lock,        \* m_lockedToScreen and m_disableLockToScreen
    saverOn,     \* the screen saver runs on the primary
    entered      \* screens told enter and not leave since

vars == <<config, rawName, stage, hungUp, clients, clientSet, oldClients,
          active, activeSaver, switch, lock, saverOn, entered>>

sessionVars == <<rawName, stage, hungUp>>
tableVars == <<clients, clientSet, oldClients>>

-----------------------------------------------------------------------------
(* Pending switches: m_switchScreen and friends.                           *)

\* No wait timer; otherwise the timer runs, started on screen .on by a
\* motion that mapped to screen .to (both recorded for the properties).
NoWait == [on |-> NoScreen, to |-> NoScreen]

Idle == [screen |-> NoScreen, dir |-> NoEdge, tap |-> "off", wait |-> NoWait]

Waiting(sw) == sw.wait # NoWait

StopSwitch(sw) == IF sw.screen = NoScreen THEN sw ELSE Idle

\* noSwitch(): the pointer left the edge.  Whether it left fast and far
\* enough to arm the second tap is geometry.
NoSwitchOutcomes(sw) ==
    {[sw EXCEPT !.wait = NoWait, !.tap = t] :
        t \in CASE sw.tap = "off"     -> {"off"}
                [] sw.tap = "engaged" -> {"off", "engaged", "armed"}
                [] sw.tap = "armed"   -> {"off", "armed"}}

\* isSwitchOkay() when a screen, new, lies behind the edge dir the pointer
\* pushes against.  inTime: a second tap would be in time; corner: the pointer
\* is in a locked corner; held: isLockedToScreen().
PushAgainst(sw, on, new, dir, inTime, corner, held) ==
    LET newDir    == dir # sw.dir
        target    == IF newDir \/ sw.screen = NoScreen THEN new ELSE sw.screen
        secondTap == TwoTap /\ ~newDir /\ sw.tap = "armed" /\ inTime
        delayed   == SwitchDelay /\ ~secondTap
        wait      == IF delayed /\ (newDir \/ ~Waiting(sw))
                     THEN [on |-> on, to |-> new] ELSE sw.wait
        tap       == IF TwoTap /\ ~secondTap THEN "engaged" ELSE sw.tap
        noted     == [screen |-> target, dir |-> dir, tap |-> tap, wait |-> wait]
        prevent   == (TwoTap /\ ~secondTap) \/ delayed \/ corner
    IN [okay |-> ~prevent /\ ~held,
        sw   |-> IF corner \/ (~prevent /\ held) THEN StopSwitch(noted) ELSE noted]

\* isSwitchOkay()
IsSwitchOkay(sw, on, new, dir, inTime, corner, held) ==
    IF new = NoScreen THEN [okay |-> FALSE, sw |-> StopSwitch(sw)]
    ELSE PushAgainst(sw, on, new, dir, inTime, corner, held)

-----------------------------------------------------------------------------
(* Names and the connected screens.                                        *)

NameIn(cfg, s) == IF cfg[rawName[s]] = NoName THEN rawName[s] ELSE cfg[rawName[s]]

GetName(s) == NameIn(config, s)

IsCanonicalName(cfg, n) == cfg[n] = n

Connected == {clients[n] : n \in Names} \ {NoScreen}

\* Mutant of ClientsWithout: the entry of the name stays.
BugKeepEntries(cfg, S) == clients

\* m_clients after removeClient() of the sessions of S that are in m_clientSet:
\* the entry erased is the one of the name they have by now.
ClientsWithout(cfg, S) ==
    [n \in Names |-> IF \E s \in S \cap clientSet : NameIn(cfg, s) = n
                     THEN NoScreen ELSE clients[n]]

\* Mutant of ForceLeaveClients: the primary is not entered.
BugLeaveWithoutEnter(S, sw) ==
    LET focus == IF activeSaver # NoScreen THEN activeSaver ELSE active
    IN /\ active' = IF focus \in S THEN Primary ELSE active
       /\ switch' = sw
       /\ activeSaver' = IF activeSaver \in S THEN NoScreen ELSE activeSaver
       /\ entered' = entered \ S

\* Mutant of ForceLeaveClients: what the screen saver remembers is kept.
BugKeepSaver(S, sw) ==
    /\ active' = IF active \in S THEN Primary ELSE active
    /\ entered' = (entered \ S) \cup (IF active \in S THEN {Primary} ELSE {})
    /\ switch' = sw
    /\ UNCHANGED activeSaver

\* forceLeaveClient() for every session of S.  At most one of them is the one
\* that has the focus, or had it when the screen saver started.
ForceLeaveClients(S, sw) ==
    LET focus == IF activeSaver # NoScreen THEN activeSaver ELSE active
        jump  == focus \in S
    IN /\ active' = IF jump THEN Primary ELSE active
       /\ switch' = IF jump /\ focus = sw.screen THEN StopSwitch(sw) ELSE sw
       /\ activeSaver' = IF activeSaver \in S THEN NoScreen ELSE activeSaver
       /\ entered' = (entered \ S)
                        \cup (IF jump /\ activeSaver = NoScreen THEN {Primary} ELSE {})

\* Mutant of CloseClients: forceLeaveClient() is forgotten.
BugCloseWithoutLeave(cfg, S, sw) ==
    /\ clientSet' = clientSet \ S
    /\ clients' = ClientsWithout(cfg, S)
    /\ oldClients' = oldClients \cup S
    /\ switch' = sw
    /\ UNCHANGED <<active, activeSaver, entered>>

\* closeClient() for every session of S: ask it to hang up and give it 5 s.
CloseClients(cfg, S, sw) ==
    /\ clientSet' = clientSet \ S
    /\ clients' = ClientsWithout(cfg, S)
    /\ oldClients' = oldClients \cup S
    /\ ForceLeaveClients(S, sw)

\* delete client: the proxy is gone, and so are the handlers of what is
\* queued for it.
Delete(s) ==
    /\ stage' = [stage EXCEPT ![s] = "free"]
    /\ hungUp' = hungUp \ {s}
    /\ rawName' = [rawName EXCEPT ![s] = PrimaryName]

\* switchScreen(): leave the active screen and enter dst, unless it is the
\* same, or unless the primary screen cannot be left (canLeave).
SwitchScreen(sw, dst, canLeave) ==
    /\ switch' = StopSwitch(sw)
    /\ IF dst = active \/ (active = Primary /\ ~canLeave)
       THEN UNCHANGED <<active, entered>>
       ELSE /\ active' = dst
            /\ entered' = (entered \ {active}) \cup {dst}

MaySwitch == saverOn => SwitchDuringSaver

\* .on: the cursor is locked to its screen; .disabled: the configuration's
\* option disableLockToScreen, which makes the lock of no effect.
LockStates == [on : BOOLEAN, disabled : BOOLEAN]

-----------------------------------------------------------------------------
Init ==
    /\ config \in {c \in Configs : c[PrimaryName] = PrimaryName}
    /\ rawName = [s \in Screens |-> PrimaryName]
    /\ stage = [s \in Sessions |-> "free"]
    /\ hungUp = {}
    /\ clients = [n \in Names |-> IF n = PrimaryName THEN Primary ELSE NoScreen]
    /\ clientSet = {Primary}
    /\ oldClients = {}
    /\ active = Primary
    /\ activeSaver = NoScreen
    /\ switch = Idle
    /\ lock \in LockStates
    /\ saverOn = FALSE
    /\ entered = {Primary}

\* A peer completed the handshake: ClientListener holds its proxy until the
\* application fetches it.
Handshake(s, n) ==
    /\ stage[s] = "free"
    /\ stage' = [stage EXCEPT ![s] = "waiting"]
    /\ rawName' = [rawName EXCEPT ![s] = n]
    /\ UNCHANGED <<config, hungUp, tableVars, active, activeSaver, switch, lock,
                   saverOn, entered>>

\* The connection of s ends: its proxy queues ClientProxyDisconnected.
HangUp(s) ==
    /\ stage[s] # "free" /\ s \notin hungUp
    /\ hungUp' = hungUp \cup {s}
    /\ UNCHANGED <<config, rawName, stage, tableVars, active, activeSaver, switch,
                   lock, saverOn, entered>>

\* ClientListener::handleClientDisconnected: gone before it was adopted.
DropWaiting(s) ==
    /\ stage[s] = "waiting" /\ s \in hungUp
    /\ Delete(s)
    /\ UNCHANGED <<config, tableVars, active, activeSaver, switch, lock, saverOn,
                   entered>>

\* adoptClient(): refuse a name that is not in the configuration or is the
\* primary's, take over from a session of the same name, and connect.
AdoptClient(s) ==
    LET n == GetName(s)
        old == clients[n]
        takeOver == {old} \ {NoScreen}
        refused == \/ config[rawName[s]] = NoName
                   \/ old = Primary
        full == ClientsWithout(config, takeOver)[n] # NoScreen
    IN /\ stage[s] = "waiting"
       /\ stage' = [stage EXCEPT ![s] = "adopted"]
       /\ \/ refused /\ CloseClients(config, {s}, switch)
          \/ ~refused /\ full /\ CloseClients(config, takeOver \cup {s}, switch)
          \/ /\ ~refused /\ ~full
             /\ clients' = [ClientsWithout(config, takeOver) EXCEPT ![n] = s]
             /\ clientSet' = (clientSet \ takeOver) \cup {s}
             /\ oldClients' = oldClients \cup takeOver
             /\ ForceLeaveClients(takeOver, switch)
       /\ UNCHANGED <<config, rawName, hungUp, lock, saverOn>>

\* handleClientDisconnected(): drop it from both tables.
HandleClientDisconnected(s) ==
    /\ stage[s] = "adopted" /\ s \in hungUp
    /\ IF s \in clientSet
       THEN /\ clientSet' = clientSet \ {s}
            /\ clients' = ClientsWithout(config, {s})
            /\ ForceLeaveClients({s}, switch)
       ELSE UNCHANGED <<clients, clientSet, active, switch, activeSaver, entered>>
    /\ oldClients' = oldClients \ {s}
    /\ Delete(s)
    /\ UNCHANGED <<config, lock, saverOn>>

\* Mutant of HandleClientCloseTimeout: no timer, it waits for the peer.
BugNoCloseTimer(s) ==
    /\ s \in oldClients /\ s \in hungUp
    /\ oldClients' = oldClients \ {s}
    /\ Delete(s)
    /\ UNCHANGED <<config, clients, clientSet, active, activeSaver, switch, lock,
                   saverOn, entered>>

\* handleClientCloseTimeout(): it took too long to hang up.
HandleClientCloseTimeout(s) ==
    /\ s \in oldClients
    /\ oldClients' = oldClients \ {s}
    /\ Delete(s)
    /\ UNCHANGED <<config, clients, clientSet, active, activeSaver, switch, lock,
                   saverOn, entered>>

\* processOptions() restarts the options that are set.
AfterOptions(sw) ==
    [sw EXCEPT !.wait = IF SwitchDelay THEN NoWait ELSE sw.wait,
               !.tap  = IF TwoTap THEN "off" ELSE sw.tap]

\* ServerApp::reloadConfig() and setConfig(): the configuration is read into
\* *m_config first; it is then refused if it lacks the primary screen.  The
\* options may then set disableLockToScreen or clear it, and leave the lock.
Reload(cfg, disabled) ==
    LET dropped == {clients[n] : n \in {m \in Names : ~IsCanonicalName(cfg, m)}}
                       \ {NoScreen, Primary}
    IN /\ config' = cfg
       /\ IF cfg[PrimaryName] = NoName
          THEN UNCHANGED <<tableVars, active, activeSaver, switch, entered, lock>>
          ELSE /\ CloseClients(cfg, dropped, AfterOptions(switch))
               /\ lock' = [lock EXCEPT !.disabled = disabled]
       /\ UNCHANGED <<sessionVars, saverOn>>

\* ServerApp::forceReconnect() and disconnect(): close every client.
Disconnect ==
    /\ clientSet # {Primary} \/ oldClients # {}
    /\ CloseClients(config, Connected \ {Primary}, switch)
    /\ UNCHANGED <<config, sessionVars, lock, saverOn>>

-----------------------------------------------------------------------------
(* Input.                                                                  *)

\* What the pointer reached: no edge (NoPush), or edge dir that maps to
\* screen new.
Pushes(dirs) == [dir : dirs, new : Connected \cup {NoScreen}]
NoPush == [dir |-> NoEdge, new |-> NoScreen]

\* One pass of the loop over the horizontal and the vertical edge.
Try(sw, push, inTime, corner, held) ==
    IF push.dir = NoEdge THEN [okay |-> FALSE, sw |-> sw]
    ELSE IsSwitchOkay(sw, active, push.new, push.dir, inTime, corner, held)

\* onMouseMovePrimary(); a motion that comes when another screen has the focus
\* is stale and ignored.
MouseMovePrimary(h, v, inTime, corner, held, canLeave) ==
    LET first  == Try(switch, h, inTime, corner, held)
        second == Try(first.sw, v, inTime, corner, held)
    IN /\ active = Primary /\ MaySwitch
       /\ IF h.dir = NoEdge /\ v.dir = NoEdge
          THEN switch' \in NoSwitchOutcomes(switch) /\ UNCHANGED <<active, entered>>
          ELSE \/ first.okay /\ SwitchScreen(first.sw, h.new, canLeave)
               \/ ~first.okay /\ second.okay /\ SwitchScreen(second.sw, v.new, canLeave)
               \/ /\ ~first.okay /\ ~second.okay
                  /\ switch' = second.sw
                  /\ UNCHANGED <<active, entered>>
       /\ UNCHANGED <<config, sessionVars, tableVars, activeSaver, lock, saverOn>>

\* onMouseMoveSecondary(): the primary reports motion, the pointer is on a
\* client.  Inside that screen only a pending switch can be affected.
MouseMoveSecondary(push, inTime, corner, held) ==
    LET tried == Try(switch, push, inTime, corner, held)
    IN /\ active # Primary /\ MaySwitch
       /\ IF push.dir = NoEdge
          THEN /\ switch.screen # NoScreen
               /\ switch' \in NoSwitchOutcomes(switch)
               /\ UNCHANGED <<active, entered>>
          ELSE IF tried.okay
               THEN SwitchScreen(tried.sw, push.new, TRUE)
               ELSE switch' = tried.sw /\ UNCHANGED <<active, entered>>
       /\ UNCHANGED <<config, sessionVars, tableVars, activeSaver, lock, saverOn>>

\* Mutant of SwitchWaitTimeout: the lock is not looked at.
BugTimeoutWhenLocked(held, canLeave) ==
    /\ Waiting(switch) /\ MaySwitch
    /\ SwitchScreen(switch, switch.screen, canLeave)
    /\ UNCHANGED <<config, sessionVars, tableVars, activeSaver, lock, saverOn>>

\* handleSwitchWaitTimeout()
SwitchWaitTimeout(held, canLeave) ==
    /\ Waiting(switch) /\ MaySwitch
    /\ IF held
       THEN switch' = StopSwitch(switch) /\ UNCHANGED <<active, entered>>
       ELSE SwitchScreen(switch, switch.screen, canLeave)
    /\ UNCHANGED <<config, sessionVars, tableVars, activeSaver, lock, saverOn>>

\* The hotkeys that jump to a screen, in a direction or to the next screen.
JumpToScreen(dst, canLeave) ==
    /\ MaySwitch
    /\ SwitchScreen(switch, dst, canLeave)
    /\ UNCHANGED <<config, sessionVars, tableVars, activeSaver, lock, saverOn>>

\* handleLockCursorToScreenEvent()
LockCursorToScreen(on) ==
    /\ lock' = [lock EXCEPT !.on = on]
    /\ UNCHANGED <<config, sessionVars, tableVars, active, activeSaver, switch,
                   saverOn, entered>>

\* onScreensaver(true): remember the screen that has the focus, go home.
SaverActivated ==
    /\ ~saverOn /\ saverOn' = TRUE
    /\ activeSaver' = active
    /\ IF active # Primary THEN SwitchScreen(switch, Primary, TRUE)
       ELSE UNCHANGED <<active, switch, entered>>
    /\ UNCHANGED <<config, sessionVars, tableVars, lock>>

\* onScreensaver(false): go back to it, if it is still there.
SaverDeactivated(canLeave) ==
    /\ saverOn /\ saverOn' = FALSE
    /\ activeSaver' = NoScreen
    /\ IF activeSaver \notin {NoScreen, Primary}
       THEN SwitchScreen(switch, activeSaver, canLeave)
       ELSE UNCHANGED <<active, switch, entered>>
    /\ UNCHANGED <<config, sessionVars, tableVars, lock>>

SessionEvents == \E s \in Sessions :
    \/ \E n \in Names : Handshake(s, n)
    \/ HangUp(s)
    \/ DropWaiting(s)
    \/ AdoptClient(s)
    \/ HandleClientDisconnected(s)
    \/ HandleClientCloseTimeout(s)

Admin ==
    \/ \E cfg \in Configs, disabled \in BOOLEAN : Reload(cfg, disabled)
    \/ Disconnect

\* isLockedToScreen(): never once the option disables it, otherwise when the
\* lock is on or, whatever the lock, when a mouse button is down.
Held == IF lock.disabled THEN {FALSE} ELSE {lock.on, TRUE}

\* Only the primary can fail to be left.
PointerMotion == \E held \in Held, canLeave \in {TRUE, active # Primary} :
    \/ \E inTime \in {FALSE, TwoTap}, corner \in BOOLEAN :
        \/ \E h \in Pushes(HEdges) \cup {NoPush}, v \in Pushes(VEdges) \cup {NoPush} :
               MouseMovePrimary(h, v, inTime, corner, held, canLeave)
        \/ \E push \in Pushes(Edges) \cup {NoPush} :
               MouseMoveSecondary(push, inTime, corner, held)
    \/ SwitchWaitTimeout(held, canLeave)

Hotkeys ==
    \/ \E dst \in Connected, canLeave \in {TRUE, active # Primary} : JumpToScreen(dst, canLeave)
    \/ \E on \in BOOLEAN : LockCursorToScreen(on)

Saver ==
    \/ SaverActivated
    \/ \E canLeave \in BOOLEAN : SaverDeactivated(canLeave)

Next == SessionEvents \/ Admin \/ PointerMotion \/ Hotkeys \/ Saver

Spec == Init /\ [][Next]_vars

\* The event loop dispatches what is queued and the timers that expire.
Fairness == \A s \in Sessions :
    /\ WF_vars(DropWaiting(s))
    /\ WF_vars(AdoptClient(s))
    /\ WF_vars(HandleClientDisconnected(s))
    /\ WF_vars(HandleClientCloseTimeout(s))

FairSpec == Spec /\ Fairness

-----------------------------------------------------------------------------
(* Properties.                                                             *)

SwitchStates ==
    [screen : Screens \cup {NoScreen}, dir : Edges \cup {NoEdge},
     tap : {"off", "engaged", "armed"},
     wait : [on : Screens \cup {NoScreen}, to : Screens \cup {NoScreen}]]

\* Every variable has its type.
TypeOK ==
    /\ config \in Configs
    /\ rawName \in [Screens -> Names]
    /\ stage \in [Sessions -> {"free", "waiting", "adopted"}]
    /\ hungUp \subseteq Sessions
    /\ clients \in [Names -> Screens \cup {NoScreen}]
    /\ clientSet \subseteq Screens
    /\ oldClients \subseteq Sessions
    /\ active \in Screens
    /\ activeSaver \in Screens \cup {NoScreen}
    /\ switch \in SwitchStates
    /\ lock \in LockStates
    /\ saverOn \in BOOLEAN
    /\ entered \subseteq Screens

\* The server's two tables, by name and by proxy, hold the same screens, each
\* under the name it now has; a closing proxy is in neither; every proxy in a
\* table exists, and no adopted proxy is forgotten.  (addClient,
\* removeClient, closeClient: a table that lost an entry would leak a proxy
\* or send a name's traffic to a deleted one.)
TablesAgree ==
    /\ Connected = clientSet
    /\ \A n \in Names : clients[n] # NoScreen => GetName(clients[n]) = n
    /\ Primary \in clientSet
    /\ clientSet \cap oldClients = {}
    /\ (clientSet \cup oldClients) \ {Primary} = {s \in Sessions : stage[s] = "adopted"}

\* The screen with the focus is connected: Server.h calls m_active "the
\* client with focus", and closeClient says "if this client is the active
\* screen then we have to jump off of it".
FocusIsConnected == active \in clientSet

\* Exactly the screen with the focus has been entered: the primary's input
\* is captured if and only if a client has the focus, and of the clients
\* only that one has been told to show the pointer.  (switchScreen,
\* forceLeaveClient, onScreensaver.)
OnlyFocusIsEntered == entered = {active}

\* The screen the screen saver will return the focus to is connected.
\* (forceLeaveClient: "then we can't switch back to it".)
SaverReturnsToConnected == activeSaver # NoScreen => activeSaver \in clientSet

\* A switch that waits for its delay belongs to the edge the pointer stays on:
\* the wait was begun on the screen that has the focus, and will end on the
\* screen that lies behind that edge.  (docs/Configuration.md, switchDelay: no
\* switch "unless it stays on the edge for N milliseconds".)  It does not hold:
\* noSwitch() and processOptions() stop the timer and keep the screen.
WaitIsCurrent ==
    Waiting(switch) => switch.wait.on = active /\ switch.screen = switch.wait.to

\* While the cursor is locked to its screen no pointer motion and no expired
\* delay moves the focus; only a hotkey, the screen saver or the loss of the
\* screen does.  (isSwitchOkay, handleSwitchWaitTimeout.)
LockHoldsPointer ==
    [][lock.on /\ ~lock.disabled /\ active' # active => ~PointerMotion]_vars

\* A proxy whose peer hung up, and one that was told to close, is deleted in
\* the end.  (handleClientDisconnected, handleClientCloseTimeout.)
SessionsEnd ==
    \A s \in Sessions : (s \in hungUp \/ s \in oldClients) ~> (stage[s] = "free")

=============================================================================
