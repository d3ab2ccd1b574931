--------------------------- MODULE SyncEngineLoop ---------------------------
(***************************************************************************)
(* The background loop of the engine of a till, and the session that       *)
(* starts and stops it: SyncEngine.start, stop and syncOnce                *)
(* (apps/desktop/src/core/sync/engine.ts), signInWithPin and signOut       *)
(* (apps/desktop/src/app/SessionProvider.tsx), and the buttons that ask    *)
(* for a cycle.  What a cycle does is in SyncProtocol; here it only begins *)
(* and ends.                                                               *)
(*                                                                         *)
(* JavaScript runs one callback at a time: a step is what happens between  *)
(* two awaits.  Every session has an engine of its own; an engine that was *)
(* stopped in the middle of a cycle still finishes it.                     *)
(***************************************************************************)
EXTENDS Naturals

CONSTANTS
    MaxEngines, \* bound: sessions opened in a behaviour
    MaxDbFaults \* bound: local statements that fail

ASSUME LoopAssumption == MaxEngines \in Nat \ {0} /\ MaxDbFaults \in Nat

VARIABLES
    ready,    \* whether a session is open on the screen
    opening,  \* sign-ins that have opened it and not yet made their engine
    current,  \* the engine of the session, None before there is one
    made,     \* engines made
    timer,    \* whether the loop of an engine has a timer armed
    tick,     \* whether its loop is in a tick
    mine,     \* whether the cycle in progress is that tick's
    phase,    \* where its cycle is
    dbFaults

vars == <<ready, opening, current, made, timer, tick, mine, phase, dbFaults>>
loopVars == <<timer, tick, mine, phase>>
sessionVars == <<ready, opening, current, made>>

Engine == 1..MaxEngines
None == 0
\* `running` holds outside "idle"; "stuck" is a cycle that left it set.
Phases == {"idle", "opening", "working", "closing", "caught", "stuck"}

Init ==
    /\ ready = FALSE
    /\ opening = 0
    /\ current = None
    /\ made = 0
    /\ timer = [e \in Engine |-> FALSE]
    /\ tick = [e \in Engine |-> FALSE]
    /\ mine = [e \in Engine |-> FALSE]
    /\ phase = [e \in Engine |-> "idle"]
    /\ dbFaults = 0

Fault == dbFaults < MaxDbFaults /\ dbFaults' = dbFaults + 1

-----------------------------------------------------------------------------
(* The session.                                                             *)

\* The right PIN opens the workspace at once; the engine comes after the mode of
\* the till has been read.
SignIn ==
    /\ ~ready
    /\ made + opening < MaxEngines
    /\ ready' = TRUE
    /\ opening' = opening + 1
    /\ UNCHANGED <<current, made, loopVars, dbFaults>>

Opening == opening > 0

\* The engine is made, started and shown, whatever became of the session.
StartEngine ==
    /\ Opening
    /\ opening' = opening - 1
    /\ made' = made + 1
    /\ current' = made + 1
    /\ timer' = [timer EXCEPT ![made + 1] = TRUE]
    /\ UNCHANGED <<ready, tick, mine, phase, dbFaults>>

\* The mode could not be read: an error shows, and there is no engine.
StartFails ==
    /\ opening > 0
    /\ Fault
    /\ opening' = opening - 1
    /\ UNCHANGED <<ready, current, made, loopVars>>

\* The timer of the engine is cleared; nothing stops a tick in progress.
SignOut ==
    /\ ready
    /\ ready' = FALSE
    /\ current' = None
    /\ timer' = [e \in Engine |-> timer[e] /\ e # current]
    /\ UNCHANGED <<opening, made, tick, mine, phase, dbFaults>>

-----------------------------------------------------------------------------
(* The loop.                                                                *)

\* Seeded fault: the timer is one that repeats.
FiredRepeats(e) == timer[e] /\ UNCHANGED timer
Fired(e) == timer[e] /\ timer' = [timer EXCEPT ![e] = FALSE]

\* The timer goes off.  A tick that finds a cycle in progress does nothing.
Tick(e) ==
    /\ Fired(e)
    /\ tick' = [tick EXCEPT ![e] = TRUE]
    /\ IF phase[e] = "idle"
       THEN /\ phase' = [phase EXCEPT ![e] = "opening"]
            /\ mine' = [mine EXCEPT ![e] = TRUE]
       ELSE UNCHANGED <<phase, mine>>
    /\ UNCHANGED <<sessionVars, dbFaults>>

\* Seeded fault: the timer is armed again only by the tick whose cycle it was.
AwaitedOwn(e) == mine[e] /\ phase[e] = "idle"
\* The tick has its report: from its own cycle, or at once from another's.
Awaited(e) == mine[e] => phase[e] = "idle"

Rearm(e) ==
    /\ tick[e] /\ Awaited(e)
    /\ tick' = [tick EXCEPT ![e] = FALSE]
    /\ mine' = [mine EXCEPT ![e] = FALSE]
    /\ timer' = [timer EXCEPT ![e] = TRUE]
    /\ UNCHANGED <<sessionVars, phase, dbFaults>>

\* The badge, a sale or a settled conflict asks for a cycle.
Asked(e) == e = current /\ phase[e] = "idle"

SyncNow(e) ==
    /\ Asked(e)
    /\ phase' = [phase EXCEPT ![e] = "opening"]
    /\ UNCHANGED <<sessionVars, timer, tick, mine, dbFaults>>

-----------------------------------------------------------------------------
(* A cycle.                                                                 *)

At(e, from, to) == phase[e] = from /\ phase' = [phase EXCEPT ![e] = to]

\* An exception leaves syncOnce: the tick that waited for it ends there.
Throws(e) ==
    /\ tick' = [tick EXCEPT ![e] = tick[e] /\ ~mine[e]]
    /\ mine' = [mine EXCEPT ![e] = FALSE]

\* The counters are read, and the badge says that a cycle is on.
Opened(e) == At(e, "opening", "working") /\ UNCHANGED <<sessionVars, timer, tick, mine, dbFaults>>

\* They cannot be read: that is before the `try`, and `running` stays set.
OpeningFails(e) ==
    /\ At(e, "opening", "stuck")
    /\ Fault
    /\ Throws(e)
    /\ UNCHANGED <<sessionVars, timer>>

\* The push and the pull end, or something in them throws and is caught.
Worked(e) == At(e, "working", "closing") /\ UNCHANGED <<sessionVars, timer, tick, mine, dbFaults>>
WorkFails(e) == At(e, "working", "caught") /\ UNCHANGED <<sessionVars, timer, tick, mine, dbFaults>>

\* The report is shown, and `running` is cleared.
Closed(e) ==
    /\ At(e, "closing", "idle") \/ At(e, "caught", "idle")
    /\ UNCHANGED <<sessionVars, timer, tick, mine, dbFaults>>

\* It cannot be: once that is caught as well, twice it leaves syncOnce.
ClosingFails(e) ==
    /\ Fault
    /\ \/ At(e, "closing", "caught") /\ UNCHANGED <<tick, mine>>
       \/ At(e, "caught", "idle") /\ Throws(e)
    /\ UNCHANGED <<sessionVars, timer>>

Session == SignIn \/ StartEngine \/ StartFails \/ SignOut
Timer(e) == Tick(e) \/ Rearm(e)
Cycle(e) == Opened(e) \/ Worked(e) \/ WorkFails(e) \/ Closed(e)
Faulty(e) == OpeningFails(e) \/ ClosingFails(e)

Next == Session \/ \E e \in Engine : Timer(e) \/ Cycle(e) \/ SyncNow(e) \/ Faulty(e)

Spec == Init /\ [][Next]_vars

\* Timers go off and awaited calls return: every request has a timeout
\* (core/api/client.ts:72).  Nobody has to sign in, to ask or to sign out.
FairSpec ==
    /\ Spec
    /\ WF_vars(StartEngine)
    /\ \A e \in Engine : WF_vars(Timer(e)) /\ WF_vars(Cycle(e))

-----------------------------------------------------------------------------
\* Every variable has its type.
TypeOK ==
    /\ ready \in BOOLEAN
    /\ opening \in 0..MaxEngines
    /\ current \in Engine \cup {None}
    /\ made \in 0..MaxEngines
    /\ timer \in [Engine -> BOOLEAN]
    /\ tick \in [Engine -> BOOLEAN]
    /\ mine \in [Engine -> BOOLEAN]
    /\ phase \in [Engine -> Phases]
    /\ dbFaults \in 0..MaxDbFaults

\* An engine has one loop: never a timer armed while a tick is still to arm one,
\* so that manual cycles and late reports never multiply the cycles.  A tick
\* that owns a cycle is there to see it end.
OneLoop ==
    \A e \in Engine :
        /\ ~(timer[e] /\ tick[e])
        /\ mine[e] => tick[e]
        /\ e > made => ~timer[e] /\ ~tick[e] /\ phase[e] = "idle"

\* A session that stays open keeps synchronising, whatever the network does and however
\* the cashier asks for cycles or signs out, as long as the local database answers
\* ("un echec la fait simplement reessayer", SessionProvider.tsx:217).
Tries(e) == <>[](current = e) => []<>(phase[e] = "working")
HealthyKeepsTrying == [](dbFaults = 0) => \A e \in Engine : Tries(e)

=============================================================================
