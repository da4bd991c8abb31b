------------------------------- MODULE StartUp --------------------------------
(***************************************************************************)
(* Starting the program: main, configs.NewConfig, app.New and Server.Run,  *)
(* in several processes on one host.                                       *)
(*                                                                         *)
(* In development listenFromPort looks for a free port, from the           *)
(* configured one upwards: it listens, and if that works it closes the     *)
(* listener again and keeps the number.  The server listens on it later,   *)
(* when the database has answered; in the meantime anybody can take it,    *)
(* and the probe of one process keeps the port from another.  Programs     *)
(* that have nothing to do with this one come and go.                      *)
(***************************************************************************)
EXTENDS Integers

CONSTANTS
    Process,
    Development,    \* the processes with ENVIRONMENT=development
    ApiPort,        \* the values API_PORT may have, sensible or not
    MaxPort,        \* the greatest port number
    None,
    Foreign         \* any program that has nothing to do with these

Port == 1..MaxPort

ASSUME PortsAreNumbers == ApiPort \subseteq Int /\ MaxPort \in Nat
ASSUME DevelopersAreProcesses == Development \subseteq Process /\ Process # {}
ASSUME ForeignIsForeign == {None, Foreign} \cap Process = {} /\ None # Foreign

VARIABLES
    listener,   \* who listens on a port: a process, Foreign or None
    pc,
    port,       \* API.Port of a process: the port it is at or has settled for
    culprit,    \* history: who had the port when the process wanted to serve
    intruded    \* history: processes whose port a foreign program took since they
                \* settled for it

history == <<culprit, intruded>>
vars == <<listener, pc, port, history>>

\* How a process ends: it was stopped or had some other error; its probes found no
\* port; or the port was not to be had when it wanted to serve.
Ended == {"stopped", "noport", "taken"}
Starting == {"config", "probe", "close", "connect", "listen"}

StartUpTypeOK ==
    /\ listener \in [Port -> Process \cup {None, Foreign}]
    /\ pc \in [Process -> {"off", "serving"} \cup Starting \cup Ended]
    /\ port \in [Process -> Int]
    /\ culprit \in [Process -> Process \cup {None, Foreign}]
    /\ intruded \subseteq Process
    /\ \A p \in Process : pc[p] \in {"close", "serving"} => port[p] \in 0..MaxPort

Init ==
    /\ listener \in [Port -> {None, Foreign}]
    /\ pc = [p \in Process |-> "off"]
    /\ port \in [Process -> ApiPort]
    /\ culprit = [p \in Process |-> None]
    /\ intruded = {}

-----------------------------------------------------------------------------
Goto(p, label) == pc' = [pc EXCEPT ![p] = label]

\* The listeners of a process go when it ends.
Released(p) == [q \in Port |-> IF listener[q] = p THEN None ELSE listener[q]]

\* The ports net.Listen may give the process: the one asked for, or, if that is 0,
\* whichever is free.
FreeFor(p) == {q \in Port : listener[q] = None /\ port[p] \in {0, q}}

Listens(p) == \E q \in FreeFor(p) : listener' = [listener EXCEPT ![q] = p]

Launch(p) ==
    /\ pc[p] = "off"
    /\ Goto(p, "config")
    /\ UNCHANGED <<listener, port, history>>

\* NewConfig reads the environment; only in development it looks for a port.
NewConfig(p) ==
    /\ pc[p] = "config"
    /\ Goto(p, IF p \in Development THEN "probe" ELSE "connect")
    /\ UNCHANGED <<listener, port, history>>

\* listenFromPort: net.Listen works ...
Probe(p) ==
    /\ pc[p] = "probe"
    /\ port[p] <= MaxPort
    /\ Listens(p)
    /\ Goto(p, "close")
    /\ UNCHANGED <<port, history>>

\* Mutant of ProbeNext: *net.OpError is taken for success.
MutantTakenIsFine(p) ==
    /\ pc[p] = "probe"
    /\ port[p] <= MaxPort
    /\ FreeFor(p) = {}
    /\ Goto(p, "connect")
    /\ UNCHANGED <<listener, port, history>>

\* ... or the port is somebody's, perhaps for the moment of a probe only, or no
\* port at all: *net.OpError.
ProbeNext(p) ==
    /\ pc[p] = "probe"
    /\ port[p] <= MaxPort
    /\ FreeFor(p) = {}
    /\ port' = [port EXCEPT ![p] = @ + 1]
    /\ UNCHANGED <<listener, pc, history>>

\* Mutant of NoPort: port++ has no end.
MutantEndless(p) ==
    /\ pc[p] = "probe"
    /\ port[p] > MaxPort
    /\ port' = [port EXCEPT ![p] = 1]
    /\ UNCHANGED <<listener, pc, history>>

\* "no available port found": log.Fatal.
NoPort(p) ==
    /\ pc[p] = "probe"
    /\ port[p] > MaxPort
    /\ Goto(p, "noport")
    /\ UNCHANGED <<listener, port, history>>

\* Mutant of Close: the listener of the probe stays open.
MutantNoClose(p) ==
    /\ pc[p] = "close"
    /\ Goto(p, "connect")
    /\ UNCHANGED <<listener, port, history>>

Close(p) ==
    /\ pc[p] = "close"
    /\ listener' = Released(p)
    /\ Goto(p, "connect")
    /\ UNCHANGED <<port, history>>

\* app.New: the database answers the ping (if it says no: Stop).
Connect(p) ==
    /\ pc[p] = "connect"
    /\ Goto(p, "listen")
    /\ UNCHANGED <<listener, port, history>>

\* Server.Run, ListenAndServe.
Serve(p) ==
    /\ pc[p] = "listen"
    /\ Listens(p)
    /\ Goto(p, "serving")
    /\ UNCHANGED <<port, history>>

\* It fails at once when there is no such port or it is taken: log.Fatal.
Taken(p) ==
    /\ pc[p] = "listen"
    /\ FreeFor(p) = {}
    /\ listener' = Released(p)
    /\ Goto(p, "taken")
    /\ culprit' = [culprit EXCEPT ![p] = IF port[p] \in Port THEN listener[port[p]] ELSE None]
    /\ UNCHANGED <<port, intruded>>

\* Any other error, each of which is fatal, or somebody stops the process.
Stop(p) ==
    /\ pc[p] \in Starting \cup {"serving"}
    /\ listener' = Released(p)
    /\ Goto(p, "stopped")
    /\ UNCHANGED <<port, history>>

Proceed(p) ==
    \/ NewConfig(p)
    \/ Probe(p)
    \/ ProbeNext(p)
    \/ NoPort(p)
    \/ Close(p)
    \/ Serve(p)
    \/ Taken(p)

-----------------------------------------------------------------------------
\* A foreign program begins to listen, perhaps between a probe and its server ...
Come(q) ==
    /\ listener[q] = None
    /\ listener' = [listener EXCEPT ![q] = Foreign]
    /\ intruded' = intruded \cup {p \in Process : port[p] = q /\ pc[p] \in {"connect", "listen"}}
    /\ UNCHANGED <<pc, port, culprit>>

\* ... or ends.
Leave(q) ==
    /\ listener[q] = Foreign
    /\ listener' = [listener EXCEPT ![q] = None]
    /\ UNCHANGED <<pc, port, history>>

Next ==
    \/ \E p \in Process : Launch(p) \/ Proceed(p) \/ Connect(p) \/ Stop(p)
    \/ \E q \in Port : Come(q) \/ Leave(q)

\* A process runs once it is launched.  That the database answers is not asked:
\* db.Ping has no deadline.
Spec == Init /\ [][Next]_vars /\ \A p \in Process : WF_vars(Proceed(p))

-----------------------------------------------------------------------------
\* A port that was free when it was probed may be taken when it is needed, and a
\* probe may be what takes it.  But servers that start together never all fail
\* over each other: if none of them gets its port, one has not got it because of
\* a foreign program, or because it is no port.
SomebodyServes == \E p \in Process : pc[p] # "taken" \/ culprit[p] \notin Process

\* The gap between the probe and ListenAndServe is all that a developer can lose
\* to other programs: one whose port is foreign in the end had found it free, and
\* somebody came in between.
OnlyTheGapIsLost ==
    \A p \in Development : culprit[p] = Foreign => p \in intruded

\* Only servers hold ports for good: whoever probed has let go, so a port is kept
\* from a process by another program, by a server that serves, or by a probe that
\* is about to end; never by the process itself.
PortsAreReleased ==
    \A q \in Port : listener[q] \in Process =>
        pc[listener[q]] \in {"close", "serving"} /\ port[listener[q]] \in {0, q}

\* Starting comes to an end, before the database is asked and after it has answered:
\* the process serves or is gone, however many ports are taken and whoever takes and
\* releases them meanwhile, whatever API_PORT says.
ServesOrEnds ==
    \A p \in Process :
        pc[p] \in Starting \ {"connect"} ~> pc[p] \in {"connect", "serving"} \cup Ended
=============================================================================
