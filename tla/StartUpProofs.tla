----------------------------- MODULE StartUpProofs -----------------------------
(***************************************************************************)
(* Proofs about StartUp, for any number of processes and ports.            *)
(***************************************************************************)
EXTENDS StartUp, TLAPS

\* Unless somebody came in between, no other program has the port that a developer
\* has settled for.  A probe has the port it asked for.  Who has not failed over a
\* port has nobody to blame.
PortsAreChosen ==
    /\ \A p \in Development \ intruded :
          pc[p] \in {"connect", "listen"} /\ port[p] \in Port => listener[port[p]] # Foreign
    /\ \A p \in Process :
          pc[p] = "close" /\ port[p] \in Port => listener[port[p]] = p
    /\ \A p \in Process : pc[p] # "taken" => culprit[p] = None

StartUpInv ==
    StartUpTypeOK /\ PortsAreReleased /\ PortsAreChosen /\ OnlyTheGapIsLost /\ SomebodyServes

\* Every process is idle at first, and only other programs listen.
LEMMA StartUpInvInit == Init => StartUpInv
<1> SUFFICES ASSUME Init PROVE StartUpInv
    OBVIOUS
<1> USE PortsAreNumbers, DevelopersAreProcesses, ForeignIsForeign DEF Init, Port
<1>1. StartUpTypeOK
    BY DEF StartUpTypeOK, Starting, Ended
<1>2. PortsAreReleased
    BY DEF PortsAreReleased
<1>3. PortsAreChosen
    BY DEF PortsAreChosen
<1>4. OnlyTheGapIsLost /\ SomebodyServes
    BY DEF OnlyTheGapIsLost, SomebodyServes, PortsAreChosen
<1> QED BY <1>1, <1>2, <1>3, <1>4 DEF StartUpInv

\* What a listen of p takes is a port of its own that nobody had.
LEMMA ListensLemma ==
    ASSUME StartUpTypeOK, NEW p \in Process, Listens(p), port[p] <= MaxPort
    PROVE  /\ listener' \in [Port -> Process \cup {None, Foreign}]
           /\ port[p] \in 0..MaxPort
           /\ port[p] \in Port => listener'[port[p]] = p
           /\ \A q \in Port : listener'[q] # listener[q] =>
                 listener[q] = None /\ listener'[q] = p /\ port[p] \in {0, q}
<1>1. PICK q \in FreeFor(p) : listener' = [listener EXCEPT ![q] = p]
    BY DEF Listens
<1>2. q \in Port /\ listener[q] = None /\ port[p] \in {0, q}
    BY <1>1 DEF FreeFor
<1> QED BY <1>1, <1>2, PortsAreNumbers DEF StartUpTypeOK, Port

\* The invariant survives whatever one process does.
LEMMA ProcessKeepsInv ==
    ASSUME StartUpInv, NEW p \in Process, Launch(p) \/ Proceed(p) \/ Connect(p) \/ Stop(p)
    PROVE  StartUpInv'
<1> USE PortsAreNumbers, DevelopersAreProcesses, ForeignIsForeign
        DEF StartUpInv, StartUpTypeOK, PortsAreReleased, PortsAreChosen, OnlyTheGapIsLost,
            SomebodyServes, Goto, Starting, Ended, history
<1>1. CASE Launch(p)
    BY <1>1 DEF Launch
<1>2. CASE NewConfig(p)
    BY <1>2 DEF NewConfig
<1>3. CASE Probe(p)
    BY <1>3, ListensLemma DEF Probe
<1>4. CASE ProbeNext(p)
    BY <1>4 DEF ProbeNext
<1>5. CASE NoPort(p)
    BY <1>5 DEF NoPort
<1>6. CASE Close(p)
    BY <1>6 DEF Close, Released, Port
<1>7. CASE Connect(p)
    BY <1>7 DEF Connect
<1>8. CASE Serve(p)
    <2>1. port[p] <= MaxPort
        BY <1>8 DEF Serve, Listens, FreeFor, Port
    <2> QED BY <1>8, <2>1, ListensLemma DEF Serve
<1>9. CASE Taken(p)
    BY <1>9 DEF Taken, Released
<1>10. CASE Stop(p)
    BY <1>10 DEF Stop, Released
<1> QED
    BY <1>1, <1>2, <1>3, <1>4, <1>5, <1>6, <1>7, <1>8, <1>9, <1>10 DEF Proceed

\* And whatever other programs do.
LEMMA OthersKeepInv ==
    ASSUME StartUpInv, NEW q \in Port, Come(q) \/ Leave(q)
    PROVE  StartUpInv'
<1> USE PortsAreNumbers, DevelopersAreProcesses, ForeignIsForeign
        DEF StartUpInv, StartUpTypeOK, PortsAreReleased, PortsAreChosen, OnlyTheGapIsLost,
            SomebodyServes, history
<1>1. CASE Come(q)
    BY <1>1 DEF Come
<1>2. CASE Leave(q)
    BY <1>2 DEF Leave
<1> QED BY <1>1, <1>2

\* The inductive invariant of StartUp.
THEOREM StartUpInvariance == Spec => []StartUpInv
<1>1. StartUpInv /\ [Next]_vars => StartUpInv'
    <2> SUFFICES ASSUME StartUpInv, [Next]_vars PROVE StartUpInv'
        OBVIOUS
    <2>1. CASE Next
        BY <2>1, ProcessKeepsInv, OthersKeepInv DEF Next
    <2>2. CASE UNCHANGED vars
        BY <2>2 DEF vars, history, StartUpInv, StartUpTypeOK, PortsAreReleased, PortsAreChosen,
                    OnlyTheGapIsLost, SomebodyServes
    <2> QED BY <2>1, <2>2
<1> QED BY <1>1, StartUpInvInit, PTL DEF Spec

\* The variables of StartUp keep their types: nobody serves on a port out of range.
THEOREM StartUpTypeCorrect == Spec => []StartUpTypeOK
BY StartUpInvariance, PTL DEF StartUpInv

\* A listener of this program serves or is about to be closed, for good.
THEOREM ProbesLetGo == Spec => []PortsAreReleased
BY StartUpInvariance, PTL DEF StartUpInv

\* Other programs come between a developer and its port in the gap only.
THEOREM GapOnly == Spec => []OnlyTheGapIsLost
BY StartUpInvariance, PTL DEF StartUpInv

\* However many servers start at once, they do not all fail over each other.
THEOREM NotAllFail == Spec => []SomebodyServes
BY StartUpInvariance, PTL DEF StartUpInv
=============================================================================
