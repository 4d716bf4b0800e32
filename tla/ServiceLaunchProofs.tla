-------------------------- MODULE ServiceLaunchProofs --------------------------
(***************************************************************************)
(* Proofs about ServiceLaunch, for every set of services and ports, every  *)
(* use of the port templates, and any number of setup commands and faults. *)
(***************************************************************************)
EXTENDS ServiceLaunch, SequenceTheorems, TLAPS

-----------------------------------------------------------------------------
(* The indices of getFreePorts. *)

\* Three ports are a sequence of three.
LEMMA ThreePorts ==
    ASSUME NEW S, NEW t \in [1..3 -> S]
    PROVE  t \in Seq(S) /\ Len(t) = 3
<1>1. t \in Seq(S)
    BY SeqDef
<1>2. 1..Len(t) = 1..3 /\ Len(t) \in Nat
    BY <1>1, LenProperties
<1> QED
    BY <1>1, <1>2

\* Where the ports of a concatenation come from.
LEMMA SixPorts ==
    ASSUME NEW t \in Seq(Number), NEW u \in Seq(Number), Len(t) = 3, Len(u) = 3
    PROVE  \A i \in 1..6 : (t \o u)[i] = IF i <= 3 THEN t[i] ELSE u[i - 3]
<1>1. \A i \in 1..Len(t) + Len(u) :
          (t \o u)[i] = IF i <= Len(t) THEN t[i] ELSE u[i - Len(t)]
    BY ConcatProperties
<1>2. Len(t) + Len(u) = 6
    OBVIOUS
<1> QED
    BY <1>1, <1>2

\* What a template is given is a port of the pool, or nothing.
LEMMA PoolPorts ==
    ASSUME NEW avail \in Pools, NEW n \in TcpNames \cup UdpNames
    PROVE  DynamicPorts(avail)[n] \in Number \cup {None}
<1>1. PICK tcp \in {t \in [1..3 -> TcpPort] : \A i, j \in 1..3 : i # j => t[i] # t[j]},
           udp \in [1..3 -> UdpPort] : avail = tcp \o udp
    BY DEF Pools
<1>2. tcp \in Seq(Number) /\ Len(tcp) = 3 /\ udp \in Seq(Number) /\ Len(udp) = 3
    BY ThreePorts, SeqMonotonic DEF Number
<1>3. \A i \in 1..6 : avail[i] = IF i <= 3 THEN tcp[i] ELSE udp[i - 3]
  <2>1. \A i \in 1..6 : (tcp \o udp)[i] = IF i <= 3 THEN tcp[i] ELSE udp[i - 3]
      BY <1>2, SixPorts
  <2> QED
      BY <1>1, <2>1
<1>4. \A i \in 1..6 : avail[i] \in Number
    BY <1>3 DEF Number
<1> QED
    BY <1>4 DEF DynamicPorts, TcpNames, UdpNames

\* What a render gives a service.
LEMMA RenderedPorts ==
    ASSUME NEW s \in Service, NEW rendered \in Rendered[s]
    PROVE  rendered \in [Uses[s] -> Number \cup {None}]
<1>1. PICK avail \in Pools : rendered = [n \in Uses[s] |-> DynamicPorts(avail)[n]]
    BY DEF Rendered
<1>2. Uses[s] \subseteq TcpNames \cup UdpNames
    BY UseAssumption
<1> QED
    BY <1>1, <1>2, PoolPorts

-----------------------------------------------------------------------------
(* Type correctness. *)

\* What is kept of the services is kept for the services.
Typed ==
    /\ TypeOK
    /\ ports = [s \in Service |-> ports[s]]
    /\ setup = [s \in Service |-> setup[s]]
    /\ effect = [s \in Service |-> effect[s]]

\* The typing of all variables is inductive by itself.
LEMMA TypeStep == Typed /\ [Next]_vars => Typed'
<1> SUFFICES ASSUME Typed, [Next]_vars PROVE Typed'
    OBVIOUS
<1> USE DEF Typed, TypeOK
<1>1. ASSUME NEW kind, Injects(kind) PROVE faults' \in 0..MaxFaults
    BY <1>1, FaultAssumption DEF Injects
<1>2. ASSUME NEW s \in Service, RenderService(s)
      PROVE  /\ ports' = [t \in Service |-> ports'[t]]
             /\ \A t \in Service : ports'[t] \in [Uses[t] -> Number \cup {None}]
             /\ faults' \in 0..MaxFaults
  <2>1. PICK rendered \in Rendered[s] :
            /\ ports' = [ports EXCEPT ![s] = rendered]
            /\ UNCHANGED faults \/ Injects("coincide")
      BY <1>2 DEF RenderService
  <2>2. rendered \in [Uses[s] -> Number \cup {None}]
      BY RenderedPorts
  <2> QED
      BY <1>1, <2>1, <2>2
<1>3. ASSUME NEW s \in Service, StartService(s) \/ RelaunchFires(s) PROVE Typed'
    BY <1>2, <1>3 DEF StartService, RelaunchFires, Goes
<1>4. ASSUME NEW s \in Service, HandleLaunchEvent(s) PROVE Typed'
    BY <1>4 DEF HandleLaunchEvent, SpawnSeqCommands, Goes
<1>5. ASSUME NEW s \in Service, SetupThrows(s) PROVE Typed'
    BY <1>1, <1>5 DEF SetupThrows, Goes
<1>6. ASSUME NEW s \in Service, NEW k \in setup[s], SetupExits(s, k) \/ SetupFails(s, k)
      PROVE  Typed'
    BY <1>1, <1>6 DEF SetupExits, SetupFails
<1>7. ASSUME NEW s \in Service, ChildStarts(s) \/ BindCollides(s) \/ Crashes(s) PROVE Typed'
    BY <1>1, <1>7 DEF ChildStarts, StartFails, Binds, BindFails, BindCollides, Crashes, Goes
<1>8. CASE UNCHANGED vars
    BY <1>8 DEF vars
<1> QED
    BY <1>3, <1>4, <1>5, <1>6, <1>7, <1>8 DEF Next

\* Every variable keeps its type.
LEMMA AlwaysTyped == Spec => []Typed
<1>1. Init => Typed
    BY FaultAssumption DEF Init, Typed, TypeOK
<1> QED
    BY <1>1, TypeStep, PTL DEF Spec

\* TypeOK is an invariant of the specification.
THEOREM TypeCorrect == Spec => []TypeOK
    BY AlwaysTyped, PTL DEF Typed
=============================================================================
