---------------------------- MODULE DaemonProofs ----------------------------
(***************************************************************************)
(* What holds of module Daemon for any number of hosts, epochs and         *)
(* restarts.                                                               *)
(***************************************************************************)
EXTENDS Daemon, TLAPS

LEMMA MeType ==
    ASSUME TypeOK, NEW h \in Host
    PROVE  Me(h) \in NodeId
BY DEF TypeOK, Me, NodeId

LEMMA AddrType ==
    ASSUME NEW p \in NodeId
    PROVE  Addr(p) \in Host
BY DEF NodeId, Addr

LEMMA AnnounceType ==
    ASSUME TypeOK, NEW h \in Host, NEW to \in Host
    PROVE  PeerAnnounce(h, to) \in Message
BY MeType DEF PeerAnnounce, Message

LEMMA RequestType ==
    ASSUME TypeOK, NEW h \in Host, NEW to \in Host, NEW t1 \in Nat, NEW e \in Epoch
    PROVE  TimeRequest(h, to, t1, e) \in Message
BY MeType DEF TimeRequest, Message

LEMMA ResponseType ==
    ASSUME TypeOK, NEW h \in Host, NEW m \in net, m.type = "TimeRequest"
    PROVE  TimeResponse(h, m) \in Message
<1>1. m.from \in NodeId /\ m.t1 \in Nat /\ m.epoch \in Epoch
  BY DEF TypeOK, Message
<1>2. QED  BY <1>1, MeType, AddrType DEF TimeResponse, Message

LEMMA BeaconMsgType ==
    ASSUME NEW to \in Host, NEW b \in Beacon
    PROVE  BeaconMsg(to, b) \in Message
BY DEF BeaconMsg, Message

LEMMA TypeInductive ==
    ASSUME TypeOK, [Next]_vars
    PROVE  TypeOK'
<1> USE DEF Epoch
<1>1. ASSUME NEW h \in Host, Bootstrap(h) PROVE TypeOK'
  <2>1. net' \subseteq Message
    BY <1>1, AnnounceType, HostAssumption DEF Bootstrap, TypeOK
  <2>2. pc' \in [Host -> Phase]
    BY <1>1 DEF Bootstrap, TypeOK, Phase
  <2>3. QED  BY <1>1, <2>1, <2>2 DEF Bootstrap, TypeOK, memory
<1>2. ASSUME NEW h \in Host, BeginEpoch(h) PROVE TypeOK'
  BY <1>2 DEF BeginEpoch, TypeOK, memory, Phase
<1>3. ASSUME NEW h \in Host, NEW p \in todo[h], SendRequest(h, p) PROVE TypeOK'
  <2>1. p \in NodeId /\ Addr(p) \in Host /\ clock[h] \in Nat /\ epoch[h] \in Epoch
    BY <1>3, AddrType DEF TypeOK
  <2>a. /\ TimeRequest(h, Addr(p), clock[h], epoch[h]) \in Message
        /\ PeerAnnounce(h, Addr(p)) \in Message
    BY <2>1, AnnounceType, RequestType
  <2>2. net' \subseteq Message
    BY <1>3, <2>a DEF SendRequest, TypeOK
  <2>3. [peer |-> p, t1 |-> clock[h], epoch |-> epoch[h]] \in Exchange
    BY <2>1 DEF TypeOK, Exchange
  <2>4. pending' \in [Host -> SUBSET Exchange]
    BY <1>3, <2>3 DEF SendRequest, InsertPending, TypeOK
  <2>5. todo' \in [Host -> SUBSET NodeId] /\ clock' \in [Host -> Nat]
    BY <1>3 DEF SendRequest, TypeOK
  <2>6. QED  BY <1>3, <2>2, <2>4, <2>5 DEF SendRequest, TypeOK
<1>4. ASSUME NEW h \in Host, Solve(h) PROVE TypeOK'
  <2>1. [epoch |-> epoch[h], measurements |-> raw[h]] \in Layer0Entry
    BY DEF TypeOK, Layer0Entry
  <2>2. l0' \in [Host -> Seq(Layer0Entry)]
    BY <1>4, <2>1 DEF Solve, TypeOK
  <2>3. OwnBeacon(h) \in Beacon
    BY MeType DEF OwnBeacon, Beacon, TypeOK
  <2>4. l1' \in [Host -> SUBSET Beacon]
    BY <1>4, <2>3 DEF Solve, InsertBeacon, TypeOK
  <2>5. raw' \in [Host -> Seq(Exchange)]
    BY <1>4 DEF Solve, RawAfterSolve, TypeOK
  <2>6. pc' \in [Host -> Phase]
    BY <1>4 DEF Solve, TypeOK, Phase
  <2>7. QED  BY <1>4, <2>2, <2>4, <2>5, <2>6 DEF Solve, TypeOK
<1>5. ASSUME NEW h \in Host, Publish(h) PROVE TypeOK'
  <2>1. \A p \in peers[h] : Addr(p) \in Host
    BY AddrType DEF TypeOK
  <2>2. net' \subseteq Message
    BY <1>5, <2>1, BeaconMsgType DEF Publish, TypeOK
  <2>3. pc' \in [Host -> Phase]
    BY <1>5 DEF Publish, TypeOK, Phase
  <2>4. QED  BY <1>5, <2>2, <2>3 DEF Publish, TypeOK, memory
<1>6. ASSUME NEW h \in Host, Tick(h) PROVE TypeOK'
  <2>1. pc' \in [Host -> Phase]
    BY <1>6 DEF Tick, TypeOK, Phase
  <2>2. l2' \in [Host -> SUBSET Epoch]
    BY <1>6 DEF Tick, ClustersAfter, TypeOK
  <2>3. pending' \in [Host -> SUBSET Exchange]
    BY <1>6 DEF Tick, RetainPending, TypeOK
  <2>4. stream' \in [Host -> Nat] /\ epoch' \in [Host -> Epoch]
    BY <1>6 DEF Tick, TypeOK
  <2>5. QED  BY <1>6, <2>1, <2>2, <2>3, <2>4 DEF Tick, TypeOK
<1>7. ASSUME NEW h \in Host, NEW m \in net, RecvPeerAnnounce(h, m) PROVE TypeOK'
  <2>1. m.from \in NodeId
    BY <1>7 DEF RecvPeerAnnounce, TypeOK, Message
  <2>2. net' \subseteq Message
    BY <1>7, <2>1, AddrType, AnnounceType DEF RecvPeerAnnounce, TypeOK
  <2>3. QED  BY <1>7, <2>1, <2>2 DEF RecvPeerAnnounce, TypeOK, loop
<1>8. ASSUME NEW h \in Host, NEW m \in net, RecvTimeRequest(h, m) PROVE TypeOK'
  <2>1. m.from \in NodeId
    BY <1>8 DEF RecvTimeRequest, TypeOK, Message
  <2>2. net' \subseteq Message
    BY <1>8, ResponseType DEF RecvTimeRequest, TypeOK
  <2>3. QED  BY <1>8, <2>1, <2>2 DEF RecvTimeRequest, TypeOK, loop
<1>9. ASSUME NEW h \in Host, NEW m \in net, RecvTimeResponse(h, m) PROVE TypeOK'
  <2>1. m.from \in NodeId /\ m.t1 \in Nat /\ m.epoch \in Epoch
    BY <1>9 DEF RecvTimeResponse, TypeOK, Message
  <2>2. [peer |-> m.from, t1 |-> m.t1, epoch |-> m.epoch] \in Exchange
    BY <2>1 DEF Exchange
  <2>3. raw' \in [Host -> Seq(Exchange)]
    BY <1>9, <2>2 DEF RecvTimeResponse, TypeOK
  <2>4. pending' \in [Host -> SUBSET Exchange]
    BY <1>9 DEF RecvTimeResponse, PendingAfter, TypeOK
  <2>5. /\ lut' \in [Host -> SUBSET [peer : NodeId, epoch : Epoch]]
        /\ peers' \in [Host -> SUBSET NodeId]
    BY <1>9, <2>1 DEF RecvTimeResponse, TypeOK
  <2>6. QED  BY <1>9, <2>3, <2>4, <2>5 DEF RecvTimeResponse, TypeOK, loop
<1>10. ASSUME NEW h \in Host, NEW m \in net, RecvBeacon(h, m) PROVE TypeOK'
  <2>1. m.beacon \in Beacon
    BY <1>10 DEF RecvBeacon, TypeOK, Message
  <2>2. l1' \in [Host -> SUBSET Beacon]
    BY <1>10, <2>1 DEF RecvBeacon, InsertBeacon, TypeOK
  <2>3. QED  BY <1>10, <2>2 DEF RecvBeacon, TypeOK, loop
<1>11. ASSUME NEW h \in Host, Restart(h) PROVE TypeOK'
  <2>1. pc' \in [Host -> Phase]
    BY <1>11 DEF Restart, TypeOK, Phase
  <2>2. raw' \in [Host -> Seq(Exchange)] /\ l0' \in [Host -> Seq(Layer0Entry)]
    BY <1>11 DEF Restart, TypeOK
  <2>3. QED  BY <1>11, <2>1, <2>2 DEF Restart, TypeOK
<1>12. CASE UNCHANGED vars
  BY <1>12 DEF vars, memory, loop, TypeOK
<1>13. QED
  BY <1>1, <1>2, <1>3, <1>4, <1>5, <1>6, <1>7, <1>8, <1>9, <1>10, <1>11, <1>12
     DEF Next, EpochLoop, HandleMessage

(* Every behaviour of the daemons is type correct.                         *)
THEOREM TypeCorrect == Spec => []TypeOK
<1>1. Init => TypeOK
  BY DEF Init, TypeOK, Phase, Epoch
<1>2. TypeOK /\ [Next]_vars => TypeOK'
  BY TypeInductive
<1>3. QED  BY <1>1, <1>2, PTL DEF Spec
-----------------------------------------------------------------------------
(* The inductive invariant behind "accepted once".  A pending request is   *)
(* of the current epoch, its t1 is unlike any other and its peer is no     *)
(* longer on the list; so a peer on the list has neither a pending request *)
(* nor an accepted exchange of this epoch, and a new request is like none  *)
(* before it.                                                              *)

Busy == {"measure", "publish", "tick"}

NetInv ==
    \A m \in net : m.type # "Beacon" => Addr(m.from) # m.to

PeersInv(h) ==
    /\ todo[h] \subseteq peers[h]
    /\ \A p \in peers[h] : Addr(p) # h

PendingInv(h) ==
    /\ \A x \in pending[h] :
          /\ x.epoch = epoch[h]
          /\ x.t1 < clock[h]
          /\ x.peer \in peers[h] \ todo[h]
          /\ pc[h] \in Busy
          /\ Asked(h, x) \in net
    /\ \A x, y \in pending[h] : x.peer = y.peer \/ x.t1 = y.t1 => x = y

AcceptedInv(h) ==
    \A i \in Batches(h) : \A k \in DOMAIN Batch(h, i) :
        LET v == Batch(h, i)[k] IN
        /\ v \in Exchange
        /\ v.t1 < clock[h]
        /\ v.epoch <= epoch[h]
        /\ v.epoch = epoch[h] => pc[h] \in Busy /\ v.peer \notin todo[h]
        /\ Asked(h, v) \in net
        /\ \A x \in pending[h] : ~ SameRequest(v, x)

OnceInv(h) ==
    \A i, j \in Batches(h) :
        \A k \in DOMAIN Batch(h, i), n \in DOMAIN Batch(h, j) :
            SameRequest(Batch(h, i)[k], Batch(h, j)[n]) => i = j /\ k = n

HostInv(h) == PeersInv(h) /\ PendingInv(h) /\ AcceptedInv(h) /\ OnceInv(h)

IndInv == TypeOK /\ NetInv /\ \A h \in Host : HostInv(h)

-----------------------------------------------------------------------------
(* Sends keep to the network invariant when no host sends to itself.       *)
LEMMA AnnounceNotSelf ==
    ASSUME NEW h \in Host, NEW to \in Host, to # h
    PROVE  Addr(PeerAnnounce(h, to).from) # PeerAnnounce(h, to).to
BY DEF PeerAnnounce, Me, Addr

LEMMA NetInductive ==
    ASSUME IndInv, [Next]_vars
    PROVE  NetInv'
<1>1. ASSUME NEW h \in Host, Bootstrap(h) PROVE NetInv'
  <2>1. \A to \in BootstrapPeers[h] : to \in Host /\ to # h
    BY HostAssumption, NoSelfBootstrap
  <2>2. QED  BY <1>1, <2>1, AnnounceNotSelf DEF Bootstrap, IndInv, NetInv
<1>2. ASSUME NEW h \in Host, NEW p \in todo[h], SendRequest(h, p) PROVE NetInv'
  <2>1. Addr(p) \in Host /\ Addr(p) # h
    BY AddrType DEF IndInv, TypeOK, HostInv, PeersInv
  <2>2. Addr(TimeRequest(h, Addr(p), clock[h], epoch[h]).from)
          # TimeRequest(h, Addr(p), clock[h], epoch[h]).to
    BY <2>1 DEF TimeRequest, Me, Addr
  <2>3. QED  BY <1>2, <2>1, <2>2, AnnounceNotSelf DEF SendRequest, IndInv, NetInv
<1>3. ASSUME NEW h \in Host, NEW m \in net, RecvPeerAnnounce(h, m) PROVE NetInv'
  <2>1. m.from \in NodeId
    BY <1>3 DEF RecvPeerAnnounce, IndInv, TypeOK, Message
  <2>2. Addr(m.from) \in Host /\ Addr(m.from) # h
    BY <1>3, <2>1, AddrType DEF RecvPeerAnnounce, IndInv, NetInv
  <2>3. QED  BY <1>3, <2>2, AnnounceNotSelf DEF RecvPeerAnnounce, IndInv, NetInv
<1>4. ASSUME NEW h \in Host, NEW m \in net, RecvTimeRequest(h, m) PROVE NetInv'
  <2>1. Addr(m.from) # h
    BY <1>4 DEF RecvTimeRequest, IndInv, NetInv
  <2>2. Addr(TimeResponse(h, m).from) # TimeResponse(h, m).to
    BY <2>1 DEF TimeResponse, Me, Addr
  <2>3. QED  BY <1>4, <2>2 DEF RecvTimeRequest, IndInv, NetInv
<1>5. ASSUME NEW h \in Host, Publish(h) PROVE NetInv'
  <2>1. \A to, b : BeaconMsg(to, b).type = "Beacon"
    BY DEF BeaconMsg
  <2>2. QED  BY <1>5, <2>1 DEF Publish, IndInv, NetInv
<1>6. CASE net' = net
  BY <1>6 DEF IndInv, NetInv
<1>7. QED
  BY <1>1, <1>2, <1>3, <1>4, <1>5, <1>6
     DEF Next, EpochLoop, HandleMessage, BeginEpoch, Solve, Tick, Restart,
         RecvTimeResponse, RecvBeacon, vars

-----------------------------------------------------------------------------
LEMMA SameBatches ==
    ASSUME NEW g \in Host, raw'[g] = raw[g], l0'[g] = l0[g]
    PROVE  Batches(g)' = Batches(g) /\ \A i : Batch(g, i)' = Batch(g, i)
BY DEF Batches, Batch

LEMMA SameAsked ==
    ASSUME NEW g \in Host, starts'[g] = starts[g]
    PROVE  \A x : Asked(g, x)' = Asked(g, x)
BY DEF Asked, TimeRequest, Me

(* A step of another host, or of the network.                              *)
LEMMA FrameInv ==
    ASSUME NEW g \in Host, HostInv(g),
           starts'[g] = starts[g], clock'[g] = clock[g], pc'[g] = pc[g],
           epoch'[g] = epoch[g], todo'[g] = todo[g], peers'[g] = peers[g],
           pending'[g] = pending[g], raw'[g] = raw[g], l0'[g] = l0[g],
           net \subseteq net'
    PROVE  HostInv(g)'
<1>1. PeersInv(g)'
  BY DEF HostInv, PeersInv
<1>2. PendingInv(g)'
  BY SameAsked DEF HostInv, PendingInv
<1>3. AcceptedInv(g)'
  BY SameAsked, SameBatches DEF HostInv, AcceptedInv
<1>4. OnceInv(g)'
  BY SameBatches DEF HostInv, OnceInv
<1>5. QED  BY <1>1, <1>2, <1>3, <1>4 DEF HostInv

(* The steps of the epoch loop that touch neither requests nor exchanges.  *)
LEMMA PhaseStepInv ==
    ASSUME IndInv, NEW h \in Host, Bootstrap(h) \/ BeginEpoch(h) \/ Publish(h)
    PROVE  HostInv(h)'
<1> USE DEF IndInv, TypeOK, HostInv
<1>1. /\ starts' = starts /\ clock' = clock /\ epoch' = epoch /\ peers' = peers
      /\ pending' = pending /\ raw' = raw /\ l0' = l0
  BY DEF Bootstrap, BeginEpoch, Publish, memory
<1>2. net \subseteq net'
  BY DEF Bootstrap, BeginEpoch, Publish
<1>3. \/ pc[h] \notin Busy
      \/ pc[h] \in Busy /\ pc'[h] \in Busy /\ todo'[h] = todo[h]
  BY DEF Bootstrap, BeginEpoch, Publish, Busy
<1>4. PeersInv(h)'
  BY <1>1 DEF PeersInv, Bootstrap, BeginEpoch, Publish
<1>5. PendingInv(h)'
  BY <1>1, <1>2, <1>3, SameAsked DEF PendingInv
<1>6. AcceptedInv(h)'
  BY <1>1, <1>2, <1>3, SameAsked, SameBatches DEF AcceptedInv
<1>7. OnceInv(h)'
  BY <1>1, SameBatches DEF OnceInv
<1>8. QED  BY <1>4, <1>5, <1>6, <1>7

LEMMA SendRequestInv ==
    ASSUME IndInv, NEW h \in Host, NEW p \in todo[h], SendRequest(h, p)
    PROVE  HostInv(h)'
<1> DEFINE x == [peer |-> p, t1 |-> clock[h], epoch |-> epoch[h]]
<1> USE DEF IndInv
<1>1. /\ starts' = starts /\ epoch' = epoch /\ peers' = peers /\ pc' = pc
      /\ raw' = raw /\ l0' = l0
      /\ clock'[h] = clock[h] + 1 /\ clock[h] \in Nat
      /\ todo'[h] = todo[h] \ {p}
      /\ pending'[h] = {y \in pending[h] : y.peer # p} \cup {x}
      /\ pc[h] \in Busy
  BY DEF SendRequest, InsertPending, TypeOK, Busy
<1>2. net \subseteq net' /\ Asked(h, x) \in net'
  BY DEF SendRequest, Asked
<1>3. \A y \in pending[h] : y \in Exchange
  BY DEF TypeOK
<1>4. PeersInv(h)'
  BY <1>1 DEF PeersInv, HostInv
<1>5. PendingInv(h)'
  <2>1. ASSUME NEW y \in pending'[h]
        PROVE  /\ y.epoch = epoch'[h] /\ y.t1 < clock'[h]
               /\ y.peer \in peers'[h] \ todo'[h]
               /\ pc'[h] \in Busy /\ Asked(h, y)' \in net'
    <3>1. CASE y = x
      BY <1>1, <1>2, <3>1, SameAsked DEF HostInv, PeersInv
    <3>2. CASE y \in pending[h]
      BY <1>1, <1>2, <1>3, <3>2, SameAsked DEF HostInv, PendingInv, Exchange
    <3>3. QED  BY <1>1, <2>1, <3>1, <3>2
  <2>2. \A y \in pending[h] : y.t1 # clock[h]
    BY <1>1, <1>3 DEF HostInv, PendingInv, Exchange
  <2>3. \A y, z \in pending'[h] : y.peer = z.peer \/ y.t1 = z.t1 => y = z
    BY <1>1, <2>2 DEF HostInv, PendingInv
  <2>4. QED  BY <2>1, <2>3 DEF PendingInv
<1>6. AcceptedInv(h)'
  <2> SUFFICES ASSUME NEW i \in Batches(h), NEW k \in DOMAIN Batch(h, i),
                      NEW v, v = Batch(h, i)[k]
               PROVE  /\ v \in Exchange
                      /\ v.t1 < clock'[h]
                      /\ v.epoch <= epoch'[h]
                      /\ v.epoch = epoch'[h] => pc'[h] \in Busy /\ v.peer \notin todo'[h]
                      /\ Asked(h, v)' \in net'
                      /\ \A y \in pending'[h] : ~ SameRequest(v, y)
    BY <1>1, SameBatches DEF AcceptedInv
  <2>1. /\ v \in Exchange /\ v.t1 < clock[h] /\ v.epoch <= epoch[h]
        /\ v.epoch = epoch[h] => v.peer \notin todo[h]
        /\ Asked(h, v) \in net
        /\ \A y \in pending[h] : ~ SameRequest(v, y)
    BY DEF HostInv, AcceptedInv
  <2>2. ~ SameRequest(v, x)
    BY <1>1, <2>1 DEF SameRequest, Exchange
  <2>3. v.t1 < clock'[h]
    BY <1>1, <2>1 DEF Exchange
  <2>4. QED  BY <1>1, <1>2, <2>1, <2>2, <2>3, SameAsked
<1>7. OnceInv(h)'
  BY <1>1, SameBatches DEF OnceInv, HostInv
<1>8. QED  BY <1>4, <1>5, <1>6, <1>7 DEF HostInv

(* solve_and_advance moves the waiting exchanges to a batch of their own.  *)
LEMMA SolveInv ==
    ASSUME IndInv, NEW h \in Host, Solve(h)
    PROVE  HostInv(h)'
<1> USE DEF IndInv
<1>1. /\ starts' = starts /\ clock' = clock /\ epoch' = epoch /\ peers' = peers
      /\ pending' = pending /\ todo' = todo /\ net' = net
      /\ pc[h] \in Busy /\ pc'[h] \in Busy
      /\ raw'[h] = <<>>
      /\ l0'[h] = Append(l0[h], [epoch |-> epoch[h], measurements |-> raw[h]])
      /\ l0[h] \in Seq(Layer0Entry)
  BY DEF Solve, TypeOK, Busy, RawAfterSolve
<1>2. ASSUME NEW i \in Batches(h)', NEW k \in DOMAIN Batch(h, i)'
      PROVE  /\ i \in Batches(h) /\ k \in DOMAIN Batch(h, i)
             /\ Batch(h, i)'[k] = Batch(h, i)[k]
  <2>1. Len(l0'[h]) = Len(l0[h]) + 1 /\ Len(l0[h]) \in Nat
    BY <1>1
  <2>2. CASE i \in DOMAIN l0[h]
    BY <1>1, <1>2, <2>1, <2>2 DEF Batches, Batch
  <2>3. CASE i = Len(l0[h]) + 1
    BY <1>1, <1>2, <2>1, <2>3 DEF Batches, Batch
  <2>4. CASE i = Len(l0[h]) + 2
    BY <1>1, <1>2, <2>1, <2>4 DEF Batches, Batch
  <2>5. QED  BY <1>1, <2>1, <2>2, <2>3, <2>4 DEF Batches
<1>3. PeersInv(h)'
  BY <1>1 DEF PeersInv, HostInv
<1>4. PendingInv(h)'
  BY <1>1, SameAsked DEF PendingInv, HostInv
<1>5. AcceptedInv(h)'
  BY <1>1, <1>2, SameAsked DEF AcceptedInv, HostInv
<1>6. OnceInv(h)'
  BY <1>2 DEF OnceInv, HostInv
<1>7. QED  BY <1>3, <1>4, <1>5, <1>6 DEF HostInv

LEMMA TickInv ==
    ASSUME IndInv, NEW h \in Host, Tick(h)
    PROVE  HostInv(h)'
<1> USE DEF IndInv
<1>1. /\ starts' = starts /\ clock' = clock /\ peers' = peers /\ todo' = todo
      /\ raw' = raw /\ l0' = l0 /\ net' = net
      /\ epoch'[h] = epoch[h] + 1 /\ epoch[h] \in Nat
      /\ pending'[h] = {}
  BY DEF Tick, TypeOK, Epoch, RetainPending, HostInv, PendingInv
<1>2. PeersInv(h)'
  BY <1>1 DEF PeersInv, HostInv
<1>3. PendingInv(h)'
  BY <1>1 DEF PendingInv
<1>4. AcceptedInv(h)'
  <2> SUFFICES ASSUME NEW i \in Batches(h), NEW k \in DOMAIN Batch(h, i),
                      NEW v, v = Batch(h, i)[k]
               PROVE  /\ v \in Exchange
                      /\ v.t1 < clock[h]
                      /\ v.epoch <= epoch'[h] /\ v.epoch # epoch'[h]
                      /\ Asked(h, v)' \in net
    BY <1>1, SameBatches DEF AcceptedInv
  <2>1. v \in Exchange /\ v.t1 < clock[h] /\ v.epoch <= epoch[h] /\ Asked(h, v) \in net
    BY DEF HostInv, AcceptedInv
  <2>2. v.epoch <= epoch'[h] /\ v.epoch # epoch'[h]
    BY <1>1, <2>1 DEF Exchange, Epoch
  <2>3. QED  BY <1>1, <2>1, <2>2, SameAsked
<1>5. OnceInv(h)'
  BY <1>1, SameBatches DEF OnceInv, HostInv
<1>6. QED  BY <1>2, <1>3, <1>4, <1>5 DEF HostInv

LEMMA LearnPeerInv ==
    ASSUME IndInv, NEW h \in Host, NEW m \in net,
           RecvPeerAnnounce(h, m) \/ RecvTimeRequest(h, m)
    PROVE  HostInv(h)'
<1> USE DEF IndInv
<1>1. /\ starts' = starts /\ clock' = clock /\ epoch' = epoch /\ todo' = todo
      /\ pc' = pc /\ pending' = pending /\ raw' = raw /\ l0' = l0
      /\ net \subseteq net' /\ peers'[h] = peers[h] \cup {m.from}
  BY DEF RecvPeerAnnounce, RecvTimeRequest, loop, TypeOK
<1>2. Addr(m.from) # h
  BY DEF NetInv, RecvPeerAnnounce, RecvTimeRequest
<1>3. PeersInv(h)'
  BY <1>1, <1>2 DEF PeersInv, HostInv
<1>4. PendingInv(h)'
  BY <1>1, SameAsked DEF PendingInv, HostInv
<1>5. AcceptedInv(h)'
  BY <1>1, SameAsked, SameBatches DEF AcceptedInv, HostInv
<1>6. OnceInv(h)'
  BY <1>1, SameBatches DEF OnceInv, HostInv
<1>7. QED  BY <1>3, <1>4, <1>5, <1>6 DEF HostInv

(* An accepted response: its pending request becomes the newest exchange.  *)
LEMMA RecvTimeResponseInv ==
    ASSUME IndInv, NEW h \in Host, NEW m \in net, RecvTimeResponse(h, m)
    PROVE  HostInv(h)'
<1> DEFINE x == [peer |-> m.from, t1 |-> m.t1, epoch |-> m.epoch]
           last == Len(l0[h]) + 1
<1> USE DEF IndInv
<1>1. /\ starts' = starts /\ clock' = clock /\ epoch' = epoch /\ todo' = todo
      /\ pc' = pc /\ l0' = l0 /\ net' = net
      /\ peers'[h] = peers[h] \cup {m.from}
      /\ pending'[h] = {y \in pending[h] : y.peer # m.from}
      /\ raw'[h] = Append(raw[h], x)
      /\ raw[h] \in Seq(Exchange) /\ l0[h] \in Seq(Layer0Entry)
  BY DEF RecvTimeResponse, loop, TypeOK, PendingAfter
<1>2. x \in pending[h] /\ x \in Exchange
  <2>1. PICK y \in pending[h] : y.peer = m.from /\ y.t1 = m.t1 /\ y.epoch = m.epoch
    BY DEF RecvTimeResponse, Answers
  <2>2. y \in Exchange
    BY DEF TypeOK
  <2>3. y = x
    BY <2>1, <2>2 DEF Exchange
  <2>4. QED  BY <2>2, <2>3
<1>3. /\ Batches(h)' = Batches(h) /\ last \in Batches(h)
      /\ Batch(h, last) = raw[h] /\ Batch(h, last)' = Append(raw[h], x)
      /\ \A i \in Batches(h) : i # last => Batch(h, i)' = Batch(h, i)
  BY <1>1 DEF Batches, Batch
<1>4. ASSUME NEW i \in Batches(h)', NEW k \in DOMAIN Batch(h, i)'
      PROVE  \/ /\ i \in Batches(h) /\ k \in DOMAIN Batch(h, i)
                /\ Batch(h, i)'[k] = Batch(h, i)[k]
             \/ /\ i = last /\ k = Len(raw[h]) + 1
                /\ Batch(h, i)'[k] = x
  BY <1>1, <1>3
<1>5. \A y \in pending'[h] : y \in pending[h] /\ ~ SameRequest(x, y)
  BY <1>1, <1>2 DEF SameRequest, HostInv, PendingInv
<1>6. PeersInv(h)'
  BY <1>1, <1>2 DEF PeersInv, HostInv, PendingInv
<1>7. PendingInv(h)'
  BY <1>1, <1>5, SameAsked DEF PendingInv, HostInv
<1>8. AcceptedInv(h)'
  <2> SUFFICES ASSUME NEW i \in Batches(h)', NEW k \in DOMAIN Batch(h, i)',
                      NEW v, v = Batch(h, i)'[k]
               PROVE  /\ v \in Exchange
                      /\ v.t1 < clock[h]
                      /\ v.epoch <= epoch[h]
                      /\ v.epoch = epoch[h] => pc[h] \in Busy /\ v.peer \notin todo[h]
                      /\ Asked(h, v)' \in net
                      /\ \A y \in pending'[h] : ~ SameRequest(v, y)
    BY <1>1 DEF AcceptedInv
  <2>1. CASE v = x
    <3>1. /\ x.t1 < clock[h] /\ x.epoch = epoch[h] /\ pc[h] \in Busy
          /\ x.peer \notin todo[h] /\ Asked(h, x) \in net
      BY <1>2 DEF HostInv, PendingInv
    <3>2. epoch[h] \in Nat
      BY DEF TypeOK, Epoch
    <3>3. QED  BY <1>1, <1>2, <1>5, <2>1, <3>1, <3>2, SameAsked
  <2>2. CASE /\ i \in Batches(h) /\ k \in DOMAIN Batch(h, i)
             /\ v = Batch(h, i)[k]
    BY <1>1, <1>5, <2>2, SameAsked DEF HostInv, AcceptedInv
  <2>3. QED  BY <1>4, <2>1, <2>2
<1>9. OnceInv(h)'
  <2>1. \A i \in Batches(h) : \A k \in DOMAIN Batch(h, i) :
            ~ SameRequest(Batch(h, i)[k], x) /\ ~ SameRequest(x, Batch(h, i)[k])
    BY <1>2 DEF HostInv, AcceptedInv, SameRequest
  <2>2. QED  BY <1>4, <2>1 DEF OnceInv, HostInv
<1>10. QED  BY <1>6, <1>7, <1>8, <1>9 DEF HostInv

LEMMA RestartInv ==
    ASSUME IndInv, NEW h \in Host, Restart(h)
    PROVE  HostInv(h)'
<1>1. /\ todo'[h] = {} /\ peers'[h] = {} /\ pending'[h] = {}
      /\ raw'[h] = <<>> /\ l0'[h] = <<>>
  BY DEF Restart, IndInv, TypeOK
<1>2. \A i : Batch(h, i)' = <<>>
  BY <1>1 DEF Batch
<1>3. QED
  BY <1>1, <1>2 DEF HostInv, PeersInv, PendingInv, AcceptedInv, OnceInv

(* A step is one host's: the others keep their state and lose no datagram. *)
LEMMA OthersKept ==
    ASSUME IndInv, NEW h \in Host, NEW g \in Host, g # h,
           \/ EpochLoop(h)
           \/ \E m \in net : HandleMessage(h, m)
           \/ Restart(h)
    PROVE  HostInv(g)'
<1>1. /\ starts'[g] = starts[g] /\ clock'[g] = clock[g] /\ pc'[g] = pc[g]
      /\ epoch'[g] = epoch[g] /\ todo'[g] = todo[g] /\ peers'[g] = peers[g]
      /\ pending'[g] = pending[g] /\ raw'[g] = raw[g] /\ l0'[g] = l0[g]
      /\ net \subseteq net'
  <2> USE DEF IndInv, TypeOK, loop, memory
  <2>1. CASE Bootstrap(h) \/ BeginEpoch(h) \/ Publish(h)
    BY <2>1 DEF Bootstrap, BeginEpoch, Publish
  <2>2. CASE \E p \in todo[h] : SendRequest(h, p)
    BY <2>2 DEF SendRequest
  <2>3. CASE Solve(h) \/ Tick(h)
    BY <2>3 DEF Solve, Tick
  <2>4. CASE \E m \in net : RecvPeerAnnounce(h, m) \/ RecvTimeRequest(h, m)
    BY <2>4 DEF RecvPeerAnnounce, RecvTimeRequest
  <2>5. CASE \E m \in net : RecvTimeResponse(h, m) \/ RecvBeacon(h, m)
    BY <2>5 DEF RecvTimeResponse, RecvBeacon
  <2>6. CASE Restart(h)
    BY <2>6 DEF Restart
  <2>7. QED
    BY <2>1, <2>2, <2>3, <2>4, <2>5, <2>6 DEF EpochLoop, HandleMessage
<1>2. HostInv(g)
  BY DEF IndInv
<1>3. QED  BY <1>1, <1>2, FrameInv

(* Every step of a host keeps the invariant of that host.                  *)
LEMMA ActorInv ==
    ASSUME IndInv, NEW h \in Host,
           \/ EpochLoop(h)
           \/ \E m \in net : HandleMessage(h, m)
           \/ Restart(h)
    PROVE  HostInv(h)'
<1>1. ASSUME NEW m \in net, RecvBeacon(h, m) PROVE HostInv(h)'
  <2>1. HostInv(h)
    BY DEF IndInv
  <2>2. QED  BY <1>1, <2>1, FrameInv DEF RecvBeacon, loop
<1>2. QED
  BY <1>1, PhaseStepInv, SendRequestInv, SolveInv, TickInv, LearnPeerInv,
     RecvTimeResponseInv, RestartInv DEF EpochLoop, HandleMessage

(* The invariant is inductive.                                             *)
LEMMA Inductive ==
    ASSUME IndInv, [Next]_vars
    PROVE  IndInv'
<1>1. TypeOK'
  BY TypeInductive DEF IndInv
<1>2. NetInv'
  BY NetInductive
<1>3. ASSUME NEW g \in Host PROVE HostInv(g)'
  <2>1. CASE UNCHANGED vars
    <3>1. HostInv(g)
      BY DEF IndInv
    <3>2. QED  BY <2>1, <3>1, FrameInv DEF vars, loop, memory
  <2>2. CASE Next
    <3>1. PICK h \in Host : \/ EpochLoop(h)
                            \/ \E m \in net : HandleMessage(h, m)
                            \/ Restart(h)
      BY <2>2 DEF Next
    <3>2. CASE g = h
      BY <3>1, <3>2, ActorInv
    <3>3. CASE g # h
      BY <3>1, <3>3, OthersKept
    <3>4. QED  BY <3>2, <3>3
  <2>3. QED  BY <2>1, <2>2
<1>4. QED  BY <1>1, <1>2, <1>3 DEF IndInv

(* The daemons start in it: nothing is known, asked or accepted.           *)
LEMMA InitInv == Init => IndInv
<1> SUFFICES ASSUME Init PROVE IndInv
  OBVIOUS
<1>1. TypeOK
  BY DEF Init, TypeOK, Phase, Epoch
<1>2. NetInv
  BY DEF Init, NetInv
<1>3. ASSUME NEW h \in Host PROVE HostInv(h)
  <2>1. /\ todo[h] = {} /\ peers[h] = {} /\ pending[h] = {}
        /\ raw[h] = <<>> /\ l0[h] = <<>>
    BY DEF Init
  <2>2. \A i : Batch(h, i) = <<>>
    BY <2>1 DEF Batch
  <2>3. QED
    BY <2>1, <2>2 DEF HostInv, PeersInv, PendingInv, AcceptedInv, OnceInv
<1>4. QED  BY <1>1, <1>2, <1>3 DEF IndInv

(* The invariant holds of every behaviour.                                 *)
LEMMA IndInvHolds == Spec => []IndInv
<1>1. IndInv /\ [Next]_vars => IndInv'
  BY Inductive
<1>2. QED  BY <1>1, InitInv, PTL DEF Spec

(* No response, however often duplicated and however late, is counted      *)
(* twice, and no peer is measured twice in an epoch: the check and removal *)
(* of pending_t1 in the TimeResponse arm of handle_message.                *)
THEOREM ResponsesAcceptedOnce == Spec => []AcceptedOnce
<1>1. IndInv => AcceptedOnce
  BY DEF IndInv, HostInv, OnceInv, AcceptedOnce
<1>2. QED  BY <1>1, IndInvHolds, PTL

(* Every exchange of layer 0, and every one that waits for the next solve, *)
(* answers a request this start of the daemon sent to that peer's address. *)
THEOREM OnlyOwnRequestsAnswered == Spec => []AnswersOwnRequest
<1>1. IndInv => AnswersOwnRequest
  BY DEF IndInv, HostInv, AcceptedInv, AnswersOwnRequest
<1>2. QED  BY <1>1, IndInvHolds, PTL

(* A daemon waits only for answers of the current epoch, one per peer, and *)
(* never for its own: what epoch_loop inserts into pending_t1 from a stale *)
(* copy of the peer map is still consistent with the map.                  *)
THEOREM PendingStaysCurrent == Spec => []PendingIsCurrent
<1>1. IndInv => PendingIsCurrent
  BY DEF IndInv, HostInv, PeersInv, PendingInv, PendingIsCurrent, Busy
<1>2. QED  BY <1>1, IndInvHolds, PTL
-----------------------------------------------------------------------------
(* Epochs, their records, beacons and ticks, and the refinement of module  *)
(* Discovery.  The invariant above is used throughout: a pending request   *)
(* is of the current epoch.                                                *)

(* The epoch's record is made by solve_and_advance and counted by the      *)
(* increment of epoch_num at the end of the epoch.                         *)
Recorded == {"publish", "tick"}

(* Layer 0 holds one entry per solved epoch, in order, and every accepted  *)
(* exchange is in the batch of its own epoch or of the next.               *)
RecordInv(h) ==
    /\ Len(l0[h]) = epoch[h] + (IF pc[h] \in Recorded THEN 1 ELSE 0)
    /\ \A i \in DOMAIN l0[h] : l0[h][i].epoch = i - 1
    /\ \A i \in Batches(h) : \A k \in DOMAIN Batch(h, i) :
           Batch(h, i)[k].epoch \in {i - 2, i - 1}

(* Ticks and clusters so far are those of the epochs that have ended, and  *)
(* once an epoch is solved a beacon of it is stored.                       *)
TickedInv(h) ==
    /\ stream[h] = epoch[h]
    /\ l2[h] = 0 .. epoch[h] - 1
    /\ pc[h] \in Recorded => \E b \in l1[h] : b.epoch = epoch[h]

(* All beacons in a store or in the network.                               *)
Seen ==
    (UNION {l1[g] : g \in Host}) \cup
    {m.beacon : m \in {d \in net : d.type = "Beacon"}}

(* What a beacon says of a running daemon is what that daemon recorded.    *)
States(b, h) ==
    b.author = Me(h) =>
        /\ b.epoch + 1 \in DOMAIN l0[h]
        /\ b.peer_count = Len(l0[h][b.epoch + 1].measurements)

(* The author of a beacon has been started; so no beacon is waiting for a  *)
(* daemon that a restart brings to life under a fresh id.                  *)
BeaconInv(b) ==
    /\ b \in Beacon
    /\ b.author[2] <= starts[Addr(b.author)]
    /\ \A h \in Host : States(b, h)

EpochInv ==
    /\ \A h \in Host : RecordInv(h) /\ TickedInv(h)
    /\ \A b \in Seen : BeaconInv(b)
-----------------------------------------------------------------------------
(* A step of another host, or one that leaves records and phase alone.     *)
LEMMA RecordFrame ==
    ASSUME NEW g \in Host, RecordInv(g), TickedInv(g),
           pc'[g] \in Recorded <=> pc[g] \in Recorded,
           epoch'[g] = epoch[g], raw'[g] = raw[g], l0'[g] = l0[g],
           l1[g] \subseteq l1'[g], l2'[g] = l2[g], stream'[g] = stream[g]
    PROVE  RecordInv(g)' /\ TickedInv(g)'
<1>1. RecordInv(g)'
  BY SameBatches DEF RecordInv
<1>2. TickedInv(g)'
  BY DEF TickedInv
<1>3. QED  BY <1>1, <1>2

(* The steps of the epoch loop up to the solve, and the publication.       *)
LEMMA LoopStepRecords ==
    ASSUME IndInv, EpochInv, NEW h \in Host,
           \/ Bootstrap(h) \/ BeginEpoch(h) \/ Publish(h)
           \/ \E p \in todo[h] : SendRequest(h, p)
    PROVE  RecordInv(h)' /\ TickedInv(h)'
<1>1. /\ pc'[h] \in Recorded <=> pc[h] \in Recorded
      /\ epoch' = epoch /\ raw' = raw /\ l0' = l0 /\ l1' = l1 /\ l2' = l2
      /\ stream' = stream
  <2> pc \in [Host -> Phase]
    BY DEF IndInv, TypeOK
  <2>1. CASE Bootstrap(h)
    BY <2>1 DEF Bootstrap, memory, Recorded
  <2>2. CASE BeginEpoch(h)
    BY <2>2 DEF BeginEpoch, memory, Recorded
  <2>3. CASE Publish(h)
    BY <2>3 DEF Publish, memory, Recorded
  <2>4. ASSUME NEW p \in todo[h], SendRequest(h, p)
        PROVE  /\ pc' = pc /\ epoch' = epoch /\ raw' = raw /\ l0' = l0
               /\ l1' = l1 /\ l2' = l2 /\ stream' = stream
    BY <2>4 DEF SendRequest
  <2>5. QED  BY <2>1, <2>2, <2>3, <2>4
<1>2. RecordInv(h) /\ TickedInv(h)
  BY DEF EpochInv
<1>3. QED  BY <1>1, <1>2, RecordFrame

(* Learning a peer, storing a beacon, and nothing at all.                  *)
LEMMA ReceiveRecords ==
    ASSUME IndInv, EpochInv, NEW h \in Host, NEW m \in net,
           RecvPeerAnnounce(h, m) \/ RecvTimeRequest(h, m) \/ RecvBeacon(h, m)
    PROVE  RecordInv(h)' /\ TickedInv(h)'
<1>1. /\ pc' = pc /\ epoch' = epoch /\ raw' = raw /\ l0' = l0 /\ l2' = l2
      /\ stream' = stream /\ l1[h] \subseteq l1'[h]
  BY DEF IndInv, TypeOK, RecvPeerAnnounce, RecvTimeRequest, RecvBeacon, loop,
         InsertBeacon
<1>2. RecordInv(h) /\ TickedInv(h)
  BY DEF EpochInv
<1>3. QED  BY <1>1, <1>2, RecordFrame

(* An accepted response answers a request of the current epoch, and the    *)
(* batch it joins is that of this epoch or, after the solve, of the next.  *)
LEMMA ResponseRecords ==
    ASSUME IndInv, EpochInv, NEW h \in Host, NEW m \in net, RecvTimeResponse(h, m)
    PROVE  RecordInv(h)' /\ TickedInv(h)'
<1> DEFINE x == [peer |-> m.from, t1 |-> m.t1, epoch |-> m.epoch]
           last == Len(l0[h]) + 1
<1>1. /\ pc' = pc /\ epoch' = epoch /\ l0' = l0 /\ l1' = l1 /\ l2' = l2
      /\ stream' = stream
      /\ raw'[h] = Append(raw[h], x)
      /\ raw[h] \in Seq(Exchange) /\ l0[h] \in Seq(Layer0Entry)
      /\ epoch[h] \in Nat
  BY DEF IndInv, TypeOK, Epoch, RecvTimeResponse, loop
<1>2. m.epoch = epoch[h]
  BY DEF RecvTimeResponse, Answers, IndInv, HostInv, PendingInv
<1>3. RecordInv(h) /\ TickedInv(h)
  BY DEF EpochInv
<1>4. TickedInv(h)'
  BY <1>1, <1>3 DEF TickedInv
<1>5. ASSUME NEW i \in Batches(h)', NEW k \in DOMAIN Batch(h, i)'
      PROVE  Batch(h, i)'[k].epoch \in {i - 2, i - 1}
  <2>1. CASE i \in DOMAIN l0[h]
    <3>1. Batch(h, i)' = Batch(h, i) /\ i \in Batches(h)
      BY <1>1, <2>1 DEF Batch, Batches
    <3>2. QED  BY <1>3, <1>5, <3>1 DEF RecordInv
  <2>2. CASE i = last
    <3>1. Batch(h, i)' = Append(raw[h], x) /\ Batch(h, i) = raw[h] /\ i \in Batches(h)
      BY <1>1, <2>2 DEF Batch, Batches
    <3>2. CASE k \in DOMAIN raw[h]
      <4>1. Batch(h, i)'[k] = Batch(h, i)[k] /\ k \in DOMAIN Batch(h, i)
        BY <1>1, <3>1, <3>2
      <4>2. QED  BY <1>3, <3>1, <4>1 DEF RecordInv
    <3>3. CASE k = Len(raw[h]) + 1
      <4>1. Batch(h, i)'[k] = x
        BY <1>1, <3>1, <3>3
      <4>2. epoch[h] \in {i - 2, i - 1}
        BY <1>1, <1>3, <2>2 DEF RecordInv
      <4>3. QED  BY <1>2, <4>1, <4>2
    <3>4. QED  BY <1>1, <1>5, <3>1, <3>2, <3>3
  <2>3. QED  BY <1>1, <1>5, <2>1, <2>2 DEF Batches
<1>6. RecordInv(h)'
  BY <1>1, <1>3, <1>5 DEF RecordInv
<1>7. QED  BY <1>4, <1>6

(* solve_and_advance: the waiting batch becomes the entry of this epoch,   *)
(* and the beacon of this epoch is stored.                                 *)
LEMMA SolveRecords ==
    ASSUME IndInv, EpochInv, NEW h \in Host, Solve(h)
    PROVE  RecordInv(h)' /\ TickedInv(h)'
<1> DEFINE e == [epoch |-> epoch[h], measurements |-> raw[h]]
           n == Len(l0[h])
<1>1. /\ epoch' = epoch /\ l2' = l2 /\ stream' = stream
      /\ pc[h] = "measure" /\ pc'[h] = "publish"
      /\ raw'[h] = <<>> /\ l0'[h] = Append(l0[h], e)
      /\ l0[h] \in Seq(Layer0Entry) /\ epoch[h] \in Nat
      /\ l1'[h] = InsertBeacon(h, OwnBeacon(h))
  BY DEF IndInv, TypeOK, Epoch, Solve, RawAfterSolve
<1>2. RecordInv(h) /\ TickedInv(h)
  BY DEF EpochInv
<1>3. n = epoch[h]
  BY <1>1, <1>2 DEF RecordInv, Recorded
<1>4. /\ n \in Nat /\ DOMAIN l0[h] = 1 .. n /\ DOMAIN l0'[h] = 1 .. n + 1
      /\ Len(l0'[h]) = n + 1 /\ l0'[h][n + 1] = e
      /\ \A i \in 1 .. n : l0'[h][i] = l0[h][i]
  BY <1>1
<1>5. Len(l0'[h]) = epoch'[h] + (IF pc'[h] \in Recorded THEN 1 ELSE 0)
  BY <1>1, <1>3, <1>4 DEF Recorded
<1>6. ASSUME NEW i \in DOMAIN l0'[h] PROVE l0'[h][i].epoch = i - 1
  <2>1. CASE i = n + 1
    BY <1>3, <1>4, <2>1
  <2>2. CASE i \in 1 .. n
    BY <1>2, <1>4, <2>2 DEF RecordInv
  <2>3. QED  BY <1>4, <2>1, <2>2
<1>7. ASSUME NEW i \in Batches(h)', NEW k \in DOMAIN Batch(h, i)'
      PROVE  Batch(h, i)'[k].epoch \in {i - 2, i - 1}
  <2>1. CASE i \in 1 .. n
    <3>1. Batch(h, i)' = Batch(h, i) /\ i \in Batches(h)
      BY <1>4, <2>1 DEF Batch, Batches
    <3>2. QED  BY <1>2, <1>7, <3>1 DEF RecordInv
  <2>2. CASE i = n + 1
    <3>1. Batch(h, i)' = raw[h] /\ Batch(h, i) = raw[h] /\ i \in Batches(h)
      BY <1>4, <2>2 DEF Batch, Batches
    <3>2. QED  BY <1>2, <1>7, <3>1 DEF RecordInv
  <2>3. CASE i = n + 2
    <3>1. Batch(h, i)' = <<>>
      BY <1>1, <1>4, <2>3 DEF Batch
    <3>2. QED  BY <1>7, <3>1
  <2>4. QED  BY <1>4, <1>7, <2>1, <2>2, <2>3 DEF Batches
<1>8. \E b \in l1'[h] : b.epoch = epoch'[h]
  BY <1>1 DEF InsertBeacon, OwnBeacon
<1>9. QED  BY <1>1, <1>2, <1>5, <1>6, <1>7, <1>8 DEF RecordInv, TickedInv

(* The end of the epoch: the stored beacon makes a cluster, the cluster a  *)
(* tick.                                                                   *)
LEMMA TickRecords ==
    ASSUME IndInv, EpochInv, NEW h \in Host, Tick(h)
    PROVE  RecordInv(h)' /\ TickedInv(h)'
<1>1. /\ raw' = raw /\ l0' = l0 /\ l1' = l1
      /\ pc[h] = "tick" /\ pc'[h] = "begin"
      /\ epoch'[h] = epoch[h] + 1 /\ epoch[h] \in Nat /\ l0[h] \in Seq(Layer0Entry)
      /\ l2'[h] = ClustersAfter(h)
      /\ stream'[h] = IF epoch[h] \in ClustersAfter(h) THEN stream[h] + 1 ELSE stream[h]
  BY DEF IndInv, TypeOK, Epoch, Tick
<1>2. RecordInv(h) /\ TickedInv(h)
  BY DEF EpochInv
<1>3. ClustersAfter(h) = 0 .. epoch[h] - 1 \cup {epoch[h]}
  BY <1>1, <1>2 DEF TickedInv, ClustersAfter, Recorded
<1>4. ClustersAfter(h) = 0 .. epoch'[h] - 1
  BY <1>1, <1>3
<1>5. TickedInv(h)'
  BY <1>1, <1>2, <1>3, <1>4 DEF TickedInv, Recorded
<1>6. Len(l0'[h]) = epoch'[h] + (IF pc'[h] \in Recorded THEN 1 ELSE 0)
  BY <1>1, <1>2 DEF RecordInv, Recorded
<1>7. RecordInv(h)'
  BY <1>1, <1>2, <1>6, SameBatches DEF RecordInv
<1>8. QED  BY <1>5, <1>7

LEMMA RestartRecords ==
    ASSUME IndInv, NEW h \in Host, Restart(h)
    PROVE  RecordInv(h)' /\ TickedInv(h)'
<1>1. /\ pc'[h] = "boot" /\ epoch'[h] = 0 /\ raw'[h] = <<>> /\ l0'[h] = <<>>
      /\ l1'[h] = {} /\ l2'[h] = {} /\ stream'[h] = 0
  BY DEF IndInv, TypeOK, Restart
<1>2. \A i : Batch(h, i)' = <<>>
  BY <1>1 DEF Batch
<1>3. Len(l0'[h]) = 0 /\ DOMAIN l0'[h] = {} /\ 0 .. 0 - 1 = {}
  BY <1>1
<1>4. QED  BY <1>1, <1>2, <1>3 DEF RecordInv, TickedInv, Recorded

(* Every step keeps the records of every host.                             *)
LEMMA RecordsKept ==
    ASSUME IndInv, EpochInv, [Next]_vars, NEW g \in Host
    PROVE  RecordInv(g)' /\ TickedInv(g)'
<1> RecordInv(g) /\ TickedInv(g)
  BY DEF EpochInv
<1>1. CASE UNCHANGED vars
  BY <1>1, RecordFrame DEF vars, loop, memory
<1>2. CASE Next
  <2>1. PICK h \in Host : \/ EpochLoop(h)
                          \/ \E m \in net : HandleMessage(h, m)
                          \/ Restart(h)
    BY <1>2 DEF Next
  <2>2. CASE g = h
    BY <2>1, <2>2, LoopStepRecords, SolveRecords, TickRecords, ReceiveRecords,
       ResponseRecords, RestartRecords DEF EpochLoop, HandleMessage
  <2>3. CASE g # h
    <3> USE <2>3 DEF IndInv, TypeOK, loop, memory
    <3>1. /\ pc'[g] = pc[g] /\ epoch'[g] = epoch[g] /\ raw'[g] = raw[g]
          /\ l0'[g] = l0[g] /\ l1'[g] = l1[g] /\ l2'[g] = l2[g]
          /\ stream'[g] = stream[g]
      <4>1. CASE Bootstrap(h) \/ BeginEpoch(h) \/ Publish(h)
        BY <4>1 DEF Bootstrap, BeginEpoch, Publish
      <4>2. CASE \E p \in todo[h] : SendRequest(h, p)
        BY <4>2 DEF SendRequest
      <4>3. CASE Solve(h) \/ Tick(h)
        BY <4>3 DEF Solve, Tick
      <4>4. CASE \E m \in net : RecvPeerAnnounce(h, m) \/ RecvTimeRequest(h, m)
        BY <4>4 DEF RecvPeerAnnounce, RecvTimeRequest
      <4>5. CASE \E m \in net : RecvTimeResponse(h, m) \/ RecvBeacon(h, m)
        BY <4>5 DEF RecvTimeResponse, RecvBeacon
      <4>6. CASE Restart(h)
        BY <4>6 DEF Restart
      <4>7. QED
        BY <2>1, <4>1, <4>2, <4>3, <4>4, <4>5, <4>6 DEF EpochLoop, HandleMessage
    <3>2. QED  BY <3>1, RecordFrame
  <2>4. QED  BY <2>2, <2>3
<1>3. QED  BY <1>1, <1>2
-----------------------------------------------------------------------------
(* A beacon comes into being in the solve of its author's epoch; every     *)
(* other step only passes beacons on or forgets them.                      *)
LEMMA NewBeacons ==
    ASSUME IndInv, [Next]_vars, NEW b \in Seen'
    PROVE  b \in Seen \/ \E h \in Host : Solve(h) /\ b = OwnBeacon(h)
<1>1. /\ \A g \in Host : l1[g] \subseteq Seen
      /\ \A m \in net : m.type = "Beacon" => m.beacon \in Seen
  BY DEF Seen
<1>2. \/ \E g \in Host : b \in l1'[g]
      \/ \E m \in net' : m.type = "Beacon" /\ b = m.beacon
  BY DEF Seen
<1>0. ASSUME l1' = l1, \A m \in net' : m.type = "Beacon" => m \in net
      PROVE  b \in Seen
  BY <1>1, <1>2, <1>0
<1>3. ASSUME NEW h \in Host, Bootstrap(h) PROVE b \in Seen
  BY <1>0, <1>3 DEF Bootstrap, memory, PeerAnnounce
<1>4. ASSUME NEW h \in Host, NEW p \in todo[h], SendRequest(h, p) PROVE b \in Seen
  BY <1>0, <1>4 DEF SendRequest, PeerAnnounce, TimeRequest
<1>5. ASSUME NEW h \in Host, NEW m \in net, RecvPeerAnnounce(h, m) PROVE b \in Seen
  BY <1>0, <1>5 DEF RecvPeerAnnounce, PeerAnnounce
<1>6. ASSUME NEW h \in Host, NEW m \in net, RecvTimeRequest(h, m) PROVE b \in Seen
  BY <1>0, <1>6 DEF RecvTimeRequest, TimeResponse
<1>7. ASSUME NEW h \in Host, Publish(h) PROVE b \in Seen
  <2>1. l1' = l1
    BY <1>7 DEF Publish, memory
  <2>2. ASSUME NEW m \in net', m.type = "Beacon", b = m.beacon, m \notin net
        PROVE  b \in l1[h]
    BY <1>7, <2>2 DEF Publish, BeaconMsg
  <2>3. QED  BY <1>1, <2>1, <2>2 DEF Seen
<1>8. ASSUME NEW h \in Host, NEW m \in net, RecvBeacon(h, m) PROVE b \in Seen
  <2>1. net' = net /\ l1' = [l1 EXCEPT ![h] = InsertBeacon(h, m.beacon)]
    BY <1>8 DEF RecvBeacon
  <2>2. \A g \in Host : l1'[g] \subseteq l1[g] \cup {m.beacon}
    BY <2>1 DEF InsertBeacon, IndInv, TypeOK
  <2>3. m.beacon \in Seen
    BY <1>8 DEF RecvBeacon, Seen
  <2>4. QED  BY <1>1, <2>1, <2>2, <2>3 DEF Seen
<1>9. ASSUME NEW h \in Host, Solve(h) PROVE b \in Seen \/ b = OwnBeacon(h)
  <2>1. net' = net /\ l1' = [l1 EXCEPT ![h] = InsertBeacon(h, OwnBeacon(h))]
    BY <1>9 DEF Solve
  <2>2. \A g \in Host : l1'[g] \subseteq l1[g] \cup {OwnBeacon(h)}
    BY <2>1 DEF InsertBeacon, IndInv, TypeOK
  <2>3. QED  BY <1>1, <2>1, <2>2 DEF Seen
<1>10. ASSUME NEW h \in Host, Restart(h) PROVE b \in Seen
  <2>1. net' = net /\ \A g \in Host : l1'[g] \subseteq l1[g]
    BY <1>10 DEF Restart, IndInv, TypeOK
  <2>2. QED  BY <1>1, <2>1 DEF Seen
<1>11. CASE net' = net /\ l1' = l1
  BY <1>11 DEF Seen
<1>12. QED
  BY <1>3, <1>4, <1>5, <1>6, <1>7, <1>8, <1>9, <1>10, <1>11
     DEF Next, EpochLoop, HandleMessage, BeginEpoch, Tick, RecvTimeResponse, vars,
         memory

(* Layer 0 of a running daemon only grows, and a daemon that does not go   *)
(* on running comes back under the next id.                                *)
Grows(g) ==
    \/ starts'[g] = starts[g] /\ l0'[g] = l0[g]
    \/ starts'[g] = starts[g] /\ \E e \in Layer0Entry : l0'[g] = Append(l0[g], e)
    \/ starts'[g] = starts[g] + 1

LEMMA RecordsGrow ==
    ASSUME IndInv, [Next]_vars, NEW g \in Host
    PROVE  Grows(g)
<1> USE DEF Grows
<1>1. ASSUME NEW h \in Host, Solve(h) PROVE Grows(g)
  <2>1. starts' = starts
    BY <1>1 DEF Solve
  <2>2. CASE g # h
    BY <1>1, <2>1, <2>2 DEF Solve, IndInv, TypeOK
  <2>3. CASE g = h
    <3>1. [epoch |-> epoch[h], measurements |-> raw[h]] \in Layer0Entry
      BY DEF Layer0Entry, IndInv, TypeOK
    <3>2. l0'[h] = Append(l0[h], [epoch |-> epoch[h], measurements |-> raw[h]])
      BY <1>1 DEF Solve, IndInv, TypeOK
    <3>3. QED  BY <2>1, <2>3, <3>1, <3>2
  <2>4. QED  BY <2>2, <2>3
<1>2. ASSUME NEW h \in Host, Restart(h) PROVE Grows(g)
  BY <1>2 DEF Restart, IndInv, TypeOK
<1>3. CASE starts' = starts /\ l0' = l0
  BY <1>3
<1>4. \/ starts' = starts /\ l0' = l0
      \/ \E h \in Host : Solve(h) \/ Restart(h)
  <2>1. CASE UNCHANGED vars
    BY <2>1 DEF vars, memory
  <2>2. ASSUME NEW h \in Host, EpochLoop(h), ~ Solve(h)
        PROVE  starts' = starts /\ l0' = l0
    <3>1. ASSUME Bootstrap(h) \/ BeginEpoch(h) \/ Publish(h) \/ Tick(h)
          PROVE  starts' = starts /\ l0' = l0
      BY <3>1 DEF Bootstrap, BeginEpoch, Publish, Tick, memory
    <3>2. ASSUME NEW p \in todo[h], SendRequest(h, p)
          PROVE  starts' = starts /\ l0' = l0
      BY <3>2 DEF SendRequest
    <3>3. QED  BY <2>2, <3>1, <3>2 DEF EpochLoop
  <2>3. ASSUME NEW h \in Host, NEW m \in net, HandleMessage(h, m)
        PROVE  starts' = starts /\ l0' = l0
    BY <2>3 DEF HandleMessage, RecvPeerAnnounce, RecvTimeRequest, RecvTimeResponse,
                RecvBeacon
  <2>4. QED  BY <2>1, <2>2, <2>3 DEF Next
<1>5. QED  BY <1>1, <1>2, <1>3, <1>4

(* A beacon that states the records stays true as they grow.               *)
LEMMA BeaconStaysTrue ==
    ASSUME IndInv, EpochInv, [Next]_vars, NEW b, BeaconInv(b)
    PROVE  BeaconInv(b)'
<1>1. b \in Beacon /\ b.author \in NodeId /\ b.epoch \in Nat /\ Addr(b.author) \in Host
  BY AddrType DEF BeaconInv, Beacon, Epoch
<1>2. starts \in [Host -> Nat] /\ \A g \in Host : l0[g] \in Seq(Layer0Entry)
  BY DEF IndInv, TypeOK
<1>3. b.author[2] <= starts'[Addr(b.author)]
  <2>1. \A g \in Host : starts'[g] \in {starts[g], starts[g] + 1}
    BY RecordsGrow DEF Grows
  <2>2. b.author[2] \in Nat
    BY <1>1 DEF NodeId
  <2>3. QED  BY <1>1, <1>2, <2>1, <2>2 DEF BeaconInv
<1>4. ASSUME NEW h \in Host, b.author = Me(h)'
      PROVE  /\ b.epoch + 1 \in DOMAIN l0'[h]
             /\ b.peer_count = Len(l0'[h][b.epoch + 1].measurements)
  <2>1. CASE starts'[h] = starts[h] + 1
    <3>1. b.author[2] = starts[h] + 1 /\ Addr(b.author) = h
      BY <1>4, <2>1 DEF Me, Addr
    <3>2. QED  BY <1>2, <3>1 DEF BeaconInv
  <2>2. CASE starts'[h] = starts[h]
    <3>1. /\ b.epoch + 1 \in DOMAIN l0[h]
          /\ b.peer_count = Len(l0[h][b.epoch + 1].measurements)
      BY <1>4, <2>2 DEF BeaconInv, States, Me
    <3>2. CASE l0'[h] = l0[h]
      BY <3>1, <3>2
    <3>3. ASSUME NEW e \in Layer0Entry, l0'[h] = Append(l0[h], e)
          PROVE  b.epoch + 1 \in DOMAIN l0'[h] /\ l0'[h][b.epoch + 1] = l0[h][b.epoch + 1]
      BY <1>2, <3>1, <3>3
    <3>4. QED
      <4>1. starts[h] # starts[h] + 1
        BY <1>2
      <4>2. QED  BY <2>2, <3>1, <3>2, <3>3, <4>1, RecordsGrow DEF Grows
  <2>3. QED  BY <2>1, <2>2, RecordsGrow DEF Grows
<1>5. QED  BY <1>1, <1>3, <1>4 DEF BeaconInv, States

(* solve_and_advance and build_and_publish_beacon share a critical section,*)
(* so the beacon counts the exchanges of the entry just appended.          *)
LEMMA OwnBeaconTrue ==
    ASSUME IndInv, EpochInv, NEW h \in Host, Solve(h), NEW b, b = OwnBeacon(h)
    PROVE  BeaconInv(b)'
<1> DEFINE e == [epoch |-> epoch[h], measurements |-> raw[h]]
<1>1. /\ starts' = starts /\ starts \in [Host -> Nat]
      /\ l0[h] \in Seq(Layer0Entry) /\ raw[h] \in Seq(Exchange) /\ epoch[h] \in Nat
      /\ l0'[h] = Append(l0[h], e)
      /\ pc[h] = "measure"
  BY DEF IndInv, TypeOK, Epoch, Solve
<1>2. /\ b.author = <<h, starts[h]>> /\ b.epoch = epoch[h]
      /\ b.peer_count = Len(raw[h]) /\ b \in Beacon
  BY <1>1, MeType DEF IndInv, OwnBeacon, Me, Beacon, Epoch
<1>3. Len(l0[h]) = epoch[h]
  BY <1>1 DEF EpochInv, RecordInv, Recorded
<1>4. b.epoch + 1 \in DOMAIN l0'[h] /\ l0'[h][b.epoch + 1] = e
  BY <1>1, <1>2, <1>3
<1>5. ASSUME NEW g \in Host, b.author = Me(g)' PROVE g = h
  BY <1>1, <1>2, <1>5 DEF Me
<1>6. b.author[2] <= starts'[Addr(b.author)]
  BY <1>1, <1>2 DEF Addr
<1>7. QED  BY <1>2, <1>4, <1>5, <1>6 DEF BeaconInv, States

(* The invariant is inductive, together with that of DaemonProofs.         *)
LEMMA EpochInductive ==
    ASSUME IndInv, EpochInv, [Next]_vars
    PROVE  EpochInv'
<1>1. \A g \in Host : RecordInv(g)' /\ TickedInv(g)'
  BY RecordsKept
<1>2. ASSUME NEW b \in Seen' PROVE BeaconInv(b)'
  <2>1. CASE b \in Seen
    BY <2>1, BeaconStaysTrue DEF EpochInv
  <2>2. ASSUME NEW h \in Host, Solve(h), b = OwnBeacon(h) PROVE BeaconInv(b)'
    BY <2>2, OwnBeaconTrue
  <2>3. QED  BY <2>1, <2>2, NewBeacons
<1>3. QED  BY <1>1, <1>2 DEF EpochInv

(* The daemons start in it: no epoch has begun, no beacon exists.          *)
LEMMA InitEpochInv == Init => EpochInv
<1> SUFFICES ASSUME Init PROVE EpochInv
  OBVIOUS
<1>1. ASSUME NEW h \in Host PROVE RecordInv(h) /\ TickedInv(h)
  <2>1. /\ pc[h] = "boot" /\ epoch[h] = 0 /\ raw[h] = <<>> /\ l0[h] = <<>>
        /\ l1[h] = {} /\ l2[h] = {} /\ stream[h] = 0
    BY DEF Init
  <2>2. \A i : Batch(h, i) = <<>>
    BY <2>1 DEF Batch
  <2>3. Len(l0[h]) = 0 /\ DOMAIN l0[h] = {} /\ 0 .. 0 - 1 = {}
    BY <2>1
  <2>4. QED  BY <2>1, <2>2, <2>3 DEF RecordInv, TickedInv, Recorded
<1>2. Seen = {}
  BY DEF Init, Seen
<1>3. QED  BY <1>1, <1>2 DEF EpochInv

LEMMA EpochInvHolds == Spec => []EpochInv
<1>1. IndInv /\ EpochInv /\ [Next]_vars => EpochInv'
  BY EpochInductive
<1>2. QED  BY <1>1, InitEpochInv, IndInvHolds, PTL DEF Spec

(* Layer 0 has one entry per solved epoch, in order, with exchanges of     *)
(* that epoch and the one before only: what arrives after the solve waits  *)
(* in raw_exchanges for the next one, and what is unanswered at the end of *)
(* the epoch is dropped by pending_t1.retain.                              *)
THEOREM RecordsRecent == Spec => []MeasuredRecently
<1>1. EpochInv => MeasuredRecently
  BY DEF EpochInv, RecordInv, Recorded, MeasuredRecently
<1>2. QED  BY <1>1, EpochInvHolds, PTL

(* A beacon of a running daemon, wherever it is stored or on its way,      *)
(* states the number of exchanges its author recorded for that epoch.      *)
THEOREM BeaconsTrue == Spec => []BeaconMatchesLayer0
<1>1. EpochInv => BeaconMatchesLayer0
  BY DEF EpochInv, BeaconInv, States, Seen, BeaconMatchesLayer0
<1>2. QED  BY <1>1, EpochInvHolds, PTL

(* run_geoid_and_emit_tick emits exactly one tick per epoch, also for a    *)
(* daemon that hears of nobody.                                            *)
THEOREM OneTickPerEpoch == Spec => []TickPerEpoch
<1>1. EpochInv => TickPerEpoch
  BY DEF EpochInv, TickedInv, TickPerEpoch
<1>2. QED  BY <1>1, EpochInvHolds, PTL
-----------------------------------------------------------------------------
(* The refinement: who has booted, and the introductions among the         *)
(* datagrams, as module Discovery sees them.                               *)
Booted == {h \in Host : pc[h] # "boot"}
Intros(N) == {Intro(m) : m \in {d \in N : d.type \in {"PeerAnnounce", "TimeRequest"}}}

LEMMA IntrosOfUnion ==
    ASSUME NEW N, NEW S
    PROVE  Intros(N \cup S) = Intros(N) \cup Intros(S)
BY DEF Intros

(* The steps that Discovery does not see.                                  *)
LEMMA Hidden ==
    ASSUME starts' = starts, peers' = peers, Booted' = Booted,
           Intros(net') = Intros(net)
    PROVE  UNCHANGED Disc!vars
BY DEF Disc!vars, Booted, Intros

LEMMA BootstrapRefines ==
    ASSUME IndInv, NEW h \in Host, Bootstrap(h)
    PROVE  Disc!Bootstrap(h)
<1> DEFINE S == {PeerAnnounce(h, to) : to \in BootstrapPeers[h]}
<1>1. h \notin Booted /\ Booted' = Booted \cup {h}
  BY DEF Bootstrap, Booted, IndInv, TypeOK
<1>2. Intros(S) = {Disc!Announce(h, to) : to \in BootstrapPeers[h]}
  BY DEF Intros, Intro, PeerAnnounce, Disc!Announce, Me, Disc!Me
<1>3. Intros(net') = Intros(net) \cup {Disc!Announce(h, to) : to \in BootstrapPeers[h]}
  <2>1. net' = net \cup S
    BY DEF Bootstrap
  <2> HIDE DEF S
  <2>2. QED  BY <1>2, <2>1, IntrosOfUnion
<1>4. starts' = starts /\ peers' = peers
  BY DEF Bootstrap, memory
<1>5. QED  BY <1>1, <1>3, <1>4 DEF Disc!Bootstrap, Booted, Intros

(* A request of the measure phase goes to an id of the peer map, although  *)
(* the epoch loop works through a copy of it.                              *)
LEMMA SendRequestRefines ==
    ASSUME IndInv, NEW h \in Host, NEW p \in todo[h], SendRequest(h, p)
    PROVE  p \in peers[h] /\ Disc!Contact(h, p)
<1> DEFINE req == TimeRequest(h, Addr(p), clock[h], epoch[h])
           ann == PeerAnnounce(h, Addr(p))
<1>1. p \in peers[h] /\ starts' = starts /\ peers' = peers /\ pc' = pc
  BY DEF SendRequest, IndInv, HostInv, PeersInv
<1>2. h \in Booted /\ Booted' = Booted
  BY <1>1 DEF SendRequest, Booted
<1>3. Intros({req, ann}) = Disc!ContactMsgs(h, p)
  <2>1. req.type = "TimeRequest" /\ Intro(req) = Disc!Request(h, Disc!Addr(p))
    BY DEF Intro, TimeRequest, Disc!Request, Me, Disc!Me, Addr, Disc!Addr
  <2>2. ann.type = "PeerAnnounce" /\ Intro(ann) = Disc!Announce(h, Disc!Addr(p))
    BY DEF Intro, PeerAnnounce, Disc!Announce, Me, Disc!Me, Addr, Disc!Addr
  <2> HIDE DEF req, ann
  <2>3. QED  BY <2>1, <2>2 DEF Intros, Disc!ContactMsgs
<1>4. Intros(net') = Intros(net) \cup Disc!ContactMsgs(h, p)
  <2>1. net' = net \cup {req, ann}
    BY DEF SendRequest
  <2> HIDE DEF req, ann
  <2>2. QED  BY <1>3, <2>1, IntrosOfUnion
<1>5. QED  BY <1>1, <1>2, <1>4 DEF Disc!Contact, Booted, Intros

LEMMA AnnounceRefines ==
    ASSUME IndInv, NEW h \in Host, NEW m \in net, RecvPeerAnnounce(h, m)
    PROVE  Intro(m) \in Intros(net) /\ Disc!Handle(h, Intro(m))
<1>1. /\ m.type = "PeerAnnounce" /\ m.to = h
      /\ starts' = starts /\ pc' = pc
      /\ peers' = [peers EXCEPT ![h] = @ \cup {m.from}]
      /\ net' = net \cup {PeerAnnounce(h, Addr(m.from))}
  BY DEF RecvPeerAnnounce, loop
<1>2. Intro(m) \in Intros(net) /\ Intro(m).to = h /\ Intro(m).from = m.from
  BY <1>1 DEF Intros, Intro
<1>3. Intros({PeerAnnounce(h, Addr(m.from))}) = Disc!Reply(h, Intro(m))
  BY <1>1 DEF Intros, Intro, PeerAnnounce, Disc!Reply, Disc!Announce, Me, Disc!Me,
              Addr, Disc!Addr
<1>4. Intros(net') = Intros(net) \cup Disc!Reply(h, Intro(m))
  BY <1>1, <1>3, IntrosOfUnion
<1>5. Booted' = Booted
  BY <1>1 DEF Booted
<1>6. QED
  BY <1>1, <1>2, <1>4, <1>5 DEF Disc!Handle, Disc!PeersAfter, Booted, Intros

(* A request makes its sender known; the answer introduces nobody.         *)
LEMMA RequestRefines ==
    ASSUME IndInv, NEW h \in Host, NEW m \in net, RecvTimeRequest(h, m)
    PROVE  Intro(m) \in Intros(net) /\ Disc!Handle(h, Intro(m))
<1>1. /\ m.type = "TimeRequest" /\ m.to = h
      /\ starts' = starts /\ pc' = pc
      /\ peers' = [peers EXCEPT ![h] = @ \cup {m.from}]
      /\ net' = net \cup {TimeResponse(h, m)}
  BY DEF RecvTimeRequest, loop
<1>2. Intro(m) \in Intros(net) /\ Intro(m).to = h /\ Intro(m).from = m.from
  BY <1>1 DEF Intros, Intro
<1>3. Intros({TimeResponse(h, m)}) = {} /\ Disc!Reply(h, Intro(m)) = {}
  BY <1>1 DEF Intros, Intro, TimeResponse, Disc!Reply
<1>4. Intros(net') = Intros(net) \cup Disc!Reply(h, Intro(m))
  BY <1>1, <1>3, IntrosOfUnion
<1>5. Booted' = Booted
  BY <1>1 DEF Booted
<1>6. QED
  BY <1>1, <1>2, <1>4, <1>5 DEF Disc!Handle, Disc!PeersAfter, Booted, Intros

LEMMA RestartRefines ==
    ASSUME IndInv, NEW h \in Host, Restart(h)
    PROVE  Disc!Restart(h)
<1>1. Booted' = Booted \ {h}
  BY DEF Restart, Booted, IndInv, TypeOK
<1>2. /\ starts' = [starts EXCEPT ![h] = @ + 1]
      /\ peers' = [peers EXCEPT ![h] = {}]
      /\ Intros(net') = Intros(net)
  BY DEF Restart
<1>3. Disc!RestartsSoFar < MaxRestarts
  BY DEF Restart, RestartsSoFar, Disc!RestartsSoFar, MapThenSumSet, Disc!MapThenSumSet,
         MapThenFoldSet, Disc!MapThenFoldSet
<1>4. QED  BY <1>1, <1>2, <1>3 DEF Disc!Restart, Booted, Intros

(* The rest of the epoch loop, an accepted response, which finds its       *)
(* sender in the peer map already, and a beacon.                           *)
LEMMA HiddenSteps ==
    ASSUME IndInv, NEW h \in Host,
           \/ BeginEpoch(h) \/ Solve(h) \/ Publish(h) \/ Tick(h)
           \/ \E m \in net : RecvTimeResponse(h, m) \/ RecvBeacon(h, m)
    PROVE  UNCHANGED Disc!vars
<1> pc \in [Host -> Phase] /\ peers \in [Host -> SUBSET NodeId]
  BY DEF IndInv, TypeOK
<1>1. CASE BeginEpoch(h) \/ Solve(h) \/ Tick(h)
  BY <1>1, Hidden DEF BeginEpoch, Solve, Tick, memory, Booted
<1>2. CASE Publish(h)
  <2> DEFINE S == {BeaconMsg(Addr(p), b) : p \in peers[h],
                     b \in {c \in l1[h] : c.author = Me(h) /\ c.epoch = epoch[h]}}
  <2>1. Intros(S) = {}
    BY DEF Intros, BeaconMsg
  <2>2. Intros(net') = Intros(net)
    <3>1. net' = net \cup S
      BY <1>2 DEF Publish
    <3> HIDE DEF S
    <3>2. QED  BY <2>1, <3>1, IntrosOfUnion
  <2>3. Booted' = Booted /\ starts' = starts /\ peers' = peers
    BY <1>2 DEF Publish, Booted, memory
  <2>4. QED  BY <2>2, <2>3, Hidden
<1>3. ASSUME NEW m \in net, RecvTimeResponse(h, m) PROVE UNCHANGED Disc!vars
  <2>1. m.from \in peers[h]
    BY <1>3 DEF RecvTimeResponse, Answers, IndInv, HostInv, PendingInv
  <2>2. peers' = peers
    BY <1>3, <2>1 DEF RecvTimeResponse
  <2>3. QED  BY <1>3, <2>2, Hidden DEF RecvTimeResponse, loop, Booted
<1>4. ASSUME NEW m \in net, RecvBeacon(h, m) PROVE UNCHANGED Disc!vars
  BY <1>4, Hidden DEF RecvBeacon, loop, Booted
<1>5. QED  BY <1>1, <1>2, <1>3, <1>4

(* Every step of the daemons is a step of Discovery, or none of it.        *)
LEMMA StepRefines ==
    ASSUME IndInv, [Next]_vars
    PROVE  [Disc!Next]_Disc!vars
<1>1. CASE UNCHANGED vars
  BY <1>1, Hidden DEF vars, loop, memory, Booted
<1>2. ASSUME NEW h \in Host, EpochLoop(h) PROVE [Disc!Next]_Disc!vars
  <2>1. CASE Bootstrap(h)
    BY <2>1, BootstrapRefines DEF Disc!Next
  <2>2. ASSUME NEW p \in todo[h], SendRequest(h, p) PROVE Disc!Next
    BY <2>2, SendRequestRefines DEF Disc!Next
  <2>3. QED  BY <1>2, <2>1, <2>2, HiddenSteps DEF EpochLoop
<1>3. ASSUME NEW h \in Host, NEW m \in net, HandleMessage(h, m)
      PROVE  [Disc!Next]_Disc!vars
  <2>1. CASE RecvPeerAnnounce(h, m) \/ RecvTimeRequest(h, m)
    BY <2>1, AnnounceRefines, RequestRefines DEF Disc!Next, Intros
  <2>2. QED  BY <1>3, <2>1, HiddenSteps DEF HandleMessage
<1>4. ASSUME NEW h \in Host, Restart(h) PROVE Disc!Next
  BY <1>4, RestartRefines DEF Disc!Next
<1>5. QED  BY <1>1, <1>2, <1>3, <1>4 DEF Next

(* The daemons implement module Discovery: a daemon learns of another only *)
(* from an announcement or a request of it, contacts only whom it knows,   *)
(* and forgets only by a restart.                                          *)
THEOREM DaemonDiscovers == Spec => ImplementsDiscovery
<1>1. Init => Disc!Init
  BY DEF Init, Disc!Init
<1>2. IndInv /\ [Next]_vars => [Disc!Next]_Disc!vars
  BY StepRefines
<1>3. QED  BY <1>1, <1>2, IndInvHolds, PTL DEF Spec, Disc!Spec, ImplementsDiscovery
=============================================================================
