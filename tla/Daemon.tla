------------------------------- MODULE Daemon -------------------------------
(***************************************************************************)
(* A network of rtfsn daemons (crates/rtfsn-daemon/src/main.rs): on every  *)
(* host an epoch loop and a receive loop that share one NodeState behind a *)
(* mutex.                                                                  *)
(*                                                                         *)
(* An action is one critical section of that mutex, together with the      *)
(* sends around it: a send reads nothing of the shared state, so it        *)
(* commutes with every step up to the delivery of its datagram.            *)
(*                                                                         *)
(* A host is a socket address.  Every start of the daemon generates a      *)
(* fresh key pair, so a node id is a host with the number of its start,    *)
(* and the address stored for an id is always the host of that id (a       *)
(* daemon sends from the socket it listens on).                            *)
(*                                                                         *)
(* The network is UDP.  `net' is the set of all datagrams ever sent:       *)
(* handling one more than once is duplication, handling them in any order  *)
(* is reordering, never handling one is loss.                              *)
(***************************************************************************)
EXTENDS Integers, FiniteSets, FiniteSetsExt, Sequences, SequencesExt

CONSTANTS
    Host,           \* the socket addresses daemons listen on
    BootstrapPeers, \* --peers of each host: [Host -> SUBSET Host]
    Epochs,         \* bound: how many epochs each daemon runs
    MaxRestarts     \* bound: how often daemons are restarted, all together

ASSUME HostAssumption ==
    BootstrapPeers \in [Host -> SUBSET Host]
ASSUME NoSelfBootstrap ==
    \A h \in Host : h \notin BootstrapPeers[h]
ASSUME BoundAssumption ==
    Epochs \in [Host -> Nat] /\ MaxRestarts \in Nat

VARIABLES
    starts,     \* how often each host's daemon was restarted
    clock,      \* a host's wall clock, read once for every TimeRequest
    pc,         \* where each epoch loop stands
    epoch,      \* epoch_num of each epoch loop
    todo,       \* rest of the epoch loop's copy of the peer map
    peers,      \* NodeState.peers
    pending,    \* NodeState.pending_t1
    lut,        \* NodeState.twist_lut: what each peer's twists measured
    raw,        \* NodeState.raw_exchanges
    l0,         \* NodeState.l0_store
    l1,         \* NodeState.l1_store
    l2,         \* NodeState.l2_aggregator: epochs with a cluster
    stream,     \* NodeState.clock_stream: epoch of the latest tick
    net         \* all datagrams sent so far

memory == <<peers, pending, lut, raw, l0, l1, l2, stream>>
loop   == <<pc, epoch, todo>>
vars   == <<starts, clock, loop, memory, net>>

-----------------------------------------------------------------------------
NodeId  == Host \X Nat
Epoch   == Nat
Addr(p) == p[1]
Me(h)   == <<h, starts[h]>>

RestartsSoFar == MapThenSumSet(LAMBDA h : starts[h], Host)

(* One request for the time of `peer', and the exchange its answer makes.  *)
(* Timestamps other than t1 decide nothing in the daemon's control.        *)
Exchange == [peer : NodeId, t1 : Nat, epoch : Epoch]

Layer0Entry == [epoch : Epoch, measurements : Seq(Exchange)]

(* A beacon's blinded commitment is drawn afresh for each author and epoch.*)
Beacon == [author : NodeId, epoch : Epoch, peer_count : Nat]

Message ==
         [type : {"PeerAnnounce"}, from : NodeId, to : Host]
    \cup [type : {"TimeRequest", "TimeResponse"}, from : NodeId, to : Host,
          t1 : Nat, epoch : Epoch]
    \cup [type : {"Beacon"}, to : Host, beacon : Beacon]

PeerAnnounce(h, to) ==
    [type |-> "PeerAnnounce", from |-> Me(h), to |-> to]
TimeRequest(h, to, t1, e) ==
    [type |-> "TimeRequest", from |-> Me(h), to |-> to, t1 |-> t1, epoch |-> e]
TimeResponse(h, req) ==
    [type |-> "TimeResponse", from |-> Me(h), to |-> Addr(req.from),
     t1 |-> req.t1, epoch |-> req.epoch]
BeaconMsg(to, b) ==
    [type |-> "Beacon", to |-> to, beacon |-> b]

Phase == {"boot", "begin", "measure", "publish", "tick"}

TypeOK ==
    /\ starts \in [Host -> Nat]
    /\ clock \in [Host -> Nat]
    /\ pc \in [Host -> Phase]
    /\ epoch \in [Host -> Epoch]
    /\ todo \in [Host -> SUBSET NodeId]
    /\ peers \in [Host -> SUBSET NodeId]
    /\ pending \in [Host -> SUBSET Exchange]
    /\ lut \in [Host -> SUBSET [peer : NodeId, epoch : Epoch]]
    /\ raw \in [Host -> Seq(Exchange)]
    /\ l0 \in [Host -> Seq(Layer0Entry)]
    /\ l1 \in [Host -> SUBSET Beacon]
    /\ l2 \in [Host -> SUBSET Epoch]
    /\ stream \in [Host -> Nat]
    /\ net \subseteq Message

Init ==
    /\ starts = [h \in Host |-> 0]
    /\ clock = [h \in Host |-> 0]
    /\ pc = [h \in Host |-> "boot"]
    /\ epoch = [h \in Host |-> 0]
    /\ todo = [h \in Host |-> {}]
    /\ peers = [h \in Host |-> {}]
    /\ pending = [h \in Host |-> {}]
    /\ lut = [h \in Host |-> {}]
    /\ raw = [h \in Host |-> <<>>]
    /\ l0 = [h \in Host |-> <<>>]
    /\ l1 = [h \in Host |-> {}]
    /\ l2 = [h \in Host |-> {}]
    /\ stream = [h \in Host |-> 0]
    /\ net = {}

-----------------------------------------------------------------------------
(* The epoch loop.                                                         *)

(* Announce ourselves to the bootstrap addresses, once.                    *)
Bootstrap(h) ==
    /\ pc[h] = "boot"
    /\ pc' = [pc EXCEPT ![h] = "begin"]
    /\ net' = net \cup {PeerAnnounce(h, to) : to \in BootstrapPeers[h]}
    /\ UNCHANGED <<starts, clock, epoch, todo, memory>>

(* Copy the peer map; it may grow while the copy is worked through.        *)
BeginEpoch(h) ==
    /\ pc[h] = "begin"
    /\ epoch[h] < Epochs[h]
    /\ pc' = [pc EXCEPT ![h] = "measure"]
    /\ todo' = [todo EXCEPT ![h] = peers[h]]
    /\ UNCHANGED <<starts, clock, epoch, memory, net>>

(* pending_t1.insert: one entry per peer, the old one is overwritten.      *)
InsertPending(h, x) ==
    {y \in pending[h] : y.peer # x.peer} \cup {x}

SendRequest(h, p) ==
    /\ pc[h] = "measure"
    /\ p \in todo[h]
    /\ todo' = [todo EXCEPT ![h] = @ \ {p}]
    /\ clock' = [clock EXCEPT ![h] = @ + 1]
    /\ pending' = [pending EXCEPT ![h] =
           InsertPending(h, [peer |-> p, t1 |-> clock[h], epoch |-> epoch[h]])]
    /\ net' = net \cup {TimeRequest(h, Addr(p), clock[h], epoch[h]),
                        PeerAnnounce(h, Addr(p))}
    /\ UNCHANGED <<starts, pc, epoch, peers, lut, raw, l0, l1, l2, stream>>

(* Layer1Store::insert: a beacon whose key is taken is refused.            *)
InsertBeacon(h, b) ==
    IF \E c \in l1[h] : c.author = b.author /\ c.epoch = b.epoch
    THEN l1[h]
    ELSE l1[h] \cup {b}

(* Faulty variant: raw_exchanges is not cleared.                           *)
RawKept(h) == raw[h]

(* raw_exchanges after solve_and_advance.                                  *)
RawAfterSolve(h) == <<>>

(* Faulty variant: the beacon is made after raw_exchanges is cleared.      *)
BeaconAfterClear(h) ==
    [author |-> Me(h), epoch |-> epoch[h], peer_count |-> Len(RawAfterSolve(h))]

(* Faulty variant: the count leaves one exchange out.                      *)
BeaconOneShort(h) ==
    [author |-> Me(h), epoch |-> epoch[h], peer_count |-> Len(raw[h]) - 1]

(* The beacon valve_l0_to_l1 makes of the entry of this epoch.             *)
OwnBeacon(h) ==
    [author |-> Me(h), epoch |-> epoch[h], peer_count |-> Len(raw[h])]

(* solve_and_advance and build_and_publish_beacon, under one lock.         *)
Solve(h) ==
    /\ pc[h] = "measure"
    /\ todo[h] = {}
    /\ pc' = [pc EXCEPT ![h] = "publish"]
    /\ l0' = [l0 EXCEPT ![h] =
           Append(@, [epoch |-> epoch[h], measurements |-> raw[h]])]
    /\ raw' = [raw EXCEPT ![h] = RawAfterSolve(h)]
    /\ l1' = [l1 EXCEPT ![h] = InsertBeacon(h, OwnBeacon(h))]
    /\ UNCHANGED <<starts, clock, epoch, todo, peers, pending, lut, l2,
                   stream, net>>

(* Send the beacon to the peers known now.                                 *)
Publish(h) ==
    /\ pc[h] = "publish"
    /\ pc' = [pc EXCEPT ![h] = "tick"]
    /\ net' = net \cup
           {BeaconMsg(Addr(p), b) : p \in peers[h],
              b \in {c \in l1[h] : c.author = Me(h) /\ c.epoch = epoch[h]}}
    /\ UNCHANGED <<starts, clock, epoch, todo, memory>>

(* Faulty variant: unanswered requests are kept.                           *)
RetainAllPending(h) == pending[h]

(* pending_t1.retain at the end of the epoch.                              *)
RetainPending(h) ==
    {x \in pending[h] : x.epoch # epoch[h]}

(* Faulty variant: one more beacon than the daemon's own is asked for.     *)
ClustersOfTwo(h) ==
    l2[h] \cup (IF Cardinality({b \in l1[h] : b.epoch = epoch[h]}) > 1
               THEN {epoch[h]} ELSE {})

(* valve_l1_to_l2: clusters for this epoch if any beacon of it is stored.  *)
ClustersAfter(h) ==
    l2[h] \cup (IF \E b \in l1[h] : b.epoch = epoch[h] THEN {epoch[h]} ELSE {})

(* run_geoid_and_emit_tick, and the clean-up of the pending requests.      *)
Tick(h) ==
    /\ pc[h] = "tick"
    /\ pc' = [pc EXCEPT ![h] = "begin"]
    /\ epoch' = [epoch EXCEPT ![h] = @ + 1]
    /\ l2' = [l2 EXCEPT ![h] = ClustersAfter(h)]
    /\ stream' = [stream EXCEPT ![h] =
           IF epoch[h] \in ClustersAfter(h) THEN @ + 1 ELSE @]
    /\ pending' = [pending EXCEPT ![h] = RetainPending(h)]
    /\ UNCHANGED <<starts, clock, todo, peers, lut, raw, l0, l1, net>>

-----------------------------------------------------------------------------
(* The receive loop: handle_message.                                       *)

RecvPeerAnnounce(h, m) ==
    /\ m.type = "PeerAnnounce" /\ m.to = h
    /\ peers' = [peers EXCEPT ![h] = @ \cup {m.from}]
    /\ net' = net \cup {PeerAnnounce(h, Addr(m.from))}
    /\ UNCHANGED <<starts, clock, loop, pending, lut, raw, l0, l1, l2, stream>>

RecvTimeRequest(h, m) ==
    /\ m.type = "TimeRequest" /\ m.to = h
    /\ peers' = [peers EXCEPT ![h] = @ \cup {m.from}]
    /\ net' = net \cup {TimeResponse(h, m)}
    /\ UNCHANGED <<starts, clock, loop, pending, lut, raw, l0, l1, l2, stream>>

(* Faulty variant: any answer of a peer we wait for is accepted.           *)
AnswersFromPeer(h, m) ==
    {x \in pending[h] : x.peer = m.from}

(* The pending request a TimeResponse must match: same sender, t1, epoch.  *)
Answers(h, m) ==
    {x \in pending[h] : x.peer = m.from /\ x.t1 = m.t1 /\ x.epoch = m.epoch}

(* Faulty variant: the matched request stays pending.                      *)
KeepPending(h, p) == pending[h]

PendingAfter(h, p) ==
    {x \in pending[h] : x.peer # p}

(* Faulty variant: the sender becomes a peer before the request is looked  *)
(* up.                                                                     *)
EagerTimeResponse(h, m) ==
    /\ m.type = "TimeResponse" /\ m.to = h
    /\ peers' = [peers EXCEPT ![h] = @ \cup {m.from}]
    /\ pending' = [pending EXCEPT ![h] = @ \ Answers(h, m)]
    /\ UNCHANGED <<starts, clock, loop, lut, raw, l0, l1, l2, stream, net>>

RecvTimeResponse(h, m) ==
    /\ m.type = "TimeResponse" /\ m.to = h
    /\ Answers(h, m) # {}
    /\ pending' = [pending EXCEPT ![h] = PendingAfter(h, m.from)]
    /\ peers' = [peers EXCEPT ![h] = @ \cup {m.from}]
    /\ lut' = [lut EXCEPT ![h] = @ \cup {[peer |-> m.from, epoch |-> m.epoch]}]
    /\ raw' = [raw EXCEPT ![h] =
           Append(@, [peer |-> m.from, t1 |-> m.t1, epoch |-> m.epoch])]
    /\ UNCHANGED <<starts, clock, loop, l0, l1, l2, stream, net>>

RecvBeacon(h, m) ==
    /\ m.type = "Beacon" /\ m.to = h
    /\ l1' = [l1 EXCEPT ![h] = InsertBeacon(h, m.beacon)]
    /\ UNCHANGED <<starts, clock, loop, peers, pending, lut, raw, l0, l2,
                   stream, net>>

-----------------------------------------------------------------------------
(* The daemon dies, its supervisor starts it again: NodeState::new under a *)
(* fresh node id, epoch_num back at 0, the address and the wall clock kept.*)
Restart(h) ==
    /\ RestartsSoFar < MaxRestarts
    /\ starts' = [starts EXCEPT ![h] = @ + 1]
    /\ pc' = [pc EXCEPT ![h] = "boot"]
    /\ epoch' = [epoch EXCEPT ![h] = 0]
    /\ todo' = [todo EXCEPT ![h] = {}]
    /\ peers' = [peers EXCEPT ![h] = {}]
    /\ pending' = [pending EXCEPT ![h] = {}]
    /\ lut' = [lut EXCEPT ![h] = {}]
    /\ raw' = [raw EXCEPT ![h] = <<>>]
    /\ l0' = [l0 EXCEPT ![h] = <<>>]
    /\ l1' = [l1 EXCEPT ![h] = {}]
    /\ l2' = [l2 EXCEPT ![h] = {}]
    /\ stream' = [stream EXCEPT ![h] = 0]
    /\ UNCHANGED <<clock, net>>

EpochLoop(h) ==
    \/ Bootstrap(h)
    \/ BeginEpoch(h)
    \/ \E p \in todo[h] : SendRequest(h, p)
    \/ Solve(h)
    \/ Publish(h)
    \/ Tick(h)

HandleMessage(h, m) ==
    \/ RecvPeerAnnounce(h, m)
    \/ RecvTimeRequest(h, m)
    \/ RecvTimeResponse(h, m)
    \/ RecvBeacon(h, m)

Next ==
    \E h \in Host :
        \/ EpochLoop(h)
        \/ \E m \in net : HandleMessage(h, m)
        \/ Restart(h)

Spec == Init /\ [][Next]_vars
-----------------------------------------------------------------------------
(* The batches of accepted exchanges, oldest first: one per recorded       *)
(* epoch, and the one that waits for the next solve.                       *)
Batch(h, i) ==
    IF i \in DOMAIN l0[h] THEN l0[h][i].measurements ELSE raw[h]
Batches(h) == 1 .. Len(l0[h]) + 1

(* The request that asked for an exchange of host h.                       *)
Asked(h, x) == TimeRequest(h, Addr(x.peer), x.t1, x.epoch)

(* Two exchanges with the same t1, or with the same peer in an epoch.      *)
SameRequest(x, y) == x.t1 = y.t1 \/ (x.peer = y.peer /\ x.epoch = y.epoch)

(* A request is answered at most once, however often its response is       *)
(* duplicated or delayed, and a peer is measured at most once in an epoch: *)
(* handle_message removes the pending entry it matched.                    *)
AcceptedOnce ==
    \A h \in Host : \A i, j \in Batches(h) :
        \A k \in DOMAIN Batch(h, i), n \in DOMAIN Batch(h, j) :
            SameRequest(Batch(h, i)[k], Batch(h, j)[n]) => i = j /\ k = n

(* Every accepted exchange answers a request that this very daemon sent to *)
(* the address of the peer it is recorded for: the answer to a request of  *)
(* an earlier start, or of another id at the address, is ignored.          *)
AnswersOwnRequest ==
    \A h \in Host : \A i \in Batches(h) : \A k \in DOMAIN Batch(h, i) :
        Asked(h, Batch(h, i)[k]) \in net

(* The entries of layer 0 are one per solved epoch, in order, and hold     *)
(* exchanges of that epoch and the one before it, never older ones: the    *)
(* tick of an epoch drops the requests that are still unanswered.          *)
MeasuredRecently ==
    \A h \in Host :
        /\ Len(l0[h]) = epoch[h] + (IF pc[h] \in {"publish", "tick"} THEN 1 ELSE 0)
        /\ \A i \in Batches(h) : \A k \in DOMAIN Batch(h, i) :
               Batch(h, i)[k].epoch \in {i - 2, i - 1}
        /\ \A i \in DOMAIN l0[h] : l0[h][i].epoch = i - 1

(* Whatever beacon of a running daemon a store holds or the network        *)
(* carries states the number of exchanges its author recorded in layer 0   *)
(* for that epoch: solve and beacon are one critical section.              *)
BeaconMatchesLayer0 ==
    \A g, h \in Host :
        \A b \in l1[g] \cup {m.beacon : m \in {d \in net : d.type = "Beacon"}} :
            b.author = Me(h) =>
                /\ b.epoch + 1 \in DOMAIN l0[h]
                /\ b.peer_count = Len(l0[h][b.epoch + 1].measurements)

(* Every epoch of a daemon ends with exactly one tick of its clock stream: *)
(* its own beacon alone is enough to form a cluster.                       *)
TickPerEpoch ==
    \A h \in Host : stream[h] = epoch[h] /\ l2[h] = 0 .. epoch[h] - 1

(* A daemon never takes itself for a peer, and waits only for answers of   *)
(* the current epoch and of peers it knows, one request each.              *)
PendingIsCurrent ==
    \A h \in Host :
        /\ \A p \in peers[h] \cup todo[h] : Addr(p) # h
        /\ \A x \in pending[h] :
              /\ x.epoch = epoch[h]
              /\ x.peer \in peers[h] \ todo[h]
              /\ x.t1 < clock[h]
              /\ pc[h] \in {"measure", "publish", "tick"}
        /\ \A x, y \in pending[h] :
              x.peer = y.peer \/ x.t1 = y.t1 => x = y

(* Module Discovery is an abstract specification of the daemons: every     *)
(* step is one of its steps or none.  So an accepted TimeResponse teaches  *)
(* a daemon no new id although its handler inserts the sender, the stale   *)
(* copy of the peer map holds no id the map has lost, and nothing of an    *)
(* earlier start reaches the peer map but an announcement or a request.    *)
Intro(m) == [type |-> m.type, from |-> m.from, to |-> m.to]

Disc == INSTANCE Discovery WITH
    booted <- {h \in Host : pc[h] # "boot"},
    intros <- {Intro(m) : m \in {d \in net : d.type \in {"PeerAnnounce", "TimeRequest"}}}

ImplementsDiscovery == Disc!Spec

(* What PeerCountProof says of a beacon (layer1.rs): "the node             *)
(* incorporated at least k distinct peers", k being the number of          *)
(* exchanges recorded for the epoch.                                       *)
DistinctPeers ==
    \A h \in Host : \A i \in DOMAIN l0[h] :
        LET ms == l0[h][i].measurements
        IN  Cardinality({ms[k].peer : k \in DOMAIN ms}) >= Len(ms)
=============================================================================
