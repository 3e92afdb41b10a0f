----------------------------- MODULE Discovery ------------------------------
(***************************************************************************)
(* How daemons come to know each other (crates/rtfsn-daemon/src/main.rs).  *)
(* A daemon that starts announces itself once to the addresses on its      *)
(* command line.  It answers every announcement with its own, takes the    *)
(* sender of an announcement or of a TimeRequest into its peer map, and in *)
(* every epoch sends both to every id in the map.  It never removes an id. *)
(*                                                                         *)
(* This is an abstraction of module Daemon, which implements it: epochs    *)
(* are not counted, so the loop may run for ever and what eventually       *)
(* happens can be checked.  The network may lose, duplicate and reorder.   *)
(***************************************************************************)
EXTENDS Integers, FiniteSetsExt

CONSTANTS
    Host,           \* the socket addresses daemons listen on
    BootstrapPeers, \* --peers of each host
    MaxRestarts     \* bound: how often daemons are restarted, all together

ASSUME DiscoveryAssumption ==
    /\ BootstrapPeers \in [Host -> SUBSET Host]
    /\ \A h \in Host : h \notin BootstrapPeers[h]
    /\ MaxRestarts \in Nat

VARIABLES
    starts,     \* how often each host's daemon was restarted
    booted,     \* hosts whose daemon has sent its bootstrap announcements
    peers,      \* NodeState.peers
    intros      \* announcements and requests in flight

vars == <<starts, booted, peers, intros>>

NodeId  == Host \X Nat
Addr(p) == p[1]
Me(h)   == <<h, starts[h]>>

RestartsSoFar == MapThenSumSet(LAMBDA h : starts[h], Host)

Knows(h, g) == \E p \in peers[h] : Addr(p) = g

Intro == [type : {"PeerAnnounce", "TimeRequest"}, from : NodeId, to : Host]

Announce(h, to) == [type |-> "PeerAnnounce", from |-> Me(h), to |-> to]
Request(h, to)  == [type |-> "TimeRequest", from |-> Me(h), to |-> to]

TypeOK ==
    /\ starts \in [Host -> Nat]
    /\ booted \subseteq Host
    /\ peers \in [Host -> SUBSET NodeId]
    /\ intros \subseteq Intro

Init ==
    /\ starts = [h \in Host |-> 0]
    /\ booted = {}
    /\ peers = [h \in Host |-> {}]
    /\ intros = {}

Bootstrap(h) ==
    /\ h \notin booted
    /\ booted' = booted \cup {h}
    /\ intros' = intros \cup {Announce(h, to) : to \in BootstrapPeers[h]}
    /\ UNCHANGED <<starts, peers>>

(* What a daemon sends to a peer it reaches in the measure phase.          *)
ContactMsgs(h, p) == {Request(h, Addr(p)), Announce(h, Addr(p))}

(* The measure phase of some epoch reaches the id p of the peer map.       *)
Contact(h, p) ==
    /\ h \in booted
    /\ p \in peers[h]
    /\ intros' = intros \cup ContactMsgs(h, p)
    /\ UNCHANGED <<starts, booted, peers>>

(* Faulty variant: the answer to an announcement is broadcast.             *)
BroadcastReply(h, m) ==
    IF m.type = "PeerAnnounce" THEN {Announce(h, g) : g \in Host \ {h}} ELSE {}

(* What the handler of m sends.                                            *)
Reply(h, m) ==
    IF m.type = "PeerAnnounce" THEN {Announce(h, Addr(m.from))} ELSE {}

(* Faulty variant: the map keeps one id per address, the first it hears.   *)
FirstIdPerAddress(h, m) ==
    IF Knows(h, Addr(m.from)) THEN peers[h] ELSE peers[h] \cup {m.from}

(* Faulty variant: the sender's address is taken for its id.               *)
AddressForId(h, m) == peers[h] \cup {Addr(m.from)}

(* peers.insert of an announcement, entry().or_insert of a request: the    *)
(* address is that of the sender either way.                               *)
PeersAfter(h, m) == peers[h] \cup {m.from}

(* The handler of m runs; m is spent, or a duplicate of it is still due.   *)
Handle(h, m) ==
    /\ m \in intros
    /\ m.to = h
    /\ peers' = [peers EXCEPT ![h] = PeersAfter(h, m)]
    /\ \E rest \in {intros, intros \ {m}} : intros' = rest \cup Reply(h, m)
    /\ UNCHANGED <<starts, booted>>

Lose(m) ==
    /\ m \in intros
    /\ intros' = intros \ {m}
    /\ UNCHANGED <<starts, booted, peers>>

Restart(h) ==
    /\ RestartsSoFar < MaxRestarts
    /\ starts' = [starts EXCEPT ![h] = @ + 1]
    /\ booted' = booted \ {h}
    /\ peers' = [peers EXCEPT ![h] = {}]
    /\ UNCHANGED intros

Next ==
    \/ \E h \in Host :
          \/ Bootstrap(h)
          \/ \E p \in peers[h] : Contact(h, p)
          \/ \E m \in intros : Handle(h, m)
          \/ Restart(h)
    \/ \E m \in intros : Lose(m)

Spec == Init /\ [][Next]_vars

(* The epoch loop never blocks, so every address of the map is contacted   *)
(* again and again; of the datagrams that a running daemon sends again and *)
(* again to another one, of whichever type, some get through.              *)
ContactHost(h, g) == \E p \in peers[h] : Addr(p) = g /\ Contact(h, p)
HandleFrom(h, g)  == \E m \in intros : m.from = Me(g) /\ Handle(h, m)

Fairness ==
    \A h \in Host :
        /\ WF_vars(Bootstrap(h))
        /\ \A g \in Host \ {h} : WF_vars(ContactHost(h, g)) /\ SF_vars(HandleFrom(h, g))

FairSpec == Spec /\ Fairness

-----------------------------------------------------------------------------
(* Daemons know each other only along the command lines: no message tells  *)
(* a daemon of a third one, so two daemons that joined through the same    *)
(* anchor never measure each other.  A known id is one that has existed.   *)
LinksFollowBootstrap ==
    \A h \in Host : \A p \in peers[h] :
        /\ Addr(p) \in BootstrapPeers[h] \/ h \in BootstrapPeers[Addr(p)]
        /\ p[2] <= starts[Addr(p)]

(* "Re-announce ourselves in case peer restarted": two hosts of which one  *)
(* keeps the other's address in its map end up knowing each other's        *)
(* current id for good, whatever the network loses and whoever restarts.   *)
Converges ==
    \A h, g \in Host :
        <>[](Knows(h, g) => Me(h) \in peers[g] /\ Me(g) \in peers[h])
=============================================================================
