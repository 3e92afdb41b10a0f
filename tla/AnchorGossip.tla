---------------------------- MODULE AnchorGossip ----------------------------
(***************************************************************************)
(* How nodes share absolute references (RelationalClock in                 *)
(* crates/rtfsn-core/src/sync/relational.rs): a node that exchanges        *)
(* timestamps with an NTP server holds it as an anchor of its own, hands   *)
(* all its anchors on with their ages, keeps what it hears from others,    *)
(* and drops anchors whose reference nobody has measured for long.         *)
(*                                                                         *)
(* The code holds the instant of the last measurement on the node's clock  *)
(* (measured_ns) and turns it into an age to hand it on; the model holds   *)
(* the age, so that only differences of readings of one clock appear, and  *)
(* clocks need not agree.  Who calls the operations, and when, is the      *)
(* owner's business: an owner gossips at most once per Period and calls    *)
(* expire_anchors at least once per unit of time.  A copy in transit       *)
(* carries the age it was sent with; it may be lost, duplicated and        *)
(* overtaken.                                                              *)
(***************************************************************************)
EXTENDS Integers, FiniteSets, Functions, FiniteSetsExt

CONSTANTS
    Node,       \* the nodes that gossip
    Server,     \* the references
    Sigma,      \* spreads an anchor can have (sigma_offset_ns)
    Window,     \* the ten seconds of hear_anchor
    MaxAge,     \* max_age_ns of expire_anchors
    Period,     \* least time between two gossips of a node
    MaxDelay,   \* longest transit
    MaxCopies,  \* how often the network delivers a datagram at most
    QuietCap    \* bound: how far quiet counts

Drift == Cardinality(Node) * MaxDelay

ASSUME AnchorGossipAssumption ==
    /\ IsFiniteSet(Node) /\ Sigma \subseteq Nat
    /\ Window \in Nat /\ MaxAge \in Nat /\ Period \in Nat \ {0}
    /\ MaxDelay \in Nat /\ MaxCopies \in Nat \ {0} /\ QuietCap \in Nat
(* Transit is short against the interval of gossip.                        *)
ASSUME ShortTransit == Period > Drift
(* quiet counts further than any anchor may live.                          *)
ASSUME QuietCounts ==
    (Period - Drift) * QuietCap > Period * (MaxAge + 1 + Drift)

VARIABLES
    tracked,    \* tracked[n]: servers whose track has accepted > 0
    anchors,    \* RelationalClock.anchors, a partial function per node
    since,      \* time since a node last gossiped, counted up to Period
    net,        \* copies in transit
    up,         \* servers that answer
    quiet       \* time since anybody renewed the server's anchor by an
                \* exchange, counted up to QuietCap

vars == <<tracked, anchors, since, net, up, quiet>>

HeldAnchor == [age : 0 .. MaxAge + 1, sigma : Sigma, own : BOOLEAN]
Copy == [to : Node, server : Server, age : 0 .. MaxAge + 1, sigma : Sigma,
         flight : 0 .. MaxDelay, left : 1 .. MaxCopies]

TypeOK ==
    /\ tracked \in [Node -> SUBSET Server]
    /\ DOMAIN anchors = Node
    /\ \A n \in Node : /\ DOMAIN anchors[n] \subseteq Server
                       /\ Range(anchors[n]) \subseteq HeldAnchor
                       /\ \A s \in DOMAIN anchors[n] :
                              anchors[n][s].own => s \in tracked[n]
    /\ since \in [Node -> 0 .. Period]
    /\ net \subseteq Copy
    /\ up \subseteq Server
    /\ quiet \in [Server -> 0 .. QuietCap]

Nothing == [s \in {} |-> s]

Init ==
    /\ tracked = [n \in Node |-> {}]
    /\ anchors = [n \in Node |-> Nothing]
    /\ since = [n \in Node |-> Period]
    /\ net = {}
    /\ up = Server
    /\ quiet = [s \in Server |-> QuietCap]

Holds(n, s) == s \in DOMAIN anchors[n]

(* BTreeMap::insert, remove and retain.                                    *)
Put(n, s, h) ==
    anchors' = [anchors EXCEPT ![n] =
                   [t \in DOMAIN @ \cup {s} |-> IF t = s THEN h ELSE @[t]]]
Retain(n, S) == anchors' = [anchors EXCEPT ![n] = Restrict(@, S)]
-----------------------------------------------------------------------------
(* A server answers an exchange of n, which the track accepts or rejects.  *)
(* Once the track has accepted any exchange, the anchor is renewed either  *)
(* way.                                                                    *)
observe_reference(n, s, accepted, sigma) ==
    /\ s \in up
    /\ LET tracks == IF accepted THEN tracked[n] \cup {s} ELSE tracked[n]
       IN  /\ s \in tracks
           /\ tracked' = [tracked EXCEPT ![n] = tracks]
    /\ Put(n, s, [age |-> 0, sigma |-> sigma, own |-> TRUE])
    /\ quiet' = [quiet EXCEPT ![s] = 0]
    /\ UNCHANGED <<since, net, up>>

(* Faulty variant: an anchor looks fresh at every hop.                     *)
AsNew(n, s) == 0

(* now_ns - measured_ns                                                    *)
GossipedAge(n, s) == anchors[n][s].age

gossip_anchors(n) ==
    /\ since[n] = Period
    /\ since' = [since EXCEPT ![n] = 0]
    /\ net' = net \cup {[to |-> m, server |-> s, age |-> GossipedAge(n, s),
                         sigma |-> anchors[n][s].sigma, flight |-> 0,
                         left |-> MaxCopies]
                           : m \in Node \ {n}, s \in DOMAIN anchors[n]}
    /\ UNCHANGED <<tracked, anchors, up, quiet>>

(* Faulty variant: what a node measures itself can be replaced.            *)
KeepsUnlessWorse(h, c) ==
    \/ h.age + Window < c.age
    \/ h.sigma < c.sigma /\ h.age <= c.age + Window

(* The three arms of hear_anchor that return: the anchor held is the       *)
(* node's own, is fresher by more than the window, or is tighter and not   *)
(* older by more than the window.                                          *)
Keeps(h, c) ==
    \/ h.own
    \/ h.age + Window < c.age
    \/ h.sigma < c.sigma /\ h.age <= c.age + Window

hear_anchor(n, c) ==
    /\ c.to = n
    /\ Holds(n, c.server) => ~ Keeps(anchors[n][c.server], c)
    /\ Put(n, c.server, [age |-> c.age, sigma |-> c.sigma, own |-> FALSE])
    /\ net' = (net \ {c}) \cup
                  (IF c.left = 1 THEN {} ELSE {[c EXCEPT !.left = @ - 1]})
    /\ UNCHANGED <<tracked, since, up, quiet>>

(* Faulty variant: what a node measures itself is never dropped.           *)
FreshOrOwn(n) ==
    {s \in DOMAIN anchors[n] : anchors[n][s].own \/ anchors[n][s].age <= MaxAge}

Fresh(n) == {s \in DOMAIN anchors[n] : anchors[n][s].age <= MaxAge}

expire_anchors(n) ==
    /\ Retain(n, Fresh(n))
    /\ UNCHANGED <<tracked, since, net, up, quiet>>

(* Faulty variant: the track goes, the anchor stays.                       *)
ForgetTrack(n, s) ==
    /\ tracked' = [tracked EXCEPT ![n] = @ \ {s}]
    /\ UNCHANGED <<anchors, since, net, up, quiet>>

forget(n, s) ==
    /\ tracked' = [tracked EXCEPT ![n] = @ \ {s}]
    /\ Retain(n, DOMAIN anchors[n] \ {s})
    /\ UNCHANGED <<since, net, up, quiet>>
-----------------------------------------------------------------------------
(* The environment.                                                        *)
ServerStops(s) ==
    /\ s \in up
    /\ up' = up \ {s}
    /\ UNCHANGED <<tracked, anchors, since, net, quiet>>

(* Anchors age while they are held, not while they travel.                 *)
Tick ==
    /\ \A n \in Node : \A s \in DOMAIN anchors[n] : anchors[n][s].age <= MaxAge
    /\ anchors' = [n \in Node |->
                      [s \in DOMAIN anchors[n] |-> [anchors[n][s] EXCEPT !.age = @ + 1]]]
    /\ net' = {[c EXCEPT !.flight = @ + 1] : c \in {d \in net : d.flight < MaxDelay}}
    /\ since' = [n \in Node |-> Min({since[n] + 1, Period})]
    /\ quiet' = [s \in Server |-> Min({quiet[s] + 1, QuietCap})]
    /\ UNCHANGED <<tracked, up>>

Next ==
    \/ \E n \in Node, s \in Server, accepted \in BOOLEAN, sigma \in Sigma :
           observe_reference(n, s, accepted, sigma)
    \/ \E n \in Node : gossip_anchors(n) \/ expire_anchors(n)
    \/ \E n \in Node, c \in net : hear_anchor(n, c)
    \/ \E n \in Node, s \in Server : forget(n, s)
    \/ \E s \in Server : ServerStops(s)
    \/ Tick

(* Time passes, and every owner calls expire_anchors again and again.      *)
Fairness == SF_vars(Tick) /\ \A n \in Node : WF_vars(expire_anchors(n))

Spec == Init /\ [][Next]_vars /\ Fairness
-----------------------------------------------------------------------------
Copies(s) == {anchors[n][s] : n \in {m \in Node : Holds(m, s)}} \cup
             {c \in net : c.server = s}

(* However a copy was passed around, it says at least how long the server  *)
(* has not been measured, up to the time spent in transit: at most MaxDelay*)
(* of every hop, and no more than one hop per node and Period.  Without    *)
(* delays, no copy ever looks fresher than the last exchange.              *)
NeverLooksFresh ==
    \A s \in Server : \A c \in Copies(s) :
        (Period - Drift) * quiet[s] <= Period * (c.age + Drift)

(* Hearsay never replaces an anchor by one that is looser without being    *)
(* fresher by more than the window, nor a measurement of the node's own.   *)
HearsayImproves ==
    [][\A n \in Node : \A s \in DOMAIN anchors[n] \cap DOMAIN anchors'[n] :
          LET h == anchors[n][s]
              k == anchors'[n][s]
          IN  ~ k.own =>
                  /\ ~ h.own
                  /\ k.sigma > h.sigma => k.age + Window < h.age]_anchors

(* A server that has stopped is forgotten by all for good, even though the *)
(* nodes keep handing it on to each other and renew it at every hearing.   *)
StoppedForgotten ==
    \A s \in Server : s \notin up ~> [](Copies(s) = {})
=============================================================================
