-------------------------- MODULE DiscoveryProofs ---------------------------
(***************************************************************************)
(* What holds of module Discovery for any hosts, command lines and number  *)
(* of restarts, whatever the network loses, repeats and reorders.          *)
(***************************************************************************)
EXTENDS Discovery, TLAPS

LEMMA IdTypes ==
    ASSUME TypeOK
    PROVE  /\ \A h \in Host : Me(h) \in NodeId /\ Addr(Me(h)) = h
           /\ \A p \in NodeId : Addr(p) \in Host
           /\ \A h, to \in Host : Announce(h, to) \in Intro /\ Request(h, to) \in Intro
BY DEF TypeOK, Me, NodeId, Addr, Announce, Request, Intro

(* The types are inductive.                                                *)
LEMMA TypeInductive ==
    ASSUME TypeOK, [Next]_vars
    PROVE  TypeOK'
<1>1. ASSUME NEW h \in Host, Bootstrap(h) PROVE TypeOK'
  <2>1. intros' \subseteq Intro
    BY <1>1, IdTypes, DiscoveryAssumption DEF Bootstrap, TypeOK
  <2>2. QED  BY <1>1, <2>1 DEF Bootstrap, TypeOK
<1>2. ASSUME NEW h \in Host, NEW p \in peers[h], Contact(h, p) PROVE TypeOK'
  <2>1. Addr(p) \in Host
    BY IdTypes DEF TypeOK
  <2>2. ContactMsgs(h, p) \subseteq Intro
    BY <2>1, IdTypes DEF ContactMsgs
  <2>3. QED  BY <1>2, <2>2 DEF Contact, TypeOK
<1>3. ASSUME NEW h \in Host, NEW m \in intros, Handle(h, m) PROVE TypeOK'
  <2>1. m.from \in NodeId /\ Addr(m.from) \in Host
    BY IdTypes DEF TypeOK, Intro
  <2>2. Reply(h, m) \subseteq Intro
    BY <2>1, IdTypes DEF Reply
  <2>3. peers' \in [Host -> SUBSET NodeId]
    BY <1>3, <2>1 DEF Handle, PeersAfter, TypeOK
  <2>4. QED  BY <1>3, <2>2, <2>3 DEF Handle, TypeOK
<1>4. ASSUME NEW m \in intros, Lose(m) PROVE TypeOK'
  BY <1>4 DEF Lose, TypeOK
<1>5. ASSUME NEW h \in Host, Restart(h) PROVE TypeOK'
  BY <1>5 DEF Restart, TypeOK
<1>6. CASE UNCHANGED vars
  BY <1>6 DEF vars, TypeOK
<1>7. QED  BY <1>1, <1>2, <1>3, <1>4, <1>5, <1>6 DEF Next

(* The state of discovery keeps its types: what is sent goes to a host,    *)
(* and what a daemon learns is the id of some start of a host.             *)
THEOREM DiscoveryTypeCorrect == Spec => []TypeOK
<1>1. Init => TypeOK
  BY DEF Init, TypeOK
<1>2. TypeOK /\ [Next]_vars => TypeOK'
  BY TypeInductive
<1>3. QED  BY <1>1, <1>2, PTL DEF Spec
-----------------------------------------------------------------------------
(* Two hosts of which one has the other on its command line.               *)
Linked(h, g) == g \in BootstrapPeers[h] \/ h \in BootstrapPeers[g]

(* An id that has been in use, of a host linked with h.                    *)
Introduced(h, p) == Linked(h, Addr(p)) /\ p[2] <= starts[Addr(p)]

(* What is known must have been on its way before, so the invariant speaks *)
(* of the datagrams in flight as well.                                     *)
LinkInv ==
    /\ \A h \in Host : \A p \in peers[h] : Introduced(h, p)
    /\ \A m \in intros : Introduced(m.to, m.from)

(* An id introduced once remains so: start numbers only grow.              *)
LEMMA StaysIntroduced ==
    ASSUME TypeOK, TypeOK', NEW h \in Host, NEW p \in NodeId, Introduced(h, p),
           \A g \in Host : starts[g] <= starts'[g]
    PROVE  Introduced(h, p)'
<1>1. Addr(p) \in Host /\ p[2] \in Nat
  BY DEF NodeId, Addr
<1>2. starts[Addr(p)] \in Nat /\ starts'[Addr(p)] \in Nat
  BY <1>1 DEF TypeOK
<1>3. p[2] <= starts'[Addr(p)]
  BY <1>1, <1>2 DEF Introduced
<1>4. QED  BY <1>3 DEF Introduced, Linked

(* A daemon's own id, as it sends it.                                      *)
LEMMA OwnIdIntroduced ==
    ASSUME TypeOK, NEW h \in Host, NEW to \in Host, Linked(h, to)
    PROVE  /\ Introduced(Announce(h, to).to, Announce(h, to).from)
           /\ Introduced(Request(h, to).to, Request(h, to).from)
<1>1. Introduced(to, Me(h))
  BY DEF TypeOK, Introduced, Linked, Me, Addr
<1>2. QED  BY <1>1 DEF Announce, Request

LEMMA LinkInductive ==
    ASSUME TypeOK, LinkInv, [Next]_vars
    PROVE  LinkInv'
<1> TypeOK'
  BY TypeInductive
<1>0. ASSUME NEW S, intros' \subseteq intros \cup S,
             \A m \in S : Introduced(m.to, m.from),
             starts' = starts,
             \A h \in Host : \A p \in peers'[h] : p \in peers[h] \/ Introduced(h, p)
      PROVE  LinkInv'
  BY <1>0 DEF LinkInv, Introduced
<1>1. ASSUME NEW h \in Host, Bootstrap(h) PROVE LinkInv'
  <2> DEFINE S == {Announce(h, to) : to \in BootstrapPeers[h]}
  <2>1. \A to \in BootstrapPeers[h] : to \in Host /\ Linked(h, to)
    BY DiscoveryAssumption DEF Linked
  <2>2. \A m \in S : Introduced(m.to, m.from)
    BY <2>1, OwnIdIntroduced
  <2>3. intros' = intros \cup S /\ starts' = starts /\ peers' = peers
    BY <1>1 DEF Bootstrap
  <2> HIDE DEF S
  <2>4. QED  BY <1>0, <2>2, <2>3
<1>2. ASSUME NEW h \in Host, NEW p \in peers[h], Contact(h, p) PROVE LinkInv'
  <2>1. Addr(p) \in Host /\ Linked(h, Addr(p))
    BY IdTypes DEF TypeOK, LinkInv, Introduced
  <2>2. \A m \in ContactMsgs(h, p) : Introduced(m.to, m.from)
    BY <2>1, OwnIdIntroduced DEF ContactMsgs
  <2>3. intros' = intros \cup ContactMsgs(h, p) /\ starts' = starts /\ peers' = peers
    BY <1>2 DEF Contact
  <2>4. QED  BY <1>0, <2>2, <2>3
<1>3. ASSUME NEW h \in Host, NEW m \in intros, Handle(h, m) PROVE LinkInv'
  <2>1. m.to = h /\ m.from \in NodeId /\ Addr(m.from) \in Host
    BY <1>3, IdTypes DEF Handle, TypeOK, Intro
  <2>2. Introduced(h, m.from) /\ Linked(h, Addr(m.from))
    BY <2>1 DEF LinkInv, Introduced
  <2>3. \A r \in Reply(h, m) : Introduced(r.to, r.from)
    BY <2>1, <2>2, OwnIdIntroduced DEF Reply
  <2>4. intros' \subseteq intros \cup Reply(h, m) /\ starts' = starts
    BY <1>3 DEF Handle
  <2>5. \A g \in Host : \A p \in peers'[g] : p \in peers[g] \/ Introduced(g, p)
    BY <1>3, <2>2 DEF Handle, PeersAfter, TypeOK
  <2>6. QED  BY <1>0, <2>3, <2>4, <2>5
<1>4. ASSUME NEW m \in intros, Lose(m) PROVE LinkInv'
  <2>1. intros' \subseteq intros /\ starts' = starts /\ peers' = peers
    BY <1>4 DEF Lose
  <2>2. QED  BY <2>1 DEF LinkInv, Introduced
<1>5. ASSUME NEW h \in Host, Restart(h) PROVE LinkInv'
  <2>1. \A g \in Host : starts[g] <= starts'[g]
    BY <1>5 DEF Restart, TypeOK
  <2>2. intros' = intros /\ \A g \in Host : peers'[g] \subseteq peers[g]
    BY <1>5 DEF Restart, TypeOK
  <2>3. \A g \in Host : \A p \in peers'[g] : Introduced(g, p)'
    BY <2>1, <2>2, StaysIntroduced DEF LinkInv, TypeOK
  <2>4. \A m \in intros' : Introduced(m.to, m.from)'
    BY <2>1, <2>2, StaysIntroduced DEF LinkInv, TypeOK, Intro
  <2>5. QED  BY <2>3, <2>4 DEF LinkInv
<1>6. CASE UNCHANGED vars
  BY <1>6 DEF vars, LinkInv, Introduced
<1>7. QED  BY <1>1, <1>2, <1>3, <1>4, <1>5, <1>6 DEF Next

(* No message tells a daemon of a third one: whom it knows, and whatever   *)
(* is under way to introduce somebody to it, is on its own command line or *)
(* has it on theirs, and no id is known before its daemon was started.     *)
THEOREM KnownAreLinked == Spec => []LinksFollowBootstrap
<1>1. Init => LinkInv
  BY DEF Init, LinkInv
<1>2. TypeOK /\ LinkInv /\ [Next]_vars => LinkInv'
  BY LinkInductive
<1>3. LinkInv => LinksFollowBootstrap
  BY DEF LinkInv, Introduced, Linked, LinksFollowBootstrap
<1>4. QED  BY <1>1, <1>2, <1>3, DiscoveryTypeCorrect, PTL DEF Spec
=============================================================================
