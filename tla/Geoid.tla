------------------------------- MODULE Geoid --------------------------------
(***************************************************************************)
(* The geoid (crates/rtfsn-core/src/geoid) and the valves between layers 1 *)
(* and 2 (crates/rtfsn-core/src/layers/valve.rs): the beacons of an epoch  *)
(* are gathered into regions, the regions into coarser ones level by       *)
(* level, and the residuals of the regions come back as hints where to     *)
(* measure.  The daemon runs it once per epoch (run_geoid_and_emit_tick).  *)
(*                                                                         *)
(* Positions are points of a line instead of a six-dimensional space, so   *)
(* that a centroid is the fraction sum / count; distances of fractions are *)
(* compared by multiplying out.  Clock offsets are whole microseconds.     *)
(* Commitments and the radius, which nothing reads, are left out.          *)
(***************************************************************************)
EXTENDS Integers, Sequences, FiniteSets, SequencesExt, FiniteSetsExt, Functions, Sorting

CONSTANTS
    Position, Offset,   \* what beacons can say
    BaseResolution,     \* base_resolution_secs
    ScaleFactor,        \* scale_factor
    Levels,             \* levels
    GridSize,           \* grid_size of valve_l1_to_l2
    MaxBeacons,         \* bound: beacons stored
    LastEpoch           \* bound: epochs run

ASSUME GeoidAssumption ==
    /\ Position \subseteq Int /\ Offset \subseteq Int
    /\ BaseResolution \in Nat \ {0} /\ ScaleFactor \in Nat \ {0}
    /\ Levels \in Nat \ {0} /\ GridSize \in Nat \ {0}
    /\ MaxBeacons \in Nat /\ LastEpoch \in Nat

VARIABLES
    l1,         \* Layer1Store.beacons
    geoEpoch,   \* the epoch run next
    geoid,      \* CirculationManager.geoid
    clusters    \* ClusterAggregator.entries

geoidVars == <<l1, geoEpoch, geoid, clusters>>

AbsInt(x) == IF x < 0 THEN -x ELSE x

(* Layer1Store::get_epoch                                                  *)
get_epoch(e) == Subsequence(l1, {i \in DOMAIN l1 : l1[i].epoch = e})
-----------------------------------------------------------------------------
(* Regions.  sum / count is the centroid.                                  *)

(* The distance of two centroids is less than d.                           *)
Within(r, q, d) ==
    AbsInt(r.sum * q.count - q.sum * r.count) < d * r.count * q.count

Point(pos) == [sum |-> pos, count |-> 1]

(* RegionId::from_centroid: an ideal hash of the centroid (in lowest       *)
(* terms), the level and the epoch.                                        *)
RegionId(r, level, e) ==
    LET g == Max({k \in 1 .. r.count : r.sum % k = 0 /\ r.count % k = 0})
    IN  <<r.sum \div g, r.count \div g, level, e>>

Threshold(level) == BaseResolution * ScaleFactor ^ level

(* A beacon joins the first accumulator near enough, or starts its own.    *)
Accumulate(accums, b) ==
    LET near == {i \in DOMAIN accums : Within(accums[i], Point(b.pos), Threshold(0))}
    IN  IF near = {}
        THEN Append(accums, [sum |-> b.pos, count |-> 1, offsets |-> <<b.off>>])
        ELSE [accums EXCEPT ![Min(near)] =
                 [sum |-> @.sum + b.pos, count |-> @.count + 1,
                  offsets |-> Append(@.offsets, b.off)]]

(* The mean distance of the offsets from their mean.                       *)
Spread(offsets) ==
    LET n == Len(offsets)
        s == SumFunction(offsets)
    IN  SumFunction([i \in DOMAIN offsets |-> AbsInt(n * offsets[i] - s)]) \div (n * n)

add_inter_edges(regions, level) ==
    [i \in DOMAIN regions |->
        LET near == Subsequence(regions, {j \in DOMAIN regions \ {i} :
                        Within(regions[i], regions[j], 3 * Threshold(level))})
        IN  [regions[i] EXCEPT !.edges = [k \in DOMAIN near |-> near[k].id]]]

build_leaf_layer(beacons, e) ==
    LET accum[k \in 0 .. Len(beacons)] ==
            IF k = 0 THEN <<>> ELSE Accumulate(accum[k - 1], beacons[k])
        accums == accum[Len(beacons)]
    IN  add_inter_edges(
            [i \in DOMAIN accums |->
                [id |-> RegionId(accums[i], 0, e), sum |-> accums[i].sum,
                 count |-> accums[i].count, children |-> <<>>, edges |-> <<>>,
                 residual |-> Spread(accums[i].offsets)]],
            0)

WorstResidual(regions) == Max({regions[i].residual : i \in DOMAIN regions})

merge_regions(regions, level, e) ==
    LET all == [sum   |-> SumFunction([i \in DOMAIN regions |-> regions[i].sum]),
                count |-> SumFunction([i \in DOMAIN regions |-> regions[i].count])]
    IN  [id |-> RegionId(all, level, e), sum |-> all.sum, count |-> all.count,
         children |-> [i \in DOMAIN regions |-> regions[i].id], edges |-> <<>>,
         residual |-> WorstResidual(regions)]

(* Faulty variant: regions already taken are taken again.                  *)
GroupsOverlap(regions, level) ==
    LET leader[j \in DOMAIN regions] ==
            LET pivots == {i \in 1 .. j - 1 :
                    leader[i] = i /\ Within(regions[i], regions[j], Threshold(level))}
            IN  IF pivots = {} THEN j ELSE Min(pivots)
    IN  {{i} \cup {j \in DOMAIN regions :
                     j > i /\ Within(regions[i], regions[j], Threshold(level))} :
            i \in {k \in DOMAIN regions : leader[k] = k}}

(* In order, each region not merged yet takes the later ones near it that  *)
(* are not merged either.                                                  *)
Groups(regions, level) ==
    LET leader[j \in DOMAIN regions] ==
            LET pivots == {i \in 1 .. j - 1 :
                    leader[i] = i /\ Within(regions[i], regions[j], Threshold(level))}
            IN  IF pivots = {} THEN j ELSE Min(pivots)
    IN  {{j \in DOMAIN regions : leader[j] = i} : i \in {leader[j] : j \in DOMAIN regions}}

coarsen_layer(regions, level, e) ==
    LET all    == Groups(regions, level)
        groups == Arranged(all, {g \in all \X all : Min(g[1]) < Min(g[2])})
    IN  add_inter_edges([k \in 1 .. Cardinality(all) |->
            merge_regions(Subsequence(regions, groups[k]), level, e)], level)

(* The layers, finest first.                                               *)
build_hierarchy(beacons, e) ==
    LET layer[level \in 0 .. Levels - 1] ==
            IF level = 0 THEN build_leaf_layer(beacons, e)
            ELSE coarsen_layer(layer[level - 1], level, e)
    IN  IF beacons = <<>> THEN <<>> ELSE [k \in 1 .. Levels |-> layer[k - 1]]

(* NetworkGeoid::hash tells what it hashes.                                *)
GeoidHash(g) ==
    <<g.epoch, [k \in DOMAIN g.layers |-> [i \in DOMAIN g.layers[k] |->
                  <<g.layers[k][i].id, g.layers[k][i].count>>]]>>
-----------------------------------------------------------------------------
(* GeoidLayer::assign_region (the first of the nearest), find_region.      *)
Nearest(regions, pos) ==
    Min({i \in DOMAIN regions : \A j \in DOMAIN regions :
            AbsInt(regions[i].sum - pos * regions[i].count) * regions[j].count
              <= AbsInt(regions[j].sum - pos * regions[j].count) * regions[i].count})

assign_region(regions, pos) == regions[Nearest(regions, pos)].id

find_region(regions, id) ==
    regions[Min({i \in DOMAIN regions : regions[i].id = id})]

(* Faulty variant: the top grade is forgotten, the level counts on.        *)
ShortScale(residual, level) ==
    (IF residual <= 100 THEN 1 ELSE IF residual <= 1000 THEN 3
     ELSE IF residual <= 10000 THEN 5 ELSE 7) + (IF level = 0 THEN 1 ELSE 0)

(* Grades of a residual, in microseconds; the finest level counts more.    *)
Grade(residual) ==
    IF residual <= 100 THEN 1
    ELSE IF residual <= 1000 THEN 3
    ELSE IF residual <= 10000 THEN 5
    ELSE IF residual <= 100000 THEN 7
    ELSE 9

hint_priority(residual, level) ==
    Min({Grade(residual) + (IF level = 0 THEN 1 ELSE 0), 10})

Suggested(r) == SubSeq(r.edges, 1, Min({3, Len(r.edges)}))

(* CirculationManager::generate_hints: a hint per level for the region the *)
(* node is in.                                                             *)
generate_hints(g, pos) ==
    [k \in DOMAIN g.layers |->
        LET r == find_region(g.layers[k], assign_region(g.layers[k], pos))
        IN  [level |-> k - 1, region |-> r.id, residual |-> r.residual,
             priority |-> hint_priority(r.residual, k - 1),
             suggested |-> Suggested(r)]]

(* MeasurementSchedule: a stable sort by priority, highest first.          *)
apply_hints(hints) ==
    LET before(i, j) == \/ hints[i].priority > hints[j].priority
                        \/ hints[i].priority = hints[j].priority /\ i < j
        order == Arranged(DOMAIN hints, {e \in (DOMAIN hints) \X (DOMAIN hints) :
                                            before(e[1], e[2])})
    IN  [i \in DOMAIN hints |->
            <<hints[order[i]].region, hints[order[i]].priority>>]

total_measurements(schedule) ==
    8 + SumFunction([i \in DOMAIN schedule |-> 2 * schedule[i][2]])

(* valve_l3_to_l2_refinement: the regions of all levels with a residual of *)
(* more than 100 us, worst first, otherwise in order.                      *)
RefinementTargets(g) ==
    LET at(x) == g.layers[x[1]][x[2]]
        index == {x \in UNION {{k} \X (DOMAIN g.layers[k]) : k \in DOMAIN g.layers} :
                     at(x).residual > 100}
        before(x, y) == \/ at(x).residual > at(y).residual
                        \/ /\ at(x).residual = at(y).residual
                           /\ x[1] < y[1] \/ (x[1] = y[1] /\ x[2] < y[2])
        order == Arranged(index, {e \in index \X index : before(e[1], e[2])})
    IN  [n \in 1 .. Cardinality(index) |->
            [region |-> at(order[n]).id, level |-> order[n][1] - 1,
             residual |-> at(order[n]).residual]]

(* valve_l2_to_l1_hints, with its own copy of the grades.                  *)
compute_hint_priority(residual, level) ==
    LET base == IF residual > 100000 THEN 9
                ELSE IF residual > 10000 THEN 7
                ELSE IF residual > 1000 THEN 5
                ELSE IF residual > 100 THEN 3
                ELSE 1
    IN  Min({base + (IF level = 0 THEN 1 ELSE 0), 10})

RefinementHints(g) ==
    LET targets == RefinementTargets(g)
    IN  [n \in DOMAIN targets |->
            LET t == targets[n]
            IN  [level |-> t.level, region |-> t.region, residual |-> t.residual,
                 priority |-> compute_hint_priority(t.residual, t.level),
                 suggested |-> Suggested(find_region(g.layers[t.level + 1], t.region))]]
-----------------------------------------------------------------------------
GeoidInit ==
    /\ l1 = <<>> /\ geoEpoch = 0 /\ clusters = {}
    /\ geoid = [layers |-> <<>>, epoch |-> 0, generation |-> 0, prev |-> <<>>]

(* A beacon comes in, of whatever epoch its sender is in (its identity     *)
(* verifies and its key is new).                                           *)
InsertBeacon(e, pos, off) ==
    /\ Len(l1) < MaxBeacons
    /\ l1' = Append(l1, [epoch |-> e, pos |-> pos, off |-> off])
    /\ UNCHANGED <<geoEpoch, geoid, clusters>>

process_upward(beacons, e) ==
    [layers |-> build_hierarchy(beacons, e), epoch |-> e, generation |-> 1,
     prev |-> GeoidHash(geoid)]

(* ClusterId::from_region: an ideal hash of the cell's corner and epoch.   *)
ClusterId(cell, e) == <<cell * GridSize, e>>

(* ClusterAggregator::aggregate; the mean is committed to.                 *)
aggregate(cell, e, beacons) ==
    [cluster_id |-> ClusterId(cell, e), epoch |-> e, cluster_size |-> Len(beacons),
     committed_offset |->
        SumFunction([i \in DOMAIN beacons |-> beacons[i].off]) \div Len(beacons)]

(* valve_l1_to_l2: one cluster for each grid cell with a beacon.           *)
valve_l1_to_l2(beacons, e) ==
    LET cell == [i \in DOMAIN beacons |-> beacons[i].pos \div GridSize]
    IN  {aggregate(c, e, Subsequence(beacons, {i \in DOMAIN beacons : cell[i] = c}))
            : c \in Range(cell)}

(* NodeState::run_geoid_and_emit_tick, without the tick.                   *)
RunGeoid ==
    /\ geoEpoch < LastEpoch
    /\ geoid' = process_upward(get_epoch(geoEpoch), geoEpoch)
    /\ clusters' = clusters \cup valve_l1_to_l2(get_epoch(geoEpoch), geoEpoch)
    /\ geoEpoch' = geoEpoch + 1
    /\ UNCHANGED l1

GeoidNext ==
    \/ \E e \in 0 .. LastEpoch - 1, pos \in Position, off \in Offset :
           InsertBeacon(e, pos, off)
    \/ RunGeoid

GeoidSpec == GeoidInit /\ [][GeoidNext]_geoidVars
-----------------------------------------------------------------------------
(* Of all regions of a layer: the beacons, the centre (as a sum), the ids, *)
(* and how often x is a child.                                             *)
Counted(regions) == SumFunction([i \in DOMAIN regions |-> regions[i].count])
Centre(regions)  == SumFunction([i \in DOMAIN regions |-> regions[i].sum])
Occurs(seq, x)   == SumFunction([i \in DOMAIN seq |-> IF seq[i] = x THEN 1 ELSE 0])
Names(regions)   == [i \in DOMAIN regions |-> regions[i].id]
Claims(regions, x) ==
    SumFunction([i \in DOMAIN regions |-> Occurs(regions[i].children, x)])

(* What a layer keeps of the layer below.  Regions of a layer can have the *)
(* same centroid, and so the same id; where they do not, the children of a *)
(* region are found by their ids.                                          *)
Inherits(regions, below) ==
    /\ Counted(regions) = Counted(below)
    /\ Centre(regions) = Centre(below)
    /\ WorstResidual(regions) = WorstResidual(below)
    /\ \A x \in Range(Names(below))
                 \cup UNION {Range(regions[i].children) : i \in DOMAIN regions} :
          Claims(regions, x) = Occurs(Names(below), x)
    /\ IsInjective(Names(below)) =>
          \A i \in DOMAIN regions :
             LET found == [j \in DOMAIN regions[i].children |->
                              find_region(below, regions[i].children[j])]
             IN  regions[i].sum = Centre(found) /\ regions[i].count = Counted(found)

(* Every beacon of the epoch counts once at every level and in the         *)
(* clusters of layer 2, whatever is merged; the centre of all regions of a *)
(* level stays where it is; every region of a level is a child of one      *)
(* region of the next, which lies in the middle of its children; the worst *)
(* residual survives to the top.  (A beacon that comes after its epoch was *)
(* run counts nowhere.)                                                    *)
EveryBeaconCountsOnce ==
    LET layers == geoid.layers
        counted == {c \in clusters : c.epoch = geoid.epoch}
        seen == SumFunction([c \in counted |-> c.cluster_size])
    IN  /\ seen <= Cardinality({i \in DOMAIN l1 : l1[i].epoch = geoid.epoch})
        /\ layers # <<>> => DOMAIN layers = 1 .. Levels
        /\ \A k \in DOMAIN layers :
              /\ Counted(layers[k]) = seen
              /\ k > 1 => Inherits(layers[k], layers[k - 1])

(* The two ways to make hints, from the node's position and from all       *)
(* regions, have their own copies of the grading.  They agree at both      *)
(* sides of each grade's limit, and make the same hints of whatever        *)
(* residual calls for refinement.  The schedule made from hints is ordered *)
(* by priority and asks for at least 8 measurements and 20 more per level  *)
(* at most.                                                                *)
HintsAgree ==
    /\ \A limit \in {100, 1000, 10000, 100000}, level \in 0 .. Levels - 1 :
         \A residual \in {limit, limit + 1} :
            hint_priority(residual, level) = compute_hint_priority(residual, level)
    /\ LET refine == RefinementHints(geoid)
       IN  \A pos \in Position :
             LET hints == generate_hints(geoid, pos)
                 schedule == apply_hints(hints)
             IN  /\ \A k \in DOMAIN hints :
                       hints[k].residual > 100 <=> Contains(refine, hints[k])
                 /\ \A i \in 1 .. Len(schedule) - 1 : schedule[i][2] >= schedule[i + 1][2]
                 /\ total_measurements(schedule) \in 8 .. 8 + 20 * Levels
=============================================================================
