----------------------------- MODULE MCLibrary ------------------------------
(***************************************************************************)
(* The library parts of rtfsn-core that share no state, checked in one     *)
(* run: each behaviour exercises one of them, chosen at the start, and     *)
(* leaves the others as they are.                                          *)
(***************************************************************************)
EXTENDS EpochManager, Routing, Storage, TwistHistory, Geoid, Marzullo, Ntp,
        Samr, Frame, Selection, TemporalMirror, ClockStream

CONSTANTS d1, d2

VARIABLE part   \* the part exercised

libraryVars == <<part, epochVars, routingVars, storageVars, historyVars, geoidVars,
                 intervals, ntpVars, samrVars, frameVars, selectionVars, mirrorVars, ticks>>

(* Parts that start in several states do so only when they are exercised.  *)
LibraryInit ==
    /\ part \in {"epochs", "routing", "storage", "history", "geoid", "marzullo",
                 "ntp", "samr", "frame", "selection", "mirror", "stream"}
    /\ IF part = "epochs" THEN TRUE ELSE elapsed = 0
    /\ IF part = "history" THEN TRUE ELSE owner = "clock"
    /\ IF part = "frame" THEN TRUE ELSE faultyEdge = {}
    /\ IF part = "selection" THEN TRUE
       ELSE error = [a \in AnchorNode |-> 0] /\ claimed = [a \in AnchorNode |-> MaxClaim]
    /\ EpochInit /\ RoutingInit /\ StorageInit /\ HistoryInit /\ GeoidInit
    /\ MarzulloInit /\ NtpInit /\ SamrInit /\ FrameInit /\ SelectionInit
    /\ MirrorInit /\ Init

Only(name, action) == part = name /\ action /\ UNCHANGED part

EpochsOnly(action) ==
    /\ Only("epochs", action)
    /\ UNCHANGED <<routingVars, storageVars, historyVars, geoidVars, intervals, ntpVars,
                   samrVars, frameVars, selectionVars, mirrorVars, ticks>>

LibraryNext ==
    \/ EpochsOnly(EpochNext)
    \/ /\ Only("routing", RoutingNext)
       /\ UNCHANGED <<epochVars, storageVars, historyVars, geoidVars, intervals, ntpVars,
                      samrVars, frameVars, selectionVars, mirrorVars, ticks>>
    \/ /\ Only("storage", StorageNext)
       /\ UNCHANGED <<epochVars, routingVars, historyVars, geoidVars, intervals, ntpVars,
                      samrVars, frameVars, selectionVars, mirrorVars, ticks>>
    \/ /\ Only("history", HistoryNext)
       /\ UNCHANGED <<epochVars, routingVars, storageVars, geoidVars, intervals, ntpVars,
                      samrVars, frameVars, selectionVars, mirrorVars, ticks>>
    \/ /\ Only("geoid", GeoidNext)
       /\ UNCHANGED <<epochVars, routingVars, storageVars, historyVars, intervals, ntpVars,
                      samrVars, frameVars, selectionVars, mirrorVars, ticks>>
    \/ /\ Only("marzullo", AddInterval)
       /\ UNCHANGED <<epochVars, routingVars, storageVars, historyVars, geoidVars, ntpVars,
                      samrVars, frameVars, selectionVars, mirrorVars, ticks>>
    \/ /\ Only("ntp", NtpNext)
       /\ UNCHANGED <<epochVars, routingVars, storageVars, historyVars, geoidVars,
                      intervals, samrVars, frameVars, selectionVars, mirrorVars, ticks>>
    \/ /\ Only("samr", SamrNext)
       /\ UNCHANGED <<epochVars, routingVars, storageVars, historyVars, geoidVars,
                      intervals, ntpVars, frameVars, selectionVars, mirrorVars, ticks>>
    \/ /\ Only("frame", FrameNext)
       /\ UNCHANGED <<epochVars, routingVars, storageVars, historyVars, geoidVars,
                      intervals, ntpVars, samrVars, selectionVars, mirrorVars, ticks>>
    \/ /\ Only("selection", SelectionNext)
       /\ UNCHANGED <<epochVars, routingVars, storageVars, historyVars, geoidVars,
                      intervals, ntpVars, samrVars, frameVars, mirrorVars, ticks>>
    \/ /\ Only("mirror", MirrorNext)
       /\ UNCHANGED <<epochVars, routingVars, storageVars, historyVars, geoidVars,
                      intervals, ntpVars, samrVars, frameVars, selectionVars, ticks>>
    \/ /\ Only("stream", Next)
       /\ UNCHANGED <<epochVars, routingVars, storageVars, historyVars, geoidVars,
                      intervals, ntpVars, samrVars, frameVars, selectionVars, mirrorVars>>

LibrarySpec ==
    /\ LibraryInit /\ [][LibraryNext]_libraryVars
    /\ WF_libraryVars(EpochsOnly(try_advance))
    /\ WF_libraryVars(EpochsOnly(TimePasses))

(* Epochs go on for ever in an epoch manager, whoever stays silent and     *)
(* although its clock was set back some times.                             *)
ManagerAdvances == part = "epochs" => EpochsAdvance

MCLocal == <<0, 1, 0>>
MCNodeOffset == {-7, 0, 2}
MCDriftPpb == {-90, -9, 0, 130}
MCClock == <<0, 10, 30, 70, 150>>
(* One edge of our own, one of a node to itself, and enough others for     *)
(* cycles of three to five nodes, bridges and both directions of a pair.   *)
MCHearable == {<<2, 2>>, <<1, 2>>, <<2, 1>>, <<2, 3>>, <<3, 4>>, <<4, 2>>, <<4, 3>>,
               <<4, 5>>, <<5, 3>>, <<5, 2>>}
=============================================================================
