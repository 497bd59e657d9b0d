------------------------------ MODULE MCComponents -----------------------------
(***************************************************************************)
(* The sequential components and the two small protocols between threads   *)
(* share no state, so one of them is explored at a time, with the others   *)
(* at rest: "focus" says which one.                                        *)
(***************************************************************************)
EXTENDS MCNodes, MCConnecting, NodeTree, Settings, VirtualClock

VARIABLE focus

MCFacade ==
  [fixed |-> "const", good |-> "json", bad |-> "json", free |-> "direct", slow |-> "region", other |-> "region"]

MCValid ==
  [fixed |-> {"1"}, good |-> {"2"}, bad |-> {"1"}, free |-> {"1"}, slow |-> {"1", "2"}, other |-> {"2"}]

MCArchive == [id \in Ids |-> IF id = "good" THEN "2" ELSE "garbled"]

MCTimes == {-1, 0, 3}

AnExpression == <<Leaf("e1"), Leaf("k1")>>

ComponentsInit ==
  /\ focus \in {"expressions", "events", "states", "tree", "settings", "clock"}
  /\ NetworkInit /\ inputs = [x |-> 0, selected |-> "k1", open |-> TRUE]
  /\ ConnectInit /\ (focus # "expressions" => expression = AnExpression)
  /\ TreeInit
  /\ SettingsInit
  /\ ClockInit

ComponentsNext ==
  /\ UNCHANGED focus
  /\ \/ /\ focus = "expressions" /\ ConnectNext
        /\ UNCHANGED <<networkVars, forestVars, settingVars, clockVars>>
     \/ /\ focus = "events" /\ EventSideNext
        /\ UNCHANGED <<connectVars, forestVars, settingVars, clockVars>>
     \/ /\ focus = "states" /\ StateSideNext
        /\ UNCHANGED <<connectVars, forestVars, settingVars, clockVars>>
     \/ /\ focus = "tree" /\ TreeNext
        /\ UNCHANGED <<connectVars, networkVars, settingVars, clockVars>>
     \/ /\ focus = "settings" /\ SettingsNext
        /\ UNCHANGED <<connectVars, networkVars, forestVars, clockVars>>
     \/ /\ focus = "clock" /\ ClockNext
        /\ UNCHANGED <<connectVars, networkVars, forestVars, settingVars>>

componentVars == <<focus, connectVars, networkVars, forestVars, settingVars, clockVars>>

ComponentsSpec == ComponentsInit /\ [][ComponentsNext]_componentVars
================================================================================
