------------------------------ MODULE MCDaemon ------------------------------
(***************************************************************************)
(* The parts of the daemon that touch sessions and events, on small        *)
(* instances. They share no variable, so a behaviour picks one part and    *)
(* runs it.                                                                *)
(***************************************************************************)
EXTENDS SessionParts, ResultParts, EventParts, BusParts

Init ==
    \/ SessionInit /\ ResultOff /\ EventOff /\ BusOff
    \/ ResultInit /\ SessionOff /\ EventOff /\ BusOff
    \/ EventInit /\ SessionOff /\ ResultOff /\ BusOff
    \/ BusInit /\ SessionOff /\ ResultOff /\ EventOff

Next ==
    \/ SessionNext /\ UNCHANGED <<ResultVars, EventVars, BusVars>>
    \/ ResultNext /\ UNCHANGED <<SessionVars, EventVars, BusVars>>
    \/ EventNext /\ UNCHANGED <<SessionVars, ResultVars, BusVars>>
    \/ BusNext /\ UNCHANGED <<SessionVars, ResultVars, EventVars>>

Spec == Init /\ [][Next]_<<part, SessionVars, ResultVars, EventVars, BusVars>>

\* The watchers alone.
WatchSpec == Init /\ part = "watched" /\ [][Next]_<<part, SessionVars, ResultVars, EventVars, BusVars>>

-----------------------------------------------------------------------------
\* The values of constants that a configuration cannot write down.
MCPeerNesting == {<<"dev_queue", "clients">>}
MCLogSettings ==
   {[part |-> "inbox", Watchers |-> {11}, Recorders |-> {1},
      Kinds |-> {[what |-> "page", key |-> "k", mark |-> 1],
      [what |-> "page", key |-> "j", mark |-> 1], [what |-> "clear",
      key |-> "k", mark |-> 0]}, MaxEvents |-> 3, MaxPrunes |-> 2,
      MaxArms |-> 1, LatchMaxKeys |-> 1, Keep |-> {0, 1}, Cutoffs |-> {},
      ArchiveModes |-> {TRUE}, SinceArms |-> FALSE],
    [part |-> "recorded", Watchers |-> {11}, Recorders |-> {1, 2},
      Kinds |-> {[what |-> "page", key |-> "k", mark |-> 1],
      [what |-> "clear", key |-> "k", mark |-> 0]}, MaxEvents |-> 3,
      MaxPrunes |-> 1, MaxArms |-> 2, LatchMaxKeys |-> 2, Keep |-> {0, 1},
      Cutoffs |-> {2}, ArchiveModes |-> {TRUE}, SinceArms |-> FALSE],
    [part |-> "watched", Watchers |-> {11, 12}, Recorders |-> {1},
      Kinds |-> {[what |-> "page", key |-> "k", mark |-> 1],
      [what |-> "clear", key |-> "k", mark |-> 0]}, MaxEvents |-> 3,
      MaxPrunes |-> 0, MaxArms |-> 2, LatchMaxKeys |-> 2, Keep |-> {0, 1},
      Cutoffs |-> {}, ArchiveModes |-> {TRUE}, SinceArms |-> TRUE]}
MCBusSettings ==
   {[part |-> "operator", Tickets |-> {"t1"}, Clients |-> {"c1"},
      Status |-> {"PENDING", "BLOCKED"}, Channel |-> [c1 |-> "operator"],
      MaxEvents |-> 2, MaxChanges |-> 2, MaxConnects |-> 1,
      MaxCrashes |-> 1],
    [part |-> "queue", Tickets |-> {"t1"}, Clients |-> {"c1"},
      Status |-> {"PENDING", "RUNNING", "COMPLETED", "FAILED", "BLOCKED"},
      Channel |-> [c1 |-> "queue"], MaxEvents |-> 0, MaxChanges |-> 3,
      MaxConnects |-> 2, MaxCrashes |-> 1]}
=============================================================================
