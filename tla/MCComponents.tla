----------------------------- MODULE MCComponents -----------------------------
(***************************************************************************)
(* The containers of MCContainers, the event bus and the linked list.      *)
(* They share no state, so one run explores them side by side: part tells  *)
(* which one is used and never changes, the others stay as they were made. *)
(***************************************************************************)
EXTENDS MCContainers, DsEventBus, DsList

VARIABLE part

componentVars == <<mcVars, busVars, listVars, part>>

-----------------------------------------------------------------------------
ComponentsInit ==
  /\ part \in {"containers", "bus", "list"}
  /\ MCInit
  /\ part # "containers" => used = "heap" /\ HeapUnused
  /\ BusInit
  /\ ListInit

ComponentsNext ==
  /\ \/ part = "containers" /\ MCNext /\ UNCHANGED <<busVars, listVars>>
     \/ part = "bus" /\ BusNext /\ UNCHANGED <<mcVars, listVars>>
     \/ part = "list" /\ ListNext /\ UNCHANGED <<mcVars, busVars>>
  /\ UNCHANGED part

ComponentsSpec ==
  /\ ComponentsInit /\ [][ComponentsNext]_componentVars
  /\ BusFairness
  /\ ListFairness
=============================================================================
