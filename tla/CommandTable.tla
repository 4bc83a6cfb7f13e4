----------------------------- MODULE CommandTable -----------------------------
(***************************************************************************)
(* The command table of src/examples/hashmap_cmd_example.c: handlers are   *)
(* kept in the array g_cmd_store, and the hash map takes a command's name  *)
(* to its entry in that array.                                             *)
(*                                                                         *)
(* The two uses of the map, the whole API and the example, are explored    *)
(* side by side: user tells which one and never changes.  The entries of   *)
(* g_cmd_store are the values of the map; their order, which tells only    *)
(* which free one is taken, the arguments of a command and what is printed *)
(* are left out.  So are a NULL handler, which register_command takes and  *)
(* whose entry stays free for the next name, and cmd_help, whose call of   *)
(* ds_hashmap_foreach passes the address 1 for a function.                 *)
(***************************************************************************)
EXTENDS DsHashMap

CONSTANTS
  Handlers,  \* cmd_handler_t values
  ApiValues  \* bound: the values that the user "api" stores

ASSUME HandlerAssumption == NULL \notin Handlers
ASSUME ApiAssumption == ApiValues \subseteq Values

VARIABLES
  user,   \* fixed: who uses the map, "api" or "commands"
  store,  \* handler of each entry of g_cmd_store
  bound,  \* history: the handler that each name was registered with
  ran     \* the handler that the last command line has run

commandVars == <<vars, user, store, bound, ran>>

-----------------------------------------------------------------------------
CommandInit ==
  /\ Init
  /\ user \in {"api", "commands"}
  /\ store = [e \in Values |-> NULL]
  /\ bound = [k \in Keys |-> NULL]
  /\ ran = NULL

\* Mutant: an entry is taken whether it has a handler or not.
IsFreeUnchecked(e) == TRUE

IsFree(e) == store[e] = NULL

(* register_command: what it returns is what ds_hashmap_put returns.       *)

\* The name is registered already, or no entry is free: all it has done is
\* the lookup of ds_hashmap_contains.
RegisterRefused(k) ==
  /\ Get(k)
  /\ reply' # NULL \/ \A e \in Values : ~IsFree(e)
  /\ UNCHANGED <<store, bound, ran>>

\* The entry keeps its handler even if the map refuses the name.
Register(k, handler) ==
  /\ Absent(k)
  /\ \E e \in Values :
       /\ IsFree(e)
       /\ store' = [store EXCEPT ![e] = handler]
       /\ Put(k, e)
  /\ bound' = IF reply' = "OK" THEN [bound EXCEPT ![k] = handler] ELSE bound
  /\ UNCHANGED ran

\* execute_command of a line whose first word is k.
Execute(k) ==
  /\ Get(k)
  /\ ran' = IF reply' = NULL THEN NULL ELSE store[reply']
  /\ UNCHANGED <<store, bound>>

CommandNext ==
  \/ /\ user = "api"
     /\ Next
     /\ \A s \in Slot : entries'[s].value \in ApiValues \cup {NULL}
     /\ UNCHANGED <<user, store, bound, ran>>
  \/ /\ user = "commands"
     /\ \E k \in Keys :
          \/ RegisterRefused(k) \/ Execute(k)
          \/ \E handler \in Handlers : Register(k, handler)
     /\ UNCHANGED user

CommandSpec == CommandInit /\ [][CommandNext]_commandVars

-----------------------------------------------------------------------------
(* Properties                                                              *)

\* A command line runs the handler that its name was registered with, and none
\* if register_command did not return DS_OK, through every collision of names
\* and with an array and a map that fill up at different times.
DispatchesRegistered ==
  [][user = "commands" => \A k \in Keys : Execute(k) => ran' = bound[k]]_commandVars
=============================================================================
