------------------------------ MODULE MCHotfix ------------------------------
(***************************************************************************)
(* Hotfix on a small instance: a class "Base" without register(), which    *)
(* gains a method in its second version, and a class "Handler" that        *)
(* extends it, overrides one of its methods and has a register(), like     *)
(* MessageHandler.lua.                                                     *)
(***************************************************************************)
EXTENDS Hotfix

MCModules == {"Base", "Handler"}
MCMethods == {"register", "start", "test"}
MCChain == [m \in MCModules |-> IF m = "Base" THEN <<"Base">> ELSE <<"Handler", "Base">>]
MCDefs ==
    [m \in MCModules |-> [v \in 1..MaxVer |->
        CASE m = "Handler"        -> {"register", "start"}
          [] m = "Base" /\ v = 1  -> {"start"}
          [] m = "Base" /\ v # 1  -> {"start", "test"}]]
=============================================================================
