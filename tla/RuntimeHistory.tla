---------------------------- MODULE RuntimeHistory ----------------------------
(***************************************************************************)
(* Runtime with a history variable, the order in which run_steps has last  *)
(* run the blocks, to say what the cache's lru list is for.                *)
(***************************************************************************)
EXTENDS Runtime

VARIABLE ranBefore   \* <<p, q>>: the last run of p was not after that of q

hVars == <<vars, ranBefore>>

(* The addresses of the blocks that have run, whether still cached or not. *)
HasRun == {p \in Pc : <<p, p>> \in ranBefore}

RunBlock ==
  /\ TouchBlock
  /\ ranBefore' = {r \in ranBefore : pc \notin {r[1], r[2]}}
                    \cup (HasRun \cup {pc}) \X {pc}

OtherStep ==
  /\ Host \/ Leave \/ Dispatch \/ TranslateInsn \/ Emit \/ EmitFails
       \/ InsertEvict \/ InsertCommit \/ ExecuteInsn \/ Panicked
  /\ UNCHANGED ranBefore

HInit == Init /\ ranBefore = {}

HSpec == HInit /\ [][RunBlock \/ OtherStep]_hVars /\ WF_vars(System)

(* Whenever a block has run to its turn, lru is the order of last runs: in *)
(* a system that only run_steps translates for, what insert() evicts is    *)
(* the cached block that has not been run for longest, never one of those  *)
(* the guest is looping over while another is idle.                        *)
EvictsLeastRecentlyRun ==
  ctl # "touch" =>
    \A m, n \in 1..Len(lru) : m <= n <=> <<lru[m], lru[n]>> \in ranBefore
=============================================================================
