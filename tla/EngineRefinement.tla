-------------------------- MODULE EngineRefinement --------------------------
(***************************************************************************)
(* The engine implements its contract: seen through the capacity, the      *)
(* context its last layer holds and the last reply, the engine under a     *)
(* restoring caller behaves as CacheContract.  A call takes effect in the  *)
(* step that stores the last layer; entering it grows the scratch, and the *)
(* layers before the last are stuttering.                                  *)
(***************************************************************************)
EXTENDS Engine

CONSTANT Unknown

Contract == INSTANCE CacheContract
              WITH capacity <- kv.capacity, held <- HeldContext, room <- scratch.tokens

(* Every step of the engine is a step of the contract, or invisible to it. *)
ContractHolds == Contract!ContractSpec
=============================================================================
