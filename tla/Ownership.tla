----------------------------- MODULE Ownership ------------------------------
(***************************************************************************)
(* The transfer of ownership in two steps, which choice_factory and        *)
(* choice_send_to_auction implement alike: the owner proposes, the         *)
(* proposed one accepts, and until then the owner may take it back.        *)
(***************************************************************************)
CONSTANTS
  Users,            (* Accounts that send transactions.                    *)
  None              (* An Option that is not given.                        *)

ASSUME UsersAssumption == None \notin Users

VARIABLES
  owner,            (* config.owner                                        *)
  proposedOwner,    (* config.proposed_owner                               *)
  consent           (* History: who last offered the contract, and to whom. *)

ownership == <<owner, proposedOwner, consent>>

OwnershipInit ==
  /\ owner \in Users
  /\ proposedOwner = None
  /\ consent = {}

(* Faulty: anyone may propose.                                             *)
Anyone(u) == u \in Users
IsOwner(u) == u = owner

ProposeNewOwner(u, new) ==
  /\ IsOwner(u)
  /\ proposedOwner' = new
  /\ consent' = {<<u, new>>}
  /\ UNCHANGED owner

AcceptOwnership(u) ==
  /\ proposedOwner = u
  /\ owner' = u
  /\ proposedOwner' = None
  /\ consent' = {}

CancelOwnershipProposal(u) ==
  /\ IsOwner(u)
  /\ proposedOwner' = None
  /\ consent' = {}
  /\ UNCHANGED owner

OwnershipNext ==
  \E u \in Users :
    \/ \E new \in Users : ProposeNewOwner(u, new)
    \/ AcceptOwnership(u)
    \/ CancelOwnershipProposal(u)

(* Nobody becomes the owner but by an offer that he who owns the contract  *)
(* now has made to him, and not taken back or replaced since.              *)
HandedOver == [][owner' # owner => <<owner, owner'>> \in consent]_ownership
=============================================================================
