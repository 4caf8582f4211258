---------------------------- MODULE ProjectIdentity ----------------------------
(***************************************************************************)
(* What the path registry promises: a map from repository paths to project *)
(* identities that changes in single steps, one call at a time.  An        *)
(* identity is minted once, never lost, and moves only as a whole.         *)
(***************************************************************************)
CONSTANTS Paths, Ids

VARIABLES registry, minted

Owner(p) == IF p \in DOMAIN registry THEN {registry[p]} ELSE {}
Registered == {registry[p] : p \in DOMAIN registry}

Bind(p, id) ==
  registry' = [q \in DOMAIN registry \cup {p} |-> IF q = p THEN id ELSE registry[q]]

\* get_or_create_project_id for a path nobody owns.
Mint(p, id) ==
  /\ Owner(p) = {}
  /\ id \notin minted
  /\ minted' = minted \cup {id}
  /\ Bind(p, id)

\* register_path for a path nobody owns.
Register(p, id) ==
  /\ Owner(p) = {}
  /\ id \in minted
  /\ Bind(p, id)
  /\ UNCHANGED minted

\* reassociate_project_path to a path nobody else owns: the old paths are let go.
Reassociate(id, p) ==
  /\ id \in Registered
  /\ Owner(p) \subseteq {id}
  /\ registry' = [q \in {r \in DOMAIN registry : registry[r] # id} \cup {p} |->
                    IF q = p THEN id ELSE registry[q]]
  /\ UNCHANGED minted

\* A minting that came to nothing.
Waste(id) ==
  /\ id \notin minted
  /\ minted' = minted \cup {id}
  /\ UNCHANGED registry

Init == registry = [p \in {} |-> p] /\ minted = {}

Next ==
  \E id \in Ids :
    \/ Waste(id)
    \/ \E p \in Paths : Mint(p, id) \/ Register(p, id) \/ Reassociate(id, p)

Spec == Init /\ [][Next]_<<registry, minted>>

\* No identity is ever lost: one that some path leads to is led to by some path
\* ever after, wherever its repository moves.
IdentitiesStay == [][Registered \subseteq Registered']_<<registry, minted>>
=============================================================================
