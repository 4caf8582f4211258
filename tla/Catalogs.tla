------------------------------- MODULE Catalogs -------------------------------
(***************************************************************************)
(* The JSON catalogs of a user: path-registry.json (path -> project id)    *)
(* and pools.json (Pool name -> member ids), read, modified and written    *)
(* under catalog_lock by any number of processes, with atomic_write_json.  *)
(*                                                                         *)
(* A process may die, or a call raise, between any two steps of the call.  *)
(* The power may fail: a rename that no directory fsync has followed is    *)
(* then there or not.  The file may be damaged from outside.               *)
(*                                                                         *)
(* Reads take no lock and change nothing: they are no actions here.        *)
(* families.json is written with the same discipline and is left out.      *)
(*                                                                         *)
(* Abstracted: paths and Pool names are normalized; the temporary file is  *)
(* the process's buffer.  POSIX only: on Windows there is no directory     *)
(* fsync.                                                                  *)
(***************************************************************************)
EXTENDS Naturals

CONSTANTS
  Procs, Paths, Ids, Names,
  Harms,     \* the kinds of harm there are: death, outage, damage
  MaxWrites, \* bound on the writes of each catalog
  MaxHarm    \* bound on the harm done

NULL == "none"
Catalog == {"registry", "pools"}

ASSUME CatalogAssumption ==
  /\ NULL \notin Procs
  /\ Harms \subseteq {"death", "outage", "damage"}
  /\ MaxWrites \in Nat /\ MaxHarm \in Nat

VARIABLES
  file,     \* file[c]: its content, [says: what can be read from it, ver: the write
            \* that made it]; nothing can be read from a damaged file
  floating, \* floating[c]: the contents a power failure may leave
  holder,   \* holder[c]: the process that has catalog_lock, if any
  call,     \* call[p]: the call the process is in, if any
  buffer,   \* buffer[p]: the content it is about to write
  pc,       \* pc[p]: idle, locked, writing, replaced, synced
  minted,   \* ids the factory has given out
  acked,    \* acked[c]: the newest write whose call has returned
  harm

vars == <<file, floating, holder, call, buffer, pc, minted, acked, harm>>

Registries == UNION {[S -> Ids] : S \in SUBSET Paths}
Memberships == UNION {[S -> SUBSET Ids] : S \in SUBSET Names}
Empty == [x \in {} |-> x]
Values(c) == IF c = "registry" THEN Registries ELSE Memberships

Calls ==
  [op : {"resolve"}, path : Paths]
    \cup [op : {"register", "reassociate"}, path : Paths, id : Ids]
    \cup [op : {"create", "add", "decouple", "delete"}, name : Names, id : Ids]

CatalogOf(k) == IF k.op \in {"resolve", "register", "reassociate"} THEN "registry" ELSE "pools"

TypeOK ==
  /\ \A c \in Catalog :
       /\ file[c].ver \in 0 .. MaxWrites
       /\ file[c].says \in {{}} \cup {{v} : v \in Values(c)}
       /\ file[c] \in floating[c]
       /\ holder[c] \in Procs \cup {NULL}
       /\ acked[c] \in 0 .. MaxWrites
  /\ \A p \in Procs :
       /\ call[p] \in {{}} \cup {{k} : k \in Calls}
       /\ pc[p] \in {"idle", "locked", "writing", "replaced", "synced"}
       /\ \A k \in call[p] : buffer[p] \in Values(CatalogOf(k)) \cup {Empty}
  /\ minted \subseteq Ids
  /\ harm \in 0 .. MaxHarm

-----------------------------------------------------------------------------

With(f, x, v) == [y \in DOMAIN f \cup {x} |-> IF y = x THEN v ELSE f[y]]
Only(f, S) == [y \in S |-> f[y]]

\* The calls that write, given what the catalog says; the others return, or
\* raise, without a write.
Writes(k, v) ==
  \/ k.op \in {"resolve", "register"} /\ k.path \notin DOMAIN v
  \/ /\ k.op = "reassociate"
     /\ \E p \in DOMAIN v : v[p] = k.id
     /\ k.path \in DOMAIN v => v[k.path] = k.id
  \/ k.op = "create" /\ k.name \notin DOMAIN v
  \/ k.op \in {"add", "delete"} /\ k.name \in DOMAIN v
  \/ k.op = "decouple" /\ k.name \in DOMAIN v /\ k.id \in v[k.name]

\* What it writes; id is the caller's, or for resolve the factory's.
Written(k, v, id) ==
  CASE k.op \in {"resolve", "register"} -> With(v, k.path, id)
    [] k.op = "reassociate" ->
         With(Only(v, {p \in DOMAIN v : v[p] # id}), k.path, id)
    [] k.op = "create" -> With(v, k.name, {})
    [] k.op = "add" -> With(v, k.name, v[k.name] \cup {id})
    [] k.op = "decouple" -> With(v, k.name, v[k.name] \ {id})
    [] k.op = "delete" -> Only(v, DOMAIN v \ {k.name})

\* The ids of the calls that are about to write a new one.
InFlight ==
  {id \in Ids : \E p \in Procs : \E k \in call[p] :
     k.op = "resolve" /\ pc[p] = "writing" /\ buffer[p][k.path] = id}

\* The id a call may write.
IdOf(k) == IF k.op = "resolve" THEN Ids \ minted ELSE {k.id}

\* A call begins; the id it names is one that the caller has from somewhere.
Begin(p, k) ==
  /\ call[p] = {}
  /\ k.op # "resolve" => k.id \in minted \ InFlight
  /\ call' = [call EXCEPT ![p] = {k}]
  /\ UNCHANGED <<file, floating, holder, buffer, pc, minted, acked, harm>>

\* Lock mutated: nobody is kept out.
LockShared(p, k) ==
  /\ k \in call[p] /\ pc[p] = "idle"
  /\ holder' = [holder EXCEPT ![CatalogOf(k)] = p]
  /\ pc' = [pc EXCEPT ![p] = "locked"]
  /\ UNCHANGED <<file, floating, call, buffer, minted, acked, harm>>

\* catalog_lock waits.
Lock(p, k) ==
  /\ k \in call[p] /\ pc[p] = "idle"
  /\ holder[CatalogOf(k)] = NULL
  /\ holder' = [holder EXCEPT ![CatalogOf(k)] = p]
  /\ pc' = [pc EXCEPT ![p] = "locked"]
  /\ UNCHANGED <<file, floating, call, buffer, minted, acked, harm>>

\* The lock is let go and the call returns, or raises.
Return(p, k) ==
  /\ holder' = [holder EXCEPT ![CatalogOf(k)] = NULL]
  /\ call' = [call EXCEPT ![p] = {}]
  /\ buffer' = [buffer EXCEPT ![p] = Empty]
  /\ pc' = [pc EXCEPT ![p] = "idle"]
  /\ UNCHANGED <<file, floating, minted, harm>>

\* The file is read, and a new content prepared and written beside it.
Decide(p, k) ==
  LET f == file[CatalogOf(k)]
  IN  \E v \in f.says, id \in IdOf(k) :
        /\ k \in call[p] /\ pc[p] = "locked"
        /\ Writes(k, v)
        /\ f.ver < MaxWrites
        /\ buffer' = [buffer EXCEPT ![p] = Written(k, v, id)]
        /\ minted' = minted \cup {id}
        /\ pc' = [pc EXCEPT ![p] = "writing"]
        /\ UNCHANGED <<file, floating, holder, call, acked, harm>>

\* Nothing to write, or a damaged file that must not be written.
Decline(p, k) ==
  /\ k \in call[p] /\ pc[p] = "locked"
  /\ \A v \in file[CatalogOf(k)].says : ~Writes(k, v)
  /\ Return(p, k)
  /\ UNCHANGED acked

\* os.replace: a file that can be read, whatever is on the disk.
Replace(p, k) ==
  LET c == CatalogOf(k)
  IN  /\ k \in call[p] /\ pc[p] = "writing"
      /\ file' = [file EXCEPT ![c] = [says |-> {buffer[p]}, ver |-> @.ver + 1]]
      /\ floating' = [floating EXCEPT ![c] = @ \cup {file'[c]}]
      /\ pc' = [pc EXCEPT ![p] = "replaced"]
      /\ UNCHANGED <<holder, call, buffer, minted, acked, harm>>

\* SyncDirectory mutated: left out.
SyncNothing(p, k) ==
  /\ k \in call[p] /\ pc[p] = "replaced"
  /\ pc' = [pc EXCEPT ![p] = "synced"]
  /\ UNCHANGED <<file, floating, holder, call, buffer, minted, acked, harm>>

\* fsync of the directory.
SyncDirectory(p, k) ==
  /\ k \in call[p] /\ pc[p] = "replaced"
  /\ floating' = [floating EXCEPT ![CatalogOf(k)] = {file[CatalogOf(k)]}]
  /\ pc' = [pc EXCEPT ![p] = "synced"]
  /\ UNCHANGED <<file, holder, call, buffer, minted, acked, harm>>

Finish(p, k) ==
  /\ k \in call[p] /\ pc[p] = "synced"
  /\ acked' = [acked EXCEPT ![CatalogOf(k)] = file[CatalogOf(k)].ver]
  /\ Return(p, k)

Harm(h) == h \in Harms /\ harm < MaxHarm /\ harm' = harm + 1

\* A process dies, and the kernel lets go of its lock; or the call raises, and
\* lets go of it itself.
Die(p) ==
  /\ call[p] # {}
  /\ Harm("death")
  /\ holder' = [c \in Catalog |-> IF holder[c] = p THEN NULL ELSE holder[c]]
  /\ call' = [call EXCEPT ![p] = {}]
  /\ buffer' = [buffer EXCEPT ![p] = Empty]
  /\ pc' = [pc EXCEPT ![p] = "idle"]
  /\ UNCHANGED <<file, floating, minted, acked>>

PowerFails ==
  /\ Harm("outage")
  /\ \E r \in floating["registry"], q \in floating["pools"] :
       file' = [c \in Catalog |-> IF c = "registry" THEN r ELSE q]
  /\ floating' = [c \in Catalog |-> {file'[c]}]
  /\ holder' = [c \in Catalog |-> NULL]
  /\ call' = [p \in Procs |-> {}]
  /\ buffer' = [p \in Procs |-> Empty]
  /\ pc' = [p \in Procs |-> "idle"]
  /\ UNCHANGED <<minted, acked>>

\* An editor, a synchronisation tool or a failing disk, between two calls.
Damage(c) ==
  /\ holder[c] = NULL
  /\ Harm("damage")
  /\ file' = [file EXCEPT ![c].says = {}]
  /\ floating' = [floating EXCEPT ![c] = {file'[c]}]
  /\ UNCHANGED <<holder, call, buffer, pc, minted, acked>>

Init ==
  /\ file = [c \in Catalog |-> [says |-> {Empty}, ver |-> 0]]
  /\ floating = [c \in Catalog |-> {[says |-> {Empty}, ver |-> 0]}]
  /\ holder = [c \in Catalog |-> NULL]
  /\ call = [p \in Procs |-> {}]
  /\ buffer = [p \in Procs |-> Empty]
  /\ pc = [p \in Procs |-> "idle"]
  /\ minted = {}
  /\ acked = [c \in Catalog |-> 0]
  /\ harm = 0

Next ==
  \/ \E p \in Procs, k \in Calls :
       \/ Begin(p, k) \/ Lock(p, k) \/ Decide(p, k) \/ Decline(p, k)
       \/ Replace(p, k) \/ SyncDirectory(p, k) \/ Finish(p, k)
  \/ \E p \in Procs : Die(p)
  \/ PowerFails
  \/ \E c \in Catalog : Damage(c)

Spec == Init /\ [][Next]_vars

-----------------------------------------------------------------------------

\* A call that has returned is not undone by a power failure: whatever one may
\* leave is at least as new ("a power loss can lose the rename after a
\* successful return", catalog_io.py:157, is what the fsync is for).
ReturnedIsDurable == \A c \in Catalog : \A f \in floating[c] : f.ver >= acked[c]

\* Nothing is lost to another process or to damage: every write is its call's change
\* to the content it replaces, not to one that was read earlier, and a damaged
\* catalog is never written ("refusing to reinterpret corruption as empty",
\* project_registry.py:95).
NothingIsLost ==
  [][\A c \in Catalog : file'[c].ver > file[c].ver =>
       \E p \in Procs : \E k \in call[p] :
         \E v \in file[c].says, id \in Ids :
           /\ CatalogOf(k) = c /\ Writes(k, v)
           /\ file'[c].says = {Written(k, v, id)}]_vars

\* The registry as its readers see it is the atomic map of ProjectIdentity,
\* whichever calls die, and goes on being it after a power failure or damage: an
\* id counts as minted when it can be seen, or when the call that was to write it
\* is gone.  A reader takes a damaged file for an empty one.
Visible ==
  IF file["registry"].says = {} THEN Empty ELSE CHOOSE v \in file["registry"].says : TRUE

Identity == INSTANCE ProjectIdentity WITH
  registry <- Visible, minted <- minted \ InFlight

FromOutside == PowerFails \/ \E c \in Catalog : Damage(c)

RegistryIsAtomic ==
  /\ Identity!Init
  /\ [][FromOutside \/ [Identity!Next]_<<Visible, minted \ InFlight>>]_vars
=============================================================================
