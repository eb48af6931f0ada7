----------------------------- MODULE QueueNames -----------------------------
(***************************************************************************)
(* queue_name.py: the registry that remembers which project a tracker name *)
(* belongs to.  bind reads the file, decides, and writes it back, without  *)
(* a lock; writing empties the file before it fills it, and an empty file  *)
(* reads as an empty registry.                                             *)
(*                                                                         *)
(* normalise is a lossy function of the project id, given as a constant:   *)
(* two projects may have one name.                                         *)
(***************************************************************************)
CONSTANTS
  Threads,    \* the threads on this machine that may bind a name
  Projects,   \* owners: a service and a project id
  Names,      \* tracker project names
  normalise,  \* the name of each project
  NoProject   \* "no owner", not a project

ASSUME NamesAssumption ==
  /\ normalise \in [Projects -> Names]
  /\ NoProject \notin Projects

VARIABLES
  registry,  \* the file: the owner of each name
  asked,     \* the project each thread last bound a name for
  read       \* what it read of the file

names == <<registry, asked, read>>

Registry == [Names -> Projects \cup {NoProject}]
EmptyRegistry == [n \in Names |-> NoProject]

NamesTypeOK ==
  /\ registry \in Registry
  /\ asked \in [Threads -> Projects \cup {NoProject}]
  /\ read \in [Threads -> Registry]

NamesInit ==
  /\ registry = EmptyRegistry
  /\ asked = [t \in Threads |-> NoProject]
  /\ read = [t \in Threads |-> EmptyRegistry]

(* What the registry r says of the name of project p. *)
Held(r, p) == r[normalise[p]]
Conflict(r, p) == Held(r, p) \notin {NoProject, p}

ReadRegistry(t, p) ==
  /\ asked' = [asked EXCEPT ![t] = p]
  /\ read' = [read EXCEPT ![t] = registry]
  /\ UNCHANGED registry

TruncateRegistry == registry' = EmptyRegistry /\ UNCHANGED <<asked, read>>

WriteRegistry(t) ==
  /\ registry' = [read[t] EXCEPT ![normalise[asked[t]]] = asked[t]]
  /\ UNCHANGED <<asked, read>>

(* bind has returned. *)
CloseRegistry(t) ==
  /\ asked' = [asked EXCEPT ![t] = NoProject]
  /\ read' = [read EXCEPT ![t] = EmptyRegistry]
  /\ UNCHANGED registry
=============================================================================
