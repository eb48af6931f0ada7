----------------------------- MODULE Enrollment -----------------------------
(***************************************************************************)
(* How this machine comes to hold a credential for one project: consent    *)
(* forms (private_browser_connect, connect), each with a handler thread    *)
(* that works while the person may cancel, let the form expire or stop the *)
(* tool; and setup_teamwork.py, which has no form.  All of them share one  *)
(* service and one connection file (the script's own by default, the forms'*)
(* if it is given that path).                                              *)
(*                                                                         *)
(* A credential is named after the actor and the request that asked for    *)
(* it; Pasted is one the person brings from the portal.                    *)
(***************************************************************************)
EXTENDS Naturals, FiniteSets

CONSTANTS
  Forms,          \* consent forms, of any process on this machine
  Setups,         \* runs of setup_teamwork.py
  Pasted, None,
  SetupMayTimeOut, \* may the service be slow to answer the setup script?
  MaxMints,       \* bound: requests for a credential by one actor
  MaxCrashes

Actors == Forms \cup Setups
Minted == Actors \X (1 .. MaxMints)
Credentials == Minted \cup {Pasted}
Absent == [by |-> None, cred |-> None]

ASSUME EnrollmentAssumption ==
  /\ Forms \cap Setups = {} /\ None \notin Actors \cup Credentials /\ Pasted \notin Minted
  /\ SetupMayTimeOut \in BOOLEAN /\ {MaxMints, MaxCrashes} \subseteq Nat
  /\ Setups # {} => MaxMints >= IF SetupMayTimeOut THEN 2 ELSE 1

VARIABLES
  file,       \* connection.json: who created it, and the credential it holds
  live,       \* credentials the service honours
  late,       \* requests given up by their sender that may still be served
  told,       \* credentials the person was told to review (and, if they can
              \* be written, recovery files name)
  pc,         \* where each handler or script stands
  route,      \* the way it enrolls
  cred,       \* the credential in its hands
  mints,      \* requests it has made for one
  requested,  \* attempt.requested, or the stop event
  completed,  \* attempt.completed
  expired,    \* the form has closed for want of activity
  denied,     \* the person was told that no connection was saved
  answer,     \* how the tool returned
  crashed     \* actors whose process died

service == <<live, late>>
handler == <<pc, route, cred, mints>>
form == <<requested, completed, expired, denied, answer>>
vars == <<file, live, late, told, pc, route, cred, mints,
          requested, completed, expired, denied, answer, crashed>>

TypeOK ==
  /\ file \in {Absent} \cup [by : Actors, cred : Credentials \cup {None}]
  /\ live \subseteq Credentials /\ late \subseteq Minted
  /\ told \subseteq Minted
  /\ pc \in [Actors -> {"idle", "begin", "check", "reserve", "login", "mint", "write", "seal", "sealed",
                         "conflict", "undo", "unlink", "done", "dead"}]
  /\ route \in [Actors -> {"member", "sso", "portal", "setup", "saved"}]
  /\ cred \in [Actors -> Credentials \cup {None}]
  /\ mints \in [Actors -> 0 .. MaxMints]
  /\ {requested, completed, expired, denied} \subseteq [Forms -> BOOLEAN]
  /\ answer \in [Forms -> {"none", "sharing", "aborted", "kept"}]
  /\ crashed \subseteq Actors /\ Cardinality(crashed) <= MaxCrashes

Init ==
  /\ file = Absent
  /\ live = {Pasted} /\ late = {} /\ told = {}
  /\ pc = [a \in Actors |-> IF a \in Setups THEN "begin" ELSE "idle"]
  /\ route = [a \in Actors |-> IF a \in Setups THEN "setup" ELSE "member"]
  /\ cred = [a \in Actors |-> None] /\ mints = [a \in Actors |-> 0]
  /\ requested = [f \in Forms |-> FALSE] /\ completed = requested
  /\ expired = requested /\ denied = requested
  /\ answer = [f \in Forms |-> "none"]
  /\ crashed = {}

-----------------------------------------------------------------------------
(* ConsentAttempt *)

(* attempt.check: a cancelled attempt goes no further; setup has none. *)
Aborted(a) == a \in Forms /\ requested[a]

(* attempt.cancel: without effect once the connection is complete. *)
CancelAttempt(f) == requested' = [requested EXCEPT ![f] = @ \/ ~ completed[f]]

-----------------------------------------------------------------------------
(* connect and enroll_and_save, one request or file operation at a time *)

Goto(a, label) == pc' = [pc EXCEPT ![a] = label]
Hold(a, c) == cred' = [cred EXCEPT ![a] = c]
Owns(a) == file.by = a

(* A request that carries consent: one at a time, while the form is open. *)
Submit(f) ==
  /\ pc[f] = "idle" /\ answer[f] = "none"
  /\ ~ requested[f] /\ ~ completed[f] /\ ~ expired[f] /\ mints[f] < MaxMints
  /\ \E r \in {"member", "sso", "portal"} : route' = [route EXCEPT ![f] = r]
  /\ Goto(f, "begin")
  /\ UNCHANGED <<file, service, told, cred, mints, form, crashed>>

(* A saved connection is never replaced: the submission, or the script, is
   refused; an empty one is unreadable. *)
SavedExists(a) ==
  /\ file # Absent /\ Goto(a, IF a \in Setups THEN "done" ELSE "idle") /\ UNCHANGED <<route, cred>>

(* Or it is reused, after it was verified. *)
ReuseSaved(a) ==
  /\ file # Absent /\ file.cred # None /\ route[a] \in {"member", "sso"} /\ ~ Aborted(a)
  /\ Goto(a, "check") /\ route' = [route EXCEPT ![a] = "saved"] /\ Hold(a, file.cred)

(* A credential from the portal is verified before the file is reserved. *)
UsePasted(a) ==
  /\ file = Absent /\ route[a] = "portal" /\ ~ Aborted(a)
  /\ Goto(a, "check") /\ Hold(a, Pasted) /\ UNCHANGED route

(* _fetch_service_config: the service is asked whether SSO is offered; if it is
   not, or cannot be reached, the submission is refused. *)
NoSso(a) == route[a] = "sso" /\ ~ Aborted(a) /\ Goto(a, "unlink") /\ Hold(a, None) /\ UNCHANGED route

(* What connect does first.  SSO without a project asks for a credential
   before it knows where to save it. *)
Begin(a) ==
  /\ pc[a] = "begin"
  /\ \/ SavedExists(a) \/ ReuseSaved(a) \/ UsePasted(a) \/ NoSso(a)
     \/ /\ ~ Aborted(a)
        /\ \/ route[a] = "sso" /\ Goto(a, "mint")
           \/ route[a] \in {"member", "setup"} /\ file = Absent /\ Goto(a, "reserve")
        /\ Hold(a, None) /\ UNCHANGED route
     \/ Aborted(a) /\ Goto(a, "unlink") /\ UNCHANGED <<route, cred>>
  /\ UNCHANGED <<file, service, told, mints, form, crashed>>

(* _verify_connection: two requests, refused for a credential that is not
   honoured; a saved connection is kept whatever they say. *)
Check(a) ==
  /\ pc[a] = "check"
  /\ \/ /\ cred[a] \in live /\ ~ Aborted(a)
        /\ Goto(a, IF route[a] = "saved" THEN "seal" ELSE "reserve") /\ UNCHANGED cred
     \/ Goto(a, "unlink") /\ Hold(a, None)
  /\ UNCHANGED <<file, service, told, route, mints, form, crashed>>

(* open(O_CREAT | O_EXCL).  SSO has its credential by now: it gives it back
   and turns to the saved connection.  No single project, an unsafe directory
   or a failed open gives it back too. *)
Reserve(a) ==
  /\ pc[a] = "reserve"
  /\ \/ Goto(a, "undo") /\ UNCHANGED file
     \/ /\ ~ Aborted(a) /\ file = Absent
        /\ file' = [by |-> a, cred |-> None] /\ Goto(a, IF cred[a] = None THEN "login" ELSE "write")
     \/ /\ ~ Aborted(a) /\ file # Absent
        /\ Goto(a, IF route[a] = "sso" THEN "conflict" ELSE "unlink") /\ UNCHANGED file
  /\ UNCHANGED <<service, told, route, cred, mints, form, crashed>>

Login(a) ==
  /\ pc[a] = "login"
  /\ \/ ~ Aborted(a) /\ Goto(a, "mint")
     \/ Goto(a, "undo")
  /\ UNCHANGED <<file, service, told, route, cred, mints, form, crashed>>

(* The service grants a credential. *)
Granted(a, c) ==
  /\ live' = live \cup {c} /\ Hold(a, c)
  /\ Goto(a, IF route[a] = "sso" THEN "reserve" ELSE "write")
  /\ UNCHANGED <<late, told>>

(* Without an answer it may exist, come to exist later or not at all: a form
   tells the person to review what this attempt may have left. *)
Unanswered(a, c) ==
  /\ \/ live' = live \cup {c} /\ UNCHANGED late
     \/ late' = late \cup {c} /\ UNCHANGED live
  /\ told' = IF a \in Forms THEN told \cup {c} ELSE told
  /\ UNCHANGED cred

(* The setup script takes the service to be asleep and sends once more. *)
AskAgain(a) == a \in Setups /\ mints[a] = 0

(* POST /api/harnesses is granted, refused or not answered, which stands for
   every outcome that does not tell (5xx, an unreadable 200) as well. *)
Mint(a) ==
  LET c == <<a, mints[a] + 1>> IN
  /\ pc[a] = "mint"
  /\ \/ Aborted(a) /\ Goto(a, "undo") /\ UNCHANGED <<service, told, cred, mints>>
     \/ /\ ~ Aborted(a)
        /\ mints' = [mints EXCEPT ![a] = @ + 1]
        /\ \/ Granted(a, c)
           \/ Goto(a, "undo") /\ UNCHANGED <<service, told, cred>>
           \/ /\ a \in Setups => SetupMayTimeOut
              /\ Unanswered(a, c) /\ Goto(a, IF AskAgain(a) THEN "mint" ELSE "undo")
  /\ UNCHANGED <<file, route, form, crashed>>

(* The file is written and synced; the disk may refuse. *)
Write(a) ==
  /\ pc[a] = "write"
  /\ \/ ~ Aborted(a) /\ file' = [file EXCEPT !.cred = cred[a]] /\ Goto(a, "seal")
     \/ Goto(a, "undo") /\ UNCHANGED file
  /\ UNCHANGED <<service, told, route, cred, mints, form, crashed>>

(* Mutant: a cancelled attempt completes all the same. *)
SealAnyway(a) ==
  /\ pc[a] = "seal"
  /\ Goto(a, IF a \in Forms THEN "sealed" ELSE "done")
  /\ completed' = [f \in Forms |-> completed[f] \/ f = a]
  /\ UNCHANGED <<file, service, told, route, cred, mints, requested, expired, denied, answer, crashed>>

(* attempt.complete: from here on nothing cancels it.  The setup script has
   its overlay to write instead. *)
Seal(a) ==
  /\ pc[a] = "seal"
  /\ \/ /\ ~ Aborted(a) /\ Goto(a, IF a \in Forms THEN "sealed" ELSE "done")
        /\ completed' = [f \in Forms |-> completed[f] \/ f = a]
     \/ /\ a \in Setups \/ Aborted(a)
        /\ Goto(a, IF route[a] = "saved" THEN "unlink" ELSE "undo") /\ UNCHANGED completed
  /\ UNCHANGED <<file, service, told, route, cred, mints, requested, expired, denied, answer, crashed>>

(* outcome.append *)
Deliver(f) ==
  /\ pc[f] = "sealed" /\ Goto(f, "done")
  /\ UNCHANGED <<file, service, told, route, cred, mints, form, crashed>>

(* Mutant: a revocation that failed leaves no trace. *)
RevokeQuietly(a) ==
  /\ cred[a] \in Minted
  /\ \E revoked \in BOOLEAN : live' = IF revoked THEN live \ {cred[a]} ELSE live
  /\ UNCHANGED <<late, told>>

(* The new credential is revoked.  If that is not confirmed, the person is told. *)
Revoke(a) ==
  /\ cred[a] \in Minted
  /\ \E revoked, confirmed \in BOOLEAN :
       /\ confirmed => revoked
       /\ live' = IF revoked THEN live \ {cred[a]} ELSE live
       /\ told' = IF confirmed THEN told ELSE told \cup {cred[a]}
  /\ UNCHANGED late

(* The handler of every failure.  setup keeps its files if it could not revoke. *)
Undo(a) ==
  /\ pc[a] = "undo"
  /\ IF cred[a] \in Minted THEN Revoke(a) ELSE UNCHANGED <<service, told>>
  /\ Goto(a, IF a \in Setups /\ told' # told THEN "done" ELSE "unlink")
  /\ UNCHANGED <<file, route, cred, mints, form, crashed>>

(* SSO found a saved connection: its own credential goes back first. *)
GiveBack(a) ==
  /\ pc[a] = "conflict"
  /\ Revoke(a)
  /\ \/ /\ told' = told /\ file.cred # None
        /\ Goto(a, "check") /\ Hold(a, file.cred) /\ route' = [route EXCEPT ![a] = "saved"]
     \/ /\ told' # told \/ file.cred = None
        /\ Goto(a, "unlink") /\ UNCHANGED <<cred, route>>
  /\ UNCHANGED <<file, mints, form, crashed>>

(* Mutants: the file stays behind, or goes whoever wrote it. *)
UnlinkNothing(a) == file
UnlinkAny(a) == Absent

(* Only the file this actor reserved is removed. *)
Unlinked(a) == IF Owns(a) /\ route[a] # "saved" THEN Absent ELSE file

(* The end of a failed submission.  A cancelled one says that nothing was
   saved, unless its credential could not be revoked. *)
Unlink(a) ==
  /\ pc[a] = "unlink"
  /\ file' = Unlinked(a)
  /\ Goto(a, IF a \in Setups THEN "done" ELSE "idle") /\ Hold(a, None)
  /\ denied' = IF Aborted(a) /\ cred[a] \notin told THEN [denied EXCEPT ![a] = TRUE] ELSE denied
  /\ UNCHANGED <<service, told, route, mints, requested, completed, expired, answer, crashed>>

-----------------------------------------------------------------------------
(* The form's own thread, the tool, and what else may happen *)

(* The person cancels; the page promises that nothing was saved only if no
   submission is under way. *)
Cancel(f) ==
  /\ answer[f] = "none" /\ ~ expired[f] /\ ~ completed[f] /\ ~ requested[f]
  /\ CancelAttempt(f)
  /\ denied' = [denied EXCEPT ![f] = @ \/ pc[f] = "idle"]
  /\ UNCHANGED <<file, service, told, handler, completed, expired, answer, crashed>>

(* No activity for a while. *)
Expire(f) ==
  /\ answer[f] = "none" /\ ~ expired[f] /\ ~ requested[f] /\ pc[f] # "done"
  /\ expired' = [expired EXCEPT ![f] = TRUE] /\ CancelAttempt(f)
  /\ UNCHANGED <<file, service, told, handler, completed, denied, answer, crashed>>

(* The tool itself is cancelled: stop is set, whatever the form goes on to do. *)
Interrupt(f) ==
  /\ answer[f] = "none"
  /\ answer' = [answer EXCEPT ![f] = "aborted"] /\ CancelAttempt(f)
  /\ UNCHANGED <<file, service, told, handler, completed, expired, denied, crashed>>

(* The form closes and the tool returns: with the outcome, with a credential
   kept and not used, or without one while a handler may still be cleaning up. *)
Return(f) ==
  /\ answer[f] = "none"
  /\ \/ /\ pc[f] = "done" /\ (requested[f] => expired[f])
        /\ answer' = [answer EXCEPT ![f] = IF file.cred # None THEN "sharing" ELSE "aborted"]
     \/ pc[f] = "sealed" /\ expired[f] /\ answer' = [answer EXCEPT ![f] = "kept"]
     \/ requested[f] /\ pc[f] # "done" /\ answer' = [answer EXCEPT ![f] = "aborted"]
  /\ UNCHANGED <<file, service, told, handler, requested, completed, expired, denied, crashed>>

(* A request whose sender has gone is served after all. *)
ServeLate ==
  /\ \E c \in late : late' = late \ {c} /\ live' = live \cup {c}
  /\ UNCHANGED <<file, told, handler, form, crashed>>

Crash(a) ==
  /\ pc[a] \notin {"idle", "done", "dead"} /\ Cardinality(crashed) < MaxCrashes
  /\ Goto(a, "dead") /\ crashed' = crashed \cup {a}
  /\ answer' = [f \in Forms |-> IF f = a THEN "aborted" ELSE answer[f]]
  /\ UNCHANGED <<file, service, told, route, cred, mints, requested, completed, expired, denied>>

Step(a) ==
  \/ Begin(a) \/ Check(a) \/ Reserve(a) \/ Login(a) \/ Mint(a) \/ Write(a) \/ Seal(a)
  \/ Undo(a) \/ GiveBack(a) \/ Unlink(a)

Next ==
  \/ ServeLate
  \/ \E a \in Actors : Step(a) \/ Crash(a)
  \/ \E f \in Forms : Submit(f) \/ Deliver(f) \/ Cancel(f) \/ Expire(f) \/ Interrupt(f) \/ Return(f)

Spec == Init /\ [][Next]_vars

-----------------------------------------------------------------------------
(* What enrolling owes to the person *)

Busy(a) == pc[a] \notin {"idle", "done", "dead"}

(* Every credential the service honours for this machine is in the hands of a
   handler, in the saved file or known to the person; only
   the death of a process loses one (_mint_member, _mint_sso: "revoke any
   credential from this attempt"). *)
Accounted ==
  \A c \in live \cap Minted :
    \/ file.cred = c \/ c \in told
    \/ cred[c[1]] = c /\ Busy(c[1])
    \/ c[1] \in crashed

(* A saved connection that no submission is working on holds a credential the
   service honours: no dead or empty file is left to block the next enrolment
   ("Reserve both private outputs before issuing a remote harness credential"). *)
FileUsable ==
  file # Absent => \/ Busy(file.by) \/ file.by \in crashed
                   \/ file.cred \in live
                   \/ file.by \in Setups /\ cred[file.by] \in told

(* Once complete, a connection is neither replaced nor removed, by its own
   form or another ("An existing saved connection for this project is never
   overwritten"). *)
Complete(a) == IF a \in Forms THEN completed[a] ELSE pc[a] = "done"
SavedStays == [][file # Absent /\ Complete(file.by) => file' = file]_vars

(* What the person was told holds: "No new connection was saved" stays true,
   and a cancelled attempt never shares, whatever its handler was doing. *)
CancelIsHonest ==
  \A f \in Forms :
    /\ denied[f] => file.by # f
    /\ requested[f] => answer[f] # "sharing"

(* A session that shares does so with a credential that is honoured ("A stale
   credential must not silently report a working connection").  It does not
   hold: another form's connection can be reused before it is complete. *)
SharingWorks == \A f \in Forms : answer[f] = "sharing" => cred[f] \in live
=============================================================================
