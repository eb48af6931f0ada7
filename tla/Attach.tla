------------------------------- MODULE Attach -------------------------------
(***************************************************************************)
(* attach_teamwork.py: a person attaches a project directory to a project  *)
(* of the service, with a credential they have.  Runs of the script work   *)
(* on the directory at the same time, while it may be exchanged for        *)
(* another (renamed, replaced by a link) and files may appear in it.       *)
(* People do not delete these files while the script runs.                 *)
(*                                                                         *)
(* Its names are apart from those of Enrollment, the other way to a        *)
(* connection, so that ConnectionProofs can speak of both.                 *)
(***************************************************************************)
EXTENDS Naturals, FiniteSets

CONSTANTS
  Runs,          \* runs of the script
  Secrets,       \* the credentials they were given
  Directories,   \* what the project's path may stand for
  Person, Nobody,
  MaxExchanges,  \* bound: how often the directory is exchanged
  MaxDeaths     \* bound: runs that die, or cannot clean up

ASSUME AttachAssumption ==
  /\ Person \notin Runs /\ Nobody \notin Runs \cup Secrets \cup {Person}
  /\ {MaxExchanges, MaxDeaths} \subseteq Nat

Private == {"connection", "settings"}
NoFile == [by |-> Nobody, secret |-> Nobody]
File == {NoFile} \cup [by : Runs \cup {Person}, secret : Secrets \cup {Nobody}]

VARIABLES
  here,       \* the directory that the path stands for
  files,      \* in each directory: who created the file, and the credential
              \* it was written for (Nobody: empty, or other content)
  ignored,    \* directories whose .gitignore covers the private files
  stage,      \* where each run stands
  secret,     \* the credential of each run
  existing,   \* runs that found files at their start
  pinned,     \* the directory each run has open
  exchanges, died

given == <<secret, exchanges, died>>
attachVars == <<here, files, ignored, stage, secret, existing, pinned, exchanges, died>>

AttachTypeOK ==
  /\ here \in Directories /\ ignored \subseteq Directories
  /\ files \in [Directories -> [Private -> File]]
  /\ stage \in [Runs -> {"begin", "verify", "pin", "compare", "check", "ignore", "create", "write",
                      "enable", "settle", "final", "disable", "remove",
                      "attached", "verified", "refused", "dead"}]
  /\ secret \in [Runs -> Secrets] /\ existing \subseteq Runs
  /\ pinned \in [Runs -> Directories]
  /\ exchanges \in Nat /\ died \subseteq Runs

AttachInit ==
  /\ here \in Directories /\ ignored = {}
  /\ files = [d \in Directories |-> [n \in Private |-> NoFile]]
  /\ stage = [r \in Runs |-> "begin"] /\ secret \in [Runs -> Secrets]
  /\ existing = {} /\ pinned = [r \in Runs |-> here]
  /\ exchanges = 0 /\ died = {}

-----------------------------------------------------------------------------
Proceed(r, label) == stage' = [stage EXCEPT ![r] = label]

(* Both files hold what this run would write. *)
Identical(r, d) == \A n \in Private : files[d][n].secret = secret[r]

(* attach, up to the network: files that differ are preserved. *)
Inspect(r) ==
  /\ stage[r] = "begin"
  /\ IF \E n \in Private : files[here][n] # NoFile
     THEN existing' = existing \cup {r} /\ Proceed(r, IF Identical(r, here) THEN "verify" ELSE "refused")
     ELSE Proceed(r, "verify") /\ UNCHANGED existing
  /\ UNCHANGED <<here, files, ignored, pinned, given>>

(* Whatever is not a directory or a file of its own, is tracked by Git or is
   not honoured by the service, is refused before anything is written. *)
Verify(r) ==
  /\ stage[r] \in {"begin", "verify"}
  /\ \/ stage[r] = "verify" /\ Proceed(r, "pin")
     \/ Proceed(r, "refused")
  /\ UNCHANGED <<here, files, ignored, existing, pinned, given>>

(* After the wait the directory is opened, and made if need be. *)
Pin(r) ==
  /\ stage[r] = "pin"
  /\ \/ /\ pinned' = [pinned EXCEPT ![r] = here]
        /\ Proceed(r, IF r \in existing THEN "compare" ELSE "ignore")
     \/ Proceed(r, "refused") /\ UNCHANGED pinned
  /\ UNCHANGED <<here, files, ignored, existing, given>>

(* An attachment that is there already is read again, and the place checked. *)
Compare(r) ==
  /\ stage[r] = "compare"
  /\ Proceed(r, IF Identical(r, pinned[r]) /\ pinned[r] \in ignored THEN "check" ELSE "refused")
  /\ UNCHANGED <<here, files, ignored, existing, pinned, given>>

CheckPlace(r) ==
  /\ stage[r] = "check"
  /\ Proceed(r, IF pinned[r] = here THEN "verified" ELSE "refused")
  /\ UNCHANGED <<here, files, ignored, existing, pinned, given>>

(* Mutant: the rules are written at the path. *)
IgnoreHere(r) ==
  /\ stage[r] = "ignore"
  /\ ignored' = ignored \cup {here} /\ Proceed(r, "create")
  /\ UNCHANGED <<here, files, existing, pinned, given>>

(* The rules that keep the credential out of Git come first. *)
Ignore(r) ==
  /\ stage[r] = "ignore"
  /\ \/ ignored' = ignored \cup {pinned[r]} /\ Proceed(r, "create")
     \/ Proceed(r, "refused") /\ UNCHANGED ignored
  /\ UNCHANGED <<here, files, existing, pinned, given>>

Put(r, n, file) == files' = [files EXCEPT ![pinned[r]][n] = file]

(* _write_new: open(O_CREAT | O_EXCL), or nothing of this name is owned.  An
   interrupt before the file is noted as owned counts as a death. *)
WriteNew(r, n, next, undo) ==
  /\ IF files[pinned[r]][n] = NoFile
     THEN Put(r, n, [by |-> r, secret |-> Nobody]) /\ Proceed(r, next)
     ELSE Proceed(r, undo) /\ UNCHANGED files
  /\ UNCHANGED <<here, ignored, existing, pinned, given>>

Create(r) == stage[r] = "create" /\ WriteNew(r, "connection", "write", "remove")
Enable(r) == stage[r] = "enable" /\ WriteNew(r, "settings", "settle", "remove")

(* The content follows. *)
Fill(r, n, next) ==
  /\ Put(r, n, [by |-> r, secret |-> secret[r]]) /\ Proceed(r, next)
  /\ UNCHANGED <<here, ignored, existing, pinned, given>>

WriteContent(r) == stage[r] = "write" /\ Fill(r, "connection", "enable")
Settle(r) == stage[r] = "settle" /\ Fill(r, "settings", "final")

(* Last, the path must still stand for the directory written to. *)
Final(r) ==
  /\ stage[r] = "final"
  /\ Proceed(r, IF pinned[r] = here THEN "attached" ELSE "disable")
  /\ UNCHANGED <<here, files, ignored, existing, pinned, given>>

(* The disk refuses, or the person interrupts, at any of these steps. *)
Fail(r) ==
  /\ stage[r] \in {"create", "write", "enable", "settle", "final"}
  /\ Proceed(r, IF stage[r] \in {"settle", "final"} THEN "disable" ELSE "remove")
  /\ UNCHANGED <<here, files, ignored, existing, pinned, given>>

(* Mutant: a file of this name is removed, whoever created it. *)
OwnedByName(r, n) == files[pinned[r]][n] # NoFile

(* What this run created, by its identity. *)
Owned(r, n) == files[pinned[r]][n].by = r

RemoveOwn(r, n, next) ==
  /\ IF Owned(r, n) THEN Put(r, n, NoFile) ELSE UNCHANGED files
  /\ Proceed(r, next)
  /\ UNCHANGED <<here, ignored, existing, pinned, given>>

(* Mutant: in the order they were written. *)
RollbackForwards(r) ==
  \/ stage[r] = "disable" /\ RemoveOwn(r, "connection", "remove")
  \/ stage[r] = "remove" /\ RemoveOwn(r, "settings", "refused")

(* What was written is removed, last file first. *)
Rollback(r) ==
  \/ stage[r] = "disable" /\ RemoveOwn(r, "settings", "remove")
  \/ stage[r] = "remove" /\ RemoveOwn(r, "connection", "refused")

-----------------------------------------------------------------------------
Ended == {"attached", "verified", "refused", "dead"}

Die(r) ==
  /\ stage[r] \notin Ended /\ Cardinality(died) < MaxDeaths
  /\ Proceed(r, "dead") /\ died' = died \cup {r}
  /\ UNCHANGED <<here, files, ignored, secret, existing, pinned, exchanges>>

Exchange(d) ==
  /\ d # here /\ exchanges < MaxExchanges
  /\ here' = d /\ exchanges' = exchanges + 1
  /\ UNCHANGED <<files, ignored, stage, secret, existing, pinned, died>>

PersonWrites(n) ==
  /\ files[here][n] = NoFile
  /\ files' = [files EXCEPT ![here][n] = [by |-> Person, secret |-> Nobody]]
  /\ UNCHANGED <<here, ignored, stage, existing, pinned, given>>

Run(r) ==
  \/ Inspect(r) \/ Verify(r) \/ Pin(r) \/ Compare(r) \/ CheckPlace(r) \/ Ignore(r)
  \/ Create(r) \/ WriteContent(r) \/ Enable(r) \/ Settle(r) \/ Final(r) \/ Fail(r) \/ Rollback(r)

AttachNext ==
  \/ \E r \in Runs : Run(r) \/ Die(r)
  \/ \E d \in Directories : Exchange(d)
  \/ \E n \in Private : PersonWrites(n)

AttachSpec == AttachInit /\ [][AttachNext]_attachVars

-----------------------------------------------------------------------------
(* What attaching owes to the person. *)

(* A file that is there is changed or removed only by the run that created
   it, whatever fails and wherever the path has led meanwhile ("Existing
   settings and connections are never replaced"). *)
NothingTaken ==
  [][\A d \in Directories, n \in Private :
       files[d][n] # NoFile /\ files'[d][n] # files[d][n] =>
         \E r \in Runs : files[d][n].by = r /\ stage'[r] # stage[r]]_attachVars

(* No credential is ever written, not even for a moment, into a directory
   whose ignore rules do not cover it yet, though the path may lead elsewhere
   between two writes ("Protect private files before creating any"). *)
Protected ==
  \A d \in Directories : files[d]["connection"].by \in Runs => d \in ignored

(* Settings that turn sharing on stand beside the complete connection of the
   same run at every moment; a run that ended leaves both or none, unless it
   died (attach, its rollback and _check_pinned_directories). *)
WholeOrNothing ==
  /\ \A d \in Directories : files[d]["settings"].by \in Runs =>
       LET r == files[d]["settings"].by
       IN  files[d]["connection"] = [by |-> r, secret |-> secret[r]]
  /\ \A r \in Runs :
       /\ stage[r] = "attached" => \A n \in Private : files[pinned[r]][n] = [by |-> r, secret |-> secret[r]]
       /\ stage[r] \in {"refused", "verified"} => \A d \in Directories, n \in Private : files[d][n].by # r

(* A run that reports an attachment as verified leaves it in place.  A run    *)
(* that wrote both files and then fails breaks it: it removes what the other  *)
(* one has read.                                                              *)
VerifiedIsThere ==
  [][\A r \in Runs : stage'[r] = "verified" /\ stage[r] # "verified" => Identical(r, here)]_attachVars

=============================================================================
