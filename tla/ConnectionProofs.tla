-------------------------- MODULE ConnectionProofs --------------------------
(***************************************************************************)
(* The two ways this machine comes to a connection.                        *)
(*                                                                         *)
(* Enrollment, for any number of forms, scripts and requests: no           *)
(* credential that the service honours is lost track of, no dead file is   *)
(* left to block the next enrollment, a saved connection stays, and what a *)
(* cancelled form tells the person holds.                                  *)
(*                                                                         *)
(* The inductive invariant says, actor by actor, what its program counter  *)
(* tells of the credential in its hands and of the file it reserved.  An   *)
(* actor gives back only credentials that it asked for and removes only a  *)
(* file that it reserved, so the steps of another leave all of it alone.   *)
(*                                                                         *)
(* Attach, for any number of runs, directories and exchanges: nobody's     *)
(* file is touched, credentials are written only where they are ignored,   *)
(* and an attachment is whole or gone.  Its invariant says, run by run,    *)
(* what its stage tells of the files it created; a step of another run, of *)
(* a person or of the file system leaves all of that alone.                *)
(***************************************************************************)
EXTENDS Enrollment, Attach, FiniteSetTheorems, TLAPS

-----------------------------------------------------------------------------
(* Enrollment *)

(* Its credential is its own, not the one of a connection it found. *)
Own(a) == route[a] # "saved"

(* From the reservation of the file on. *)
Placed == {"login", "mint", "write", "seal", "sealed", "undo", "unlink", "done", "dead"}
Reserved(a) ==
  file.by = a => Own(a) /\ pc[a] \in Placed /\ file.cred \in {None, cred[a]}

Hands(a) ==
  /\ pc[a] \in {"idle", "begin", "login", "mint"} => cred[a] = None
  /\ pc[a] \in {"begin", "reserve", "login", "mint", "write", "undo", "conflict"} => Own(a)
  /\ cred[a] \in Minted => (cred[a][1] = a <=> Own(a))
  /\ pc[a] = "check" => ~ Own(a) \/ cred[a] = Pasted
  /\ pc[a] = "dead" => a \in crashed

(* There is room for the requests that an actor may still make. *)
Asks(a) ==
  pc[a] \in {"begin", "login", "mint"} \/ (pc[a] = "reserve" /\ cred[a] = None) =>
    /\ mints[a] < MaxMints
    /\ a \in Setups => mints[a] = 0 \/ pc[a] = "mint"

(* Its connection is saved and works. *)
Saved(a) == file.by = a /\ file.cred = cred[a] /\ cred[a] \in live

Stands(a) ==
  /\ pc[a] = "reserve" => \/ cred[a] \in live /\ (cred[a] = Pasted \/ route[a] = "sso")
                          \/ cred[a] = None /\ route[a] # "sso"
  /\ pc[a] = "login" => file.by = a /\ route[a] # "sso"
  /\ pc[a] = "mint" => (file.by = a <=> route[a] # "sso")
  /\ pc[a] = "write" => file.by = a /\ cred[a] \in live
  /\ pc[a] \in {"seal", "sealed"} /\ Own(a) => Saved(a)
  /\ pc[a] = "done" /\ Own(a) =>
       Saved(a) \/ (a \in Setups /\ (file.by # a \/ cred[a] \in told))

(* What a form has promised. *)
Promised(a) ==
  a \in Forms =>
    /\ completed[a] => ~ requested[a] /\ pc[a] \in {"sealed", "done", "dead"}
    /\ pc[a] \in {"sealed", "done"} => completed[a]
    /\ denied[a] => requested[a] /\ pc[a] = "idle"
    /\ answer[a] = "sharing" => completed[a]

Good(a) == Reserved(a) /\ Hands(a) /\ Asks(a) /\ Stands(a) /\ Promised(a)
IInv == TypeOK /\ IsFiniteSet(crashed) /\ Pasted \in live /\ \A a \in Actors : Good(a)

-----------------------------------------------------------------------------
LEMMA Names ==
  /\ None \notin Actors /\ None \notin Credentials /\ Pasted \in Credentials /\ Pasted \notin Minted
  /\ Minted \subseteq Credentials /\ (\A c \in Minted : c[1] \in Actors)
  /\ Forms \subseteq Actors /\ Setups \subseteq Actors /\ Forms \cap Setups = {}
  /\ Actors = Forms \cup Setups
  /\ MaxMints \in Nat /\ MaxCrashes \in Nat /\ SetupMayTimeOut \in BOOLEAN
BY EnrollmentAssumption DEF Actors, Credentials, Minted

(* The next request is one of those the bound allows. *)
LEMMA NextMint ==
  ASSUME NEW a \in Actors, NEW n \in Nat, n < MaxMints
  PROVE  <<a, n + 1>> \in Minted /\ <<a, n + 1>>[1] = a
BY Names DEF Minted

(* A step of actor a leaves the others their place, their credential and their
   word; it takes away only credentials that a asked for, and only a's file. *)
Frame(a) ==
  /\ \A b \in Actors \ {a} : /\ pc'[b] = pc[b] /\ route'[b] = route[b]
                             /\ cred'[b] = cred[b] /\ mints'[b] = mints[b]
  /\ \A f \in Forms \ {a} : /\ requested'[f] = requested[f] /\ completed'[f] = completed[f]
                            /\ denied'[f] = denied[f] /\ answer'[f] = answer[f]
  /\ crashed \subseteq crashed' /\ told \subseteq told'
  /\ \A c \in live : c \in live' \/ (c \in Minted /\ c[1] = a)
  /\ file' = file \/ (file.by \in {a, None} /\ file'.by \in {a, None})

LEMMA OthersKeep ==
  ASSUME IInv, NEW a \in Actors, Frame(a), NEW b \in Actors, b # a
  PROVE  Good(b)'
<1>1. Good(b) /\ b # None /\ Pasted \notin Minted /\ None \notin Minted
  BY Names DEF IInv
<1>2. pc'[b] = pc[b] /\ route'[b] = route[b] /\ cred'[b] = cred[b] /\ mints'[b] = mints[b]
  BY DEF Frame
<1>3. file' = file \/ (file.by # b /\ file'.by # b)
  BY <1>1 DEF Frame
<1>4. Own(b)' = Own(b)
  BY <1>2 DEF Own
<1>5. Own(b) /\ cred[b] \in live => cred[b] \in live'
  BY <1>1 DEF Frame, Good, Hands
<1>6. Saved(b) /\ Own(b) => Saved(b)'
  BY <1>2, <1>3, <1>5 DEF Saved
<1>7. Reserved(b)'
  BY <1>1, <1>2, <1>3, <1>4 DEF Good, Reserved
<1>8. Hands(b)' /\ Asks(b)'
  BY <1>1, <1>2, <1>4 DEF Good, Hands, Asks, Frame
<1>9. Stands(b)'
  BY <1>1, <1>2, <1>3, <1>4, <1>5, <1>6 DEF Good, Stands, Hands, Frame
<1>10. Promised(b)'
  BY <1>1, <1>2 DEF Good, Promised, Frame
<1> QED BY <1>7, <1>8, <1>9, <1>10 DEF Good

LEMMA Together ==
  ASSUME IInv, NEW a \in Actors, Frame(a), TypeOK', IsFiniteSet(crashed)', Good(a)'
  PROVE  IInv'
<1>1. \A b \in Actors : Good(b)'
  BY OthersKeep
<1>2. Pasted \in live'
  BY Names DEF IInv, Frame
<1> QED BY <1>1, <1>2 DEF IInv

(* Goto and Hold change one entry. *)
LEMMA GotoOne ==
  ASSUME TypeOK, NEW a \in Actors, NEW label, Goto(a, label)
  PROVE  pc'[a] = label /\ \A b \in Actors \ {a} : pc'[b] = pc[b]
BY DEF TypeOK, Goto

LEMMA HoldOne ==
  ASSUME TypeOK, NEW a \in Actors, NEW c \in Credentials \cup {None}, Hold(a, c)
  PROVE  /\ cred'[a] = c /\ (\A b \in Actors \ {a} : cred'[b] = cred[b])
         /\ cred' \in [Actors -> Credentials \cup {None}]
BY DEF TypeOK, Hold

Labels == {"idle", "begin", "check", "reserve", "login", "mint", "write", "seal", "sealed",
           "conflict", "undo", "unlink", "done", "dead"}

LEMMA GotoTyped ==
  ASSUME TypeOK, NEW a \in Actors, NEW label \in Labels, Goto(a, label)
  PROVE  pc' \in [Actors -> Labels]
BY DEF TypeOK, Goto, Labels

(* The common case: only the place, the route and the credential of an actor
   change, and its form's word does not. *)
Inside(a) ==
  /\ UNCHANGED <<file, live, late, told, mints, requested, completed, expired, denied, answer, crashed>>
  /\ pc' \in [Actors -> Labels]
  /\ route' \in [Actors -> {"member", "sso", "portal", "setup", "saved"}]
  /\ cred' \in [Actors -> Credentials \cup {None}]
  /\ \A b \in Actors \ {a} : pc'[b] = pc[b] /\ route'[b] = route[b] /\ cred'[b] = cred[b]

LEMMA InsideKeeps ==
  ASSUME IInv, NEW a \in Actors, Inside(a), Good(a)'
  PROVE  IInv'
<1>1. TypeOK'
  BY DEF IInv, TypeOK, Inside, Labels
<1>2. Frame(a)
  BY DEF Inside, Frame
<1>3. IsFiniteSet(crashed)'
  BY DEF IInv, Inside
<1> QED BY <1>1, <1>2, <1>3, Together

-----------------------------------------------------------------------------
USE DEF service, handler, form

LEMMA SubmitKeeps ==
  ASSUME IInv, NEW f \in Forms, Submit(f)
  PROVE  IInv'
<1>1. TypeOK /\ f \in Actors /\ f \notin Setups /\ Good(f)
  BY Names DEF IInv
<1>2. pc[f] = "idle" /\ ~ requested[f] /\ ~ completed[f] /\ mints[f] < MaxMints /\ answer[f] = "none"
  BY DEF Submit
<1>3. PICK r \in {"member", "sso", "portal"} : route' = [route EXCEPT ![f] = r]
  BY DEF Submit
<1>4. Goto(f, "begin") /\ UNCHANGED <<file, live, late, told, cred, mints,
                                      requested, completed, expired, denied, answer, crashed>>
  BY DEF Submit
<1>5. /\ pc' \in [Actors -> Labels] /\ pc'[f] = "begin" /\ route'[f] # "saved"
      /\ \A b \in Actors \ {f} : pc'[b] = pc[b] /\ route'[b] = route[b]
  BY <1>1, <1>3, <1>4, GotoOne, GotoTyped DEF Labels, TypeOK
<1>6. route' \in [Actors -> {"member", "sso", "portal", "setup", "saved"}]
  BY <1>1, <1>3 DEF TypeOK
<1>7. Inside(f)
  BY <1>1, <1>4, <1>5, <1>6 DEF Inside, TypeOK
<1>8. Good(f)'
  BY <1>1, <1>2, <1>4, <1>5, Names
     DEF Good, Reserved, Hands, Asks, Stands, Promised, Own, Placed, Saved
<1> QED BY <1>1, <1>7, <1>8, InsideKeeps

(* A connection found in the file belongs to the actor that saved it. *)
LEMMA FoundIsAnothers ==
  ASSUME IInv, NEW a \in Actors, pc[a] \in {"begin", "conflict"}, file # Absent, file.cred # None
  PROVE  file.cred \in Credentials /\ (file.cred \in Minted => file.cred[1] # a)
<1>1. file.by \in Actors /\ file.cred \in Credentials
  BY DEF IInv, TypeOK
<1>2. Good(a) /\ Good(file.by)
  BY <1>1 DEF IInv
<1>3. file.by # a
  BY <1>2 DEF Good, Reserved, Placed
<1> QED BY <1>1, <1>2, <1>3 DEF Good, Reserved, Hands

LEMMA BeginKeeps ==
  ASSUME IInv, NEW a \in Actors, Begin(a)
  PROVE  IInv'
<1>1. TypeOK /\ Good(a) /\ pc[a] = "begin" /\ cred[a] = None /\ Own(a) /\ file.by # a
      /\ UNCHANGED <<file, live, late, told, mints, requested, completed, expired, denied, answer, crashed>>
  BY DEF IInv, Begin, Good, Hands, Reserved, Placed
<1>2. ASSUME NEW label \in Labels, Goto(a, label), cred' \in [Actors -> Credentials \cup {None}],
             route' \in [Actors -> {"member", "sso", "portal", "setup", "saved"}],
             \A b \in Actors \ {a} : cred'[b] = cred[b] /\ route'[b] = route[b], Good(a)'
      PROVE  IInv'
  <2>1. Inside(a)
    BY <1>1, <1>2, GotoOne, GotoTyped DEF Inside
  <2> QED BY <1>2, <2>1, InsideKeeps
<1>3. CASE SavedExists(a)
  <2>1. PICK label \in {"done", "idle"} : Goto(a, label) /\ (label = "done" => a \in Setups)
    BY <1>3 DEF SavedExists
  <2>2. pc'[a] = label /\ label \in Labels
    BY <1>1, <2>1, GotoOne DEF Labels
  <2>3. UNCHANGED <<route, cred>>
    BY <1>3 DEF SavedExists
  <2>4. Good(a)'
    BY <1>1, <2>1, <2>2, <2>3, Names
       DEF Good, Reserved, Hands, Asks, Stands, Promised, Own, Placed, Saved
  <2> QED BY <1>1, <1>2, <2>1, <2>2, <2>3, <2>4 DEF TypeOK
<1>4. CASE ReuseSaved(a)
  <2>1. /\ file.cred \in Credentials /\ (file.cred \in Minted => file.cred[1] # a)
        /\ Goto(a, "check") /\ Hold(a, file.cred) /\ route' = [route EXCEPT ![a] = "saved"]
    BY <1>1, <1>4, FoundIsAnothers DEF ReuseSaved
  <2>2. /\ pc'[a] = "check" /\ cred'[a] = file.cred /\ route'[a] = "saved"
        /\ cred' \in [Actors -> Credentials \cup {None}]
        /\ \A b \in Actors \ {a} : cred'[b] = cred[b] /\ route'[b] = route[b]
    BY <1>1, <2>1, GotoOne, HoldOne DEF TypeOK
  <2>3. Good(a)'
    BY <1>1, <2>1, <2>2, Names
       DEF Good, Reserved, Hands, Asks, Stands, Promised, Own, Placed, Saved
  <2> QED BY <1>1, <1>2, <2>1, <2>2, <2>3 DEF TypeOK, Labels
<1>5. ASSUME NEW label \in {"check", "unlink", "mint", "reserve"}, Goto(a, label),
             NEW c \in {None, Pasted}, Hold(a, c), route' = route,
             label = "check" <=> c = Pasted, label = "mint" => route[a] = "sso",
             label = "check" => Own(a), label = "reserve" => route[a] # "sso"
      PROVE  IInv'
  <2> c \in Credentials \cup {None}
    BY Names
  <2>1. pc'[a] = label
    BY <1>1, <1>5, GotoOne
  <2>0. /\ cred'[a] = c /\ cred' \in [Actors -> Credentials \cup {None}]
        /\ \A b \in Actors \ {a} : cred'[b] = cred[b]
    BY <1>1, <1>5, HoldOne
  <2>2. Good(a)'
    BY <1>1, <1>5, <2>0, <2>1, Names
       DEF Good, Reserved, Hands, Asks, Stands, Promised, Own, Placed, Saved
  <2> QED BY <1>1, <1>2, <1>5, <2>0, <2>2 DEF TypeOK, Labels
<1>6. CASE UsePasted(a)
  BY <1>1, <1>5, <1>6, Names DEF UsePasted
<1>7. CASE NoSso(a)
  BY <1>5, <1>7, Names DEF NoSso
<1>8. CASE route[a] = "sso" /\ Goto(a, "mint") /\ Hold(a, None) /\ UNCHANGED route
  BY <1>5, <1>8, Names
<1>9. CASE route[a] \in {"member", "setup"} /\ Goto(a, "reserve") /\ Hold(a, None) /\ UNCHANGED route
  BY <1>5, <1>9, Names
<1>10. CASE Goto(a, "unlink") /\ UNCHANGED <<route, cred>>
  <2>1. pc'[a] = "unlink"
    BY <1>1, <1>10, GotoOne
  <2>2. Good(a)'
    BY <1>1, <1>10, <2>1, Names
       DEF Good, Reserved, Hands, Asks, Stands, Promised, Own, Placed, Saved
  <2> QED BY <1>1, <1>2, <1>10, <2>2 DEF TypeOK, Labels
<1> QED BY <1>3, <1>4, <1>6, <1>7, <1>8, <1>9, <1>10 DEF Begin

LEMMA CheckKeeps ==
  ASSUME IInv, NEW a \in Actors, Check(a)
  PROVE  IInv'
<1>1. TypeOK /\ Good(a) /\ pc[a] = "check" /\ file.by # a
      /\ UNCHANGED <<file, live, late, told, route, mints, requested, completed, expired, denied, answer, crashed>>
  BY DEF IInv, Check, Good, Reserved, Placed
<1>2. PICK label \in {"seal", "reserve", "unlink"} :
        /\ Goto(a, label)
        /\ \/ /\ cred' = cred /\ cred[a] \in live
              /\ label = IF route[a] = "saved" THEN "seal" ELSE "reserve"
           \/ label = "unlink" /\ Hold(a, None)
  BY DEF Check
<1>3. pc'[a] = label /\ (\A b \in Actors \ {a} : pc'[b] = pc[b]) /\ pc' \in [Actors -> Labels]
  BY <1>1, <1>2, GotoOne, GotoTyped DEF Labels
<1>4. /\ cred' \in [Actors -> Credentials \cup {None}] /\ \A b \in Actors \ {a} : cred'[b] = cred[b]
      /\ IF label = "unlink" THEN cred'[a] = None ELSE cred'[a] = cred[a]
  BY <1>1, <1>2, HoldOne DEF TypeOK
<1>5. Inside(a)
  BY <1>1, <1>3, <1>4 DEF Inside, TypeOK
<1>6. Good(a)'
  BY <1>1, <1>2, <1>3, <1>4, Names
     DEF Good, Reserved, Hands, Asks, Stands, Promised, Own, Placed, Saved
<1> QED BY <1>5, <1>6, InsideKeeps

LEMMA ReserveKeeps ==
  ASSUME IInv, NEW a \in Actors, Reserve(a)
  PROVE  IInv'
<1>1. TypeOK /\ Good(a) /\ pc[a] = "reserve" /\ file.by # a /\ Own(a)
      /\ UNCHANGED <<live, late, told, route, cred, mints, requested, completed, expired, denied, answer, crashed>>
  BY DEF IInv, Reserve, Good, Reserved, Placed, Hands
<1>2. CASE file = Absent /\ file' = [by |-> a, cred |-> None]
           /\ Goto(a, IF cred[a] = None THEN "login" ELSE "write")
  <2>1. PICK label \in {"login", "write"} :
          Goto(a, label) /\ (label = "login" <=> cred[a] = None)
    BY <1>2
  <2>2. pc'[a] = label /\ (\A b \in Actors \ {a} : pc'[b] = pc[b]) /\ pc' \in [Actors -> Labels]
    BY <1>1, <2>1, GotoOne, GotoTyped DEF Labels
  <2>3. file.by = None /\ file'.by = a /\ file'.cred = None
    BY <1>2 DEF Absent
  <2>4. Good(a)'
    <3>1. None \notin live
      BY <1>1, Names DEF TypeOK
    <3> QED BY <1>1, <2>1, <2>2, <2>3, <3>1
            DEF Good, Reserved, Hands, Asks, Stands, Promised, Own, Placed, Saved
  <2>5. TypeOK'
    BY <1>1, <1>2, <2>2 DEF TypeOK, Labels
  <2>6. Frame(a)
    BY <1>1, <2>2, <2>3, Names DEF Frame
  <2> QED BY <1>1, <2>4, <2>5, <2>6, Together DEF IInv
<1>3. CASE file' = file /\ (Goto(a, "undo") \/ Goto(a, "unlink") \/ Goto(a, "conflict"))
  <2>1. PICK label \in {"undo", "unlink", "conflict"} : Goto(a, label)
    BY <1>3
  <2>2. pc'[a] = label /\ (\A b \in Actors \ {a} : pc'[b] = pc[b]) /\ pc' \in [Actors -> Labels]
    BY <1>1, <2>1, GotoOne, GotoTyped DEF Labels
  <2>3. Inside(a)
    BY <1>1, <1>3, <2>2 DEF Inside, TypeOK
  <2>4. Good(a)'
    BY <1>1, <1>3, <2>2, Names
       DEF Good, Reserved, Hands, Asks, Stands, Promised, Own, Placed, Saved
  <2> QED BY <2>3, <2>4, InsideKeeps
<1> QED BY <1>2, <1>3 DEF Reserve

LEMMA LoginKeeps ==
  ASSUME IInv, NEW a \in Actors, Login(a)
  PROVE  IInv'
<1>1. TypeOK /\ Good(a) /\ pc[a] = "login"
      /\ UNCHANGED <<file, live, late, told, route, cred, mints, requested, completed, expired, denied, answer, crashed>>
  BY DEF IInv, Login
<1>2. PICK label \in {"undo", "mint"} : Goto(a, label)
  BY DEF Login
<1>3. pc'[a] = label /\ (\A b \in Actors \ {a} : pc'[b] = pc[b]) /\ pc' \in [Actors -> Labels]
  BY <1>1, <1>2, GotoOne, GotoTyped DEF Labels
<1>4. Inside(a)
  BY <1>1, <1>3 DEF Inside, TypeOK
<1>5. Good(a)'
  BY <1>1, <1>3, Names
     DEF Good, Reserved, Hands, Asks, Stands, Promised, Own, Placed, Saved
<1> QED BY <1>4, <1>5, InsideKeeps

LEMMA MintKeeps ==
  ASSUME IInv, NEW a \in Actors, Mint(a)
  PROVE  IInv'
<1> DEFINE c == <<a, mints[a] + 1>>
<1>1. TypeOK /\ Good(a) /\ pc[a] = "mint" /\ cred[a] = None /\ Own(a)
      /\ UNCHANGED <<file, route, requested, completed, expired, denied, answer, crashed>>
  BY DEF IInv, Mint, Good, Hands
<1>2. mints[a] \in Nat /\ mints[a] < MaxMints /\ (a \in Setups => mints[a] = 0 \/ pc[a] = "mint")
      /\ mints \in [Actors -> 0 .. MaxMints]
  BY <1>1, Names DEF Good, Asks, TypeOK
<1>3. c \in Minted /\ c[1] = a /\ c \in Credentials /\ c # None
  BY <1>2, NextMint, Names
<1>4. CASE Goto(a, "undo") /\ UNCHANGED <<live, late, told, cred, mints>>
  <2>1. pc'[a] = "undo" /\ (\A b \in Actors \ {a} : pc'[b] = pc[b]) /\ pc' \in [Actors -> Labels]
    BY <1>1, <1>4, GotoOne, GotoTyped DEF Labels
  <2>2. Inside(a)
    BY <1>1, <1>4, <2>1 DEF Inside, TypeOK
  <2>3. Good(a)'
    BY <1>1, <1>4, <2>1, Names
       DEF Good, Reserved, Hands, Asks, Stands, Promised, Own, Placed, Saved
  <2> QED BY <2>2, <2>3, InsideKeeps
<1>5. ASSUME mints' = [mints EXCEPT ![a] = mints[a] + 1]
      PROVE  /\ mints' \in [Actors -> 0 .. MaxMints] /\ mints'[a] = mints[a] + 1
             /\ \A b \in Actors \ {a} : mints'[b] = mints[b]
  BY <1>2, <1>5, Names
<1> HIDE DEF c
<1>6. CASE mints' = [mints EXCEPT ![a] = mints[a] + 1] /\ Granted(a, c)
  <2>1. /\ live' = live \cup {c} /\ late' = late /\ told' = told
        /\ Hold(a, c) /\ Goto(a, IF route[a] = "sso" THEN "reserve" ELSE "write")
    BY <1>6 DEF Granted
  <2>2. PICK label \in {"reserve", "write"} : Goto(a, label) /\ (label = "reserve" <=> route[a] = "sso")
    BY <2>1
  <2>3. pc'[a] = label /\ (\A b \in Actors \ {a} : pc'[b] = pc[b]) /\ pc' \in [Actors -> Labels]
    BY <1>1, <2>2, GotoOne, GotoTyped DEF Labels
  <2>4. /\ cred' \in [Actors -> Credentials \cup {None}] /\ cred'[a] = c
        /\ \A b \in Actors \ {a} : cred'[b] = cred[b]
    BY <1>1, <1>3, <2>1, HoldOne
  <2>5. Good(a)'
    BY <1>1, <1>3, <2>1, <2>2, <2>3, <2>4, Names
       DEF Good, Reserved, Hands, Asks, Stands, Promised, Own, Placed, Saved
  <2>6. TypeOK'
    BY <1>1, <1>3, <1>5, <1>6, <2>1, <2>3, <2>4 DEF TypeOK, Labels
  <2>7. Frame(a)
    BY <1>1, <1>5, <1>6, <2>1, <2>3, <2>4 DEF Frame
  <2> QED BY <1>1, <2>5, <2>6, <2>7, Together DEF IInv
<1>7. ASSUME mints' = [mints EXCEPT ![a] = mints[a] + 1], UNCHANGED cred,
             NEW label \in {"mint", "undo"}, Goto(a, label),
             label = "mint" => SetupMayTimeOut /\ AskAgain(a),
             live \subseteq live', live' \subseteq live \cup {c}, late' \subseteq late \cup {c},
             told \subseteq told', told' \subseteq told \cup {c}
      PROVE  IInv'
  <2>1. pc'[a] = label /\ (\A b \in Actors \ {a} : pc'[b] = pc[b]) /\ pc' \in [Actors -> Labels]
    BY <1>1, <1>7, GotoOne, GotoTyped DEF Labels
  <2>2. label = "mint" => mints'[a] < MaxMints
    BY <1>2, <1>5, <1>7, Names, EnrollmentAssumption DEF AskAgain
  <2>3. Good(a)'
    BY <1>1, <1>7, <2>1, <2>2, Names
       DEF Good, Reserved, Hands, Asks, Stands, Promised, Own, Placed, Saved
  <2>4. TypeOK'
    BY <1>1, <1>3, <1>5, <1>7, <2>1 DEF TypeOK, Labels
  <2>5. Frame(a)
    BY <1>1, <1>5, <1>7, <2>1 DEF Frame
  <2> QED BY <1>1, <2>3, <2>4, <2>5, Together DEF IInv
<1>8. CASE mints' = [mints EXCEPT ![a] = mints[a] + 1] /\ Goto(a, "undo") /\ UNCHANGED <<live, late, told, cred>>
  BY <1>7, <1>8
<1>9. CASE mints' = [mints EXCEPT ![a] = mints[a] + 1] /\ (a \in Setups => SetupMayTimeOut)
           /\ Unanswered(a, c) /\ Goto(a, IF AskAgain(a) THEN "mint" ELSE "undo")
  <2>1. PICK label \in {"mint", "undo"} : Goto(a, label) /\ (label = "mint" => AskAgain(a))
    BY <1>9
  <2>2. label = "mint" => SetupMayTimeOut
    BY <1>9, <2>1 DEF AskAgain
  <2>3. /\ live \subseteq live' /\ live' \subseteq live \cup {c} /\ late' \subseteq late \cup {c}
        /\ told \subseteq told' /\ told' \subseteq told \cup {c} /\ UNCHANGED cred
    BY <1>9 DEF Unanswered
  <2> QED BY <1>7, <1>9, <2>1, <2>2, <2>3
<1> QED BY <1>4, <1>6, <1>8, <1>9 DEF Mint, c

LEMMA WriteKeeps ==
  ASSUME IInv, NEW a \in Actors, Write(a)
  PROVE  IInv'
<1>1. TypeOK /\ Good(a) /\ pc[a] = "write" /\ file.by = a /\ Own(a) /\ cred[a] \in live
      /\ UNCHANGED <<live, late, told, route, cred, mints, requested, completed, expired, denied, answer, crashed>>
  BY DEF IInv, Write, Good, Hands, Stands
<1>2. file \in [by : Actors, cred : Credentials \cup {None}] /\ cred[a] \in Credentials
  BY <1>1, Names DEF TypeOK, Absent
<1>3. PICK label \in {"seal", "undo"} : Goto(a, label)
        /\ IF label = "seal" THEN file' = [file EXCEPT !.cred = cred[a]] ELSE file' = file
  BY DEF Write
<1>4. pc'[a] = label /\ (\A b \in Actors \ {a} : pc'[b] = pc[b]) /\ pc' \in [Actors -> Labels]
  BY <1>1, <1>3, GotoOne, GotoTyped DEF Labels
<1>5. /\ file' \in [by : Actors, cred : Credentials \cup {None}] /\ file'.by = a
      /\ file'.cred = IF label = "seal" THEN cred[a] ELSE file.cred
  BY <1>1, <1>2, <1>3
<1>6. Good(a)'
  BY <1>1, <1>3, <1>4, <1>5, Names
     DEF Good, Reserved, Hands, Asks, Stands, Promised, Own, Placed, Saved
<1>7. TypeOK'
  BY <1>1, <1>4, <1>5 DEF TypeOK, Labels
<1>8. Frame(a)
  BY <1>1, <1>4, <1>5 DEF Frame
<1> QED BY <1>1, <1>6, <1>7, <1>8, Together DEF IInv

LEMMA SealKeeps ==
  ASSUME IInv, NEW a \in Actors, Seal(a)
  PROVE  IInv'
<1>1. TypeOK /\ Good(a) /\ pc[a] = "seal"
      /\ UNCHANGED <<file, live, late, told, route, cred, mints, requested, expired, denied, answer, crashed>>
  BY DEF IInv, Seal
<1>2. CASE /\ ~ Aborted(a) /\ Goto(a, IF a \in Forms THEN "sealed" ELSE "done")
           /\ completed' = [f \in Forms |-> completed[f] \/ f = a]
  <2>1. PICK label \in {"sealed", "done"} : Goto(a, label) /\ (label = "sealed" <=> a \in Forms)
    BY <1>2
  <2>2. pc'[a] = label /\ (\A b \in Actors \ {a} : pc'[b] = pc[b]) /\ pc' \in [Actors -> Labels]
    BY <1>1, <2>1, GotoOne, GotoTyped DEF Labels
  <2>3. /\ completed' \in [Forms -> BOOLEAN] /\ (a \in Forms => completed'[a])
        /\ \A f \in Forms \ {a} : completed'[f] = completed[f]
    BY <1>1, <1>2 DEF TypeOK
  <2>4. Good(a)'
    BY <1>1, <1>2, <2>1, <2>2, <2>3, Names
       DEF Good, Reserved, Hands, Asks, Stands, Promised, Own, Placed, Saved, Aborted
  <2>5. TypeOK'
    BY <1>1, <2>2, <2>3 DEF TypeOK, Labels
  <2>6. Frame(a)
    BY <1>1, <2>2, <2>3 DEF Frame
  <2> QED BY <1>1, <2>4, <2>5, <2>6, Together DEF IInv
<1>3. CASE Goto(a, IF route[a] = "saved" THEN "unlink" ELSE "undo") /\ UNCHANGED completed
  <2>1. PICK label \in {"unlink", "undo"} : Goto(a, label) /\ (label = "undo" => Own(a))
    BY <1>3 DEF Own
  <2>2. pc'[a] = label /\ (\A b \in Actors \ {a} : pc'[b] = pc[b]) /\ pc' \in [Actors -> Labels]
    BY <1>1, <2>1, GotoOne, GotoTyped DEF Labels
  <2>3. Inside(a)
    BY <1>1, <1>3, <2>2 DEF Inside, TypeOK
  <2>4. Good(a)'
    BY <1>1, <1>3, <2>1, <2>2, Names
       DEF Good, Reserved, Hands, Asks, Stands, Promised, Own, Placed, Saved
  <2> QED BY <2>3, <2>4, InsideKeeps
<1> QED BY <1>2, <1>3 DEF Seal

LEMMA DeliverKeeps ==
  ASSUME IInv, NEW f \in Forms, Deliver(f)
  PROVE  IInv'
<1>1. TypeOK /\ Good(f) /\ pc[f] = "sealed" /\ Goto(f, "done") /\ f \in Actors
      /\ UNCHANGED <<file, live, late, told, route, cred, mints, requested, completed, expired, denied, answer, crashed>>
  BY Names DEF IInv, Deliver
<1>2. pc'[f] = "done" /\ (\A b \in Actors \ {f} : pc'[b] = pc[b]) /\ pc' \in [Actors -> Labels]
  BY <1>1, GotoOne, GotoTyped DEF Labels
<1>3. Inside(f)
  BY <1>1, <1>2 DEF Inside, TypeOK
<1>4. Good(f)'
  BY <1>1, <1>2, Names
     DEF Good, Reserved, Hands, Asks, Stands, Promised, Own, Placed, Saved
<1> QED BY <1>1, <1>3, <1>4, InsideKeeps

(* A credential is given back by the actor that asked for it. *)
LEMMA Revoked ==
  ASSUME IInv, NEW a \in Actors, Own(a), Revoke(a)
  PROVE  /\ live' \subseteq live /\ late' = late /\ told \subseteq told' /\ told' \subseteq Minted
         /\ \A c \in live : c \in live' \/ (c \in Minted /\ c[1] = a)
         /\ told' # told => cred[a] \in told'
<1>1. cred[a] \in Minted /\ cred[a][1] = a /\ told \subseteq Minted
  BY DEF IInv, TypeOK, Revoke, Good, Hands
<1> QED BY <1>1 DEF Revoke

LEMMA UndoKeeps ==
  ASSUME IInv, NEW a \in Actors, Undo(a)
  PROVE  IInv'
<1>1. TypeOK /\ Good(a) /\ pc[a] = "undo" /\ Own(a)
      /\ UNCHANGED <<file, route, cred, mints, requested, completed, expired, denied, answer, crashed>>
  BY DEF IInv, Undo, Good, Hands
<1>2. /\ live' \subseteq live /\ late' = late /\ told \subseteq told' /\ told' \subseteq Minted
      /\ \A c \in live : c \in live' \/ (c \in Minted /\ c[1] = a)
      /\ told' # told => cred[a] \in told'
  BY <1>1, Revoked DEF Undo, TypeOK
<1>3. PICK label \in {"done", "unlink"} : Goto(a, label) /\ (label = "done" => a \in Setups /\ told' # told)
  BY DEF Undo
<1>4. pc'[a] = label /\ (\A b \in Actors \ {a} : pc'[b] = pc[b]) /\ pc' \in [Actors -> Labels]
  BY <1>1, <1>3, GotoOne, GotoTyped DEF Labels
<1>5. Good(a)'
  BY <1>1, <1>2, <1>3, <1>4, Names
     DEF Good, Reserved, Hands, Asks, Stands, Promised, Own, Placed, Saved
<1>6. TypeOK'
  BY <1>1, <1>2, <1>4 DEF TypeOK, Labels
<1>7. Frame(a)
  BY <1>1, <1>2, <1>4 DEF Frame
<1> QED BY <1>1, <1>5, <1>6, <1>7, Together DEF IInv

LEMMA GiveBackKeeps ==
  ASSUME IInv, NEW a \in Actors, GiveBack(a)
  PROVE  IInv'
<1>1. TypeOK /\ Good(a) /\ pc[a] = "conflict" /\ Own(a) /\ file.by # a
      /\ UNCHANGED <<file, mints, requested, completed, expired, denied, answer, crashed>>
  BY DEF IInv, GiveBack, Good, Hands, Reserved, Placed
<1>2. /\ live' \subseteq live /\ late' = late /\ told \subseteq told' /\ told' \subseteq Minted
      /\ \A c \in live : c \in live' \/ (c \in Minted /\ c[1] = a)
  BY <1>1, Revoked DEF GiveBack
<1>3. CASE /\ file.cred # None
           /\ Goto(a, "check") /\ Hold(a, file.cred) /\ route' = [route EXCEPT ![a] = "saved"]
  <2>1. file # Absent
    BY <1>3 DEF Absent
  <2>2. file.cred \in Credentials /\ (file.cred \in Minted => file.cred[1] # a)
    BY <1>1, <1>3, <2>1, FoundIsAnothers
  <2>3. pc'[a] = "check" /\ (\A b \in Actors \ {a} : pc'[b] = pc[b]) /\ pc' \in [Actors -> Labels]
    BY <1>1, <1>3, GotoOne, GotoTyped DEF Labels
  <2>4. /\ cred'[a] = file.cred /\ route'[a] = "saved"
        /\ cred' \in [Actors -> Credentials \cup {None}]
        /\ route' \in [Actors -> {"member", "sso", "portal", "setup", "saved"}]
        /\ \A b \in Actors \ {a} : cred'[b] = cred[b] /\ route'[b] = route[b]
    BY <1>1, <1>3, <2>2, HoldOne DEF TypeOK
  <2>5. Good(a)'
    BY <1>1, <2>2, <2>3, <2>4, Names
       DEF Good, Reserved, Hands, Asks, Stands, Promised, Own, Placed, Saved
  <2>6. TypeOK'
    BY <1>1, <1>2, <2>3, <2>4 DEF TypeOK, Labels
  <2>7. Frame(a)
    BY <1>1, <1>2, <2>3, <2>4 DEF Frame
  <2> QED BY <1>1, <2>5, <2>6, <2>7, Together DEF IInv
<1>4. CASE Goto(a, "unlink") /\ UNCHANGED <<cred, route>>
  <2>1. pc'[a] = "unlink" /\ (\A b \in Actors \ {a} : pc'[b] = pc[b]) /\ pc' \in [Actors -> Labels]
    BY <1>1, <1>4, GotoOne, GotoTyped DEF Labels
  <2>2. Good(a)'
    BY <1>1, <1>4, <2>1, Names
       DEF Good, Reserved, Hands, Asks, Stands, Promised, Own, Placed, Saved
  <2>3. TypeOK'
    BY <1>1, <1>2, <1>4, <2>1 DEF TypeOK, Labels
  <2>4. Frame(a)
    BY <1>1, <1>2, <1>4, <2>1 DEF Frame
  <2> QED BY <1>1, <2>2, <2>3, <2>4, Together DEF IInv
<1> QED BY <1>3, <1>4 DEF GiveBack

LEMMA UnlinkKeeps ==
  ASSUME IInv, NEW a \in Actors, Unlink(a)
  PROVE  IInv'
<1>1. TypeOK /\ Good(a) /\ pc[a] = "unlink"
      /\ UNCHANGED <<live, late, told, route, mints, requested, completed, expired, answer, crashed>>
  BY DEF IInv, Unlink
<1>2. PICK label \in {"done", "idle"} : Goto(a, label) /\ (label = "done" <=> a \in Setups)
  BY DEF Unlink
<1>3. pc'[a] = label /\ (\A b \in Actors \ {a} : pc'[b] = pc[b]) /\ pc' \in [Actors -> Labels]
  BY <1>1, <1>2, GotoOne, GotoTyped DEF Labels
<1>4. /\ cred' \in [Actors -> Credentials \cup {None}] /\ cred'[a] = None
      /\ \A b \in Actors \ {a} : cred'[b] = cred[b]
  BY <1>1, HoldOne DEF Unlink
<1>5. file' = (IF file.by = a /\ Own(a) THEN Absent ELSE file) /\ Absent.by = None
  BY DEF Unlink, Unlinked, Owns, Own, Absent
<1>6. /\ denied' \in [Forms -> BOOLEAN]
      /\ \A f \in Forms \ {a} : denied'[f] = denied[f]
      /\ a \in Forms /\ denied'[a] => requested[a]
  BY <1>1, Names DEF Unlink, TypeOK, Aborted, Good, Promised
<1>7. file'.by # a
  BY <1>1, <1>5, Names DEF Good, Reserved
<1>8. Good(a)'
  BY <1>1, <1>2, <1>3, <1>4, <1>6, <1>7, Names
     DEF Good, Reserved, Hands, Asks, Stands, Promised, Own, Placed, Saved
<1>9. TypeOK'
  BY <1>1, <1>3, <1>4, <1>5, <1>6 DEF TypeOK, Labels
<1>10. Frame(a)
  BY <1>1, <1>3, <1>4, <1>5, <1>6 DEF Frame
<1> QED BY <1>1, <1>8, <1>9, <1>10, Together DEF IInv

(* The form's own thread and the tool change no place and no credential. *)
LEMMA FormKeeps ==
  ASSUME IInv, NEW f \in Forms, UNCHANGED <<file, live, late, told, pc, route, cred, mints, completed, crashed>>,
         requested' \in [Forms -> BOOLEAN], expired' \in [Forms -> BOOLEAN], denied' \in [Forms -> BOOLEAN],
         answer' \in [Forms -> {"none", "sharing", "aborted", "kept"}],
         \A g \in Forms \ {f} : requested'[g] = requested[g] /\ denied'[g] = denied[g] /\ answer'[g] = answer[g],
         Promised(f)'
  PROVE  IInv'
<1>1. TypeOK /\ f \in Actors /\ Good(f)
  BY Names DEF IInv
<1>2. Good(f)'
  BY <1>1 DEF Good, Reserved, Hands, Asks, Stands, Own, Placed, Saved
<1>3. TypeOK'
  BY <1>1 DEF TypeOK
<1>4. Frame(f)
  BY DEF Frame
<1> QED BY <1>1, <1>2, <1>3, <1>4, Together DEF IInv

LEMMA CancelAttemptOne ==
  ASSUME IInv, NEW f \in Forms, CancelAttempt(f)
  PROVE  /\ requested' \in [Forms -> BOOLEAN] /\ (\A g \in Forms \ {f} : requested'[g] = requested[g])
         /\ (completed[f] => ~ requested'[f]) /\ (requested[f] => requested'[f])
         /\ (~ completed[f] => requested'[f])
<1>1. requested \in [Forms -> BOOLEAN] /\ completed \in [Forms -> BOOLEAN] /\ Good(f)
  BY Names DEF IInv, TypeOK
<1>2. requested' = [requested EXCEPT ![f] = requested[f] \/ ~ completed[f]]
  BY DEF CancelAttempt
<1>3. (requested[f] \/ ~ completed[f]) \in BOOLEAN /\ (completed[f] => ~ requested[f])
  BY <1>1 DEF Good, Promised
<1>4. /\ requested' \in [Forms -> BOOLEAN] /\ (\A g \in Forms \ {f} : requested'[g] = requested[g])
      /\ requested'[f] = (requested[f] \/ ~ completed[f])
  BY <1>1, <1>2
<1> QED BY <1>3, <1>4

LEMMA CancelKeeps ==
  ASSUME IInv, NEW f \in Forms, Cancel(f)
  PROVE  IInv'
<1>1. TypeOK /\ Good(f) /\ answer[f] = "none" /\ ~ completed[f] /\ CancelAttempt(f)
      /\ UNCHANGED <<file, live, late, told, pc, route, cred, mints, completed, expired, answer, crashed>>
  BY Names DEF IInv, Cancel
<1>2. /\ requested' \in [Forms -> BOOLEAN] /\ (\A g \in Forms \ {f} : requested'[g] = requested[g])
      /\ requested'[f]
  BY <1>1, CancelAttemptOne
<1>3. denied' = [denied EXCEPT ![f] = denied[f] \/ pc[f] = "idle"] /\ (denied[f] => pc[f] = "idle")
  BY <1>1 DEF Cancel, Good, Promised
<1>4. (denied[f] \/ pc[f] = "idle") \in BOOLEAN
  BY <1>1 DEF TypeOK
<1>5. /\ denied' \in [Forms -> BOOLEAN] /\ (\A g \in Forms \ {f} : denied'[g] = denied[g])
      /\ denied'[f] = (denied[f] \/ pc[f] = "idle")
  BY <1>1, <1>3, <1>4 DEF TypeOK
<1>6. Promised(f)'
  BY <1>1, <1>2, <1>3, <1>5 DEF Good, Promised
<1> QED BY <1>1, <1>2, <1>5, <1>6, FormKeeps DEF TypeOK

LEMMA ExpireKeeps ==
  ASSUME IInv, NEW f \in Forms, Expire(f)
  PROVE  IInv'
<1>1. TypeOK /\ Good(f) /\ CancelAttempt(f) /\ expired' = [expired EXCEPT ![f] = TRUE]
      /\ UNCHANGED <<file, live, late, told, pc, route, cred, mints, completed, denied, answer, crashed>>
  BY Names DEF IInv, Expire
<1>2. Promised(f)'
  BY <1>1, CancelAttemptOne DEF Good, Promised
<1>3. expired' \in [Forms -> BOOLEAN]
  BY <1>1 DEF TypeOK
<1> QED BY <1>1, <1>2, <1>3, CancelAttemptOne, FormKeeps DEF TypeOK

LEMMA InterruptKeeps ==
  ASSUME IInv, NEW f \in Forms, Interrupt(f)
  PROVE  IInv'
<1>1. TypeOK /\ Good(f) /\ CancelAttempt(f) /\ answer' = [answer EXCEPT ![f] = "aborted"]
      /\ UNCHANGED <<file, live, late, told, pc, route, cred, mints, completed, expired, denied, crashed>>
  BY Names DEF IInv, Interrupt
<1>2. /\ answer' \in [Forms -> {"none", "sharing", "aborted", "kept"}] /\ answer'[f] = "aborted"
      /\ \A g \in Forms \ {f} : answer'[g] = answer[g]
  BY <1>1 DEF TypeOK
<1>3. Promised(f)'
  BY <1>1, <1>2, CancelAttemptOne DEF Good, Promised
<1> QED BY <1>1, <1>2, <1>3, CancelAttemptOne, FormKeeps DEF TypeOK

LEMMA ReturnKeeps ==
  ASSUME IInv, NEW f \in Forms, Return(f)
  PROVE  IInv'
<1>1. TypeOK /\ Good(f)
      /\ UNCHANGED <<file, live, late, told, pc, route, cred, mints, requested, completed, expired, denied, crashed>>
  BY Names DEF IInv, Return
<1>2. PICK word \in {"sharing", "aborted", "kept"} :
        answer' = [answer EXCEPT ![f] = word] /\ (word = "sharing" => pc[f] = "done")
  BY DEF Return
<1>3. /\ answer' \in [Forms -> {"none", "sharing", "aborted", "kept"}] /\ answer'[f] = word
      /\ \A g \in Forms \ {f} : answer'[g] = answer[g]
  BY <1>1, <1>2 DEF TypeOK
<1>4. Promised(f)'
  BY <1>1, <1>2, <1>3 DEF Good, Promised
<1> QED BY <1>1, <1>3, <1>4, FormKeeps DEF TypeOK

(* More is honoured. *)
LEMMA ServeKeeps ==
  ASSUME IInv, ServeLate
  PROVE  IInv'
<1>1. TypeOK /\ UNCHANGED <<file, told, pc, route, cred, mints, requested, completed, expired, denied, answer, crashed>>
  BY DEF IInv, ServeLate
<1>2. live \subseteq live' /\ live' \subseteq Credentials /\ late' \subseteq Minted
  BY <1>1, Names DEF ServeLate, TypeOK
<1>3. TypeOK'
  BY <1>1, <1>2 DEF TypeOK
<1>4. \A a \in Actors : Good(a)'
  BY <1>1, <1>2 DEF IInv, Good, Reserved, Hands, Asks, Stands, Promised, Own, Placed, Saved
<1> QED BY <1>1, <1>2, <1>3, <1>4 DEF IInv

LEMMA CrashKeeps ==
  ASSUME IInv, NEW a \in Actors, Crash(a)
  PROVE  IInv'
<1>1. /\ TypeOK /\ Good(a) /\ pc[a] \notin {"idle", "done", "dead"} /\ Goto(a, "dead")
      /\ Cardinality(crashed) < MaxCrashes /\ crashed' = crashed \cup {a} /\ IsFiniteSet(crashed)
      /\ answer' = [f \in Forms |-> IF f = a THEN "aborted" ELSE answer[f]]
      /\ UNCHANGED <<file, live, late, told, route, cred, mints, requested, completed, expired, denied>>
  BY DEF IInv, Crash
<1>2. IsFiniteSet(crashed') /\ Cardinality(crashed') <= MaxCrashes
  <2>1. /\ Cardinality(crashed) \in Nat /\ IsFiniteSet(crashed \cup {a})
        /\ Cardinality(crashed \cup {a}) = IF a \in crashed THEN Cardinality(crashed) ELSE Cardinality(crashed) + 1
    BY <1>1, FS_CardinalityType, FS_AddElement
  <2> QED BY <1>1, <2>1, Names
<1>3. pc'[a] = "dead" /\ (\A b \in Actors \ {a} : pc'[b] = pc[b]) /\ pc' \in [Actors -> Labels]
  BY <1>1, GotoOne, GotoTyped DEF Labels
<1>4. /\ answer' \in [Forms -> {"none", "sharing", "aborted", "kept"}]
      /\ a \in Forms => answer'[a] = "aborted"
      /\ \A f \in Forms \ {a} : answer'[f] = answer[f]
  BY <1>1 DEF TypeOK
<1>5. Good(a)'
  BY <1>1, <1>3, <1>4, Names
     DEF Good, Reserved, Hands, Asks, Stands, Promised, Own, Placed, Saved
<1>6. TypeOK'
  <2>1. crashed' \subseteq Actors
    BY <1>1 DEF TypeOK
  <2> QED BY <1>1, <1>2, <1>3, <1>4, <2>1 DEF TypeOK, Labels
<1>7. Frame(a)
  BY <1>1, <1>3, <1>4 DEF Frame
<1> QED BY <1>2, <1>5, <1>6, <1>7, Together

-----------------------------------------------------------------------------
LEMMA InitKeeps == Init => IInv
<1> SUFFICES ASSUME Init PROVE IInv
  OBVIOUS
<1>1. IsFiniteSet(crashed) /\ Cardinality(crashed) = 0
  BY FS_EmptySet DEF Init
<1>2. TypeOK
  BY <1>1, Names DEF Init, TypeOK
<1>3. ASSUME NEW a \in Actors PROVE Good(a)
  <2>1. a \in Setups => 0 < MaxMints
    BY Names, EnrollmentAssumption
  <2>2. pc[a] = (IF a \in Setups THEN "begin" ELSE "idle") /\ Own(a) /\ cred[a] = None
        /\ mints[a] = 0 /\ file.by = None
    BY DEF Init, Own, Absent
  <2>3. a \in Forms => ~ completed[a] /\ ~ denied[a] /\ answer[a] = "none" /\ a \notin Setups
    BY Names DEF Init
  <2> QED BY <2>1, <2>2, <2>3, Names DEF Good, Reserved, Hands, Asks, Stands, Promised
<1> QED BY <1>1, <1>2, <1>3 DEF Init, IInv

LEMMA NextKeeps == IInv /\ [Next]_vars => IInv'
<1> SUFFICES ASSUME IInv, [Next]_vars PROVE IInv'
  OBVIOUS
<1>1. CASE UNCHANGED vars
  BY <1>1 DEF vars, IInv, TypeOK, Good, Reserved, Hands, Asks, Stands, Promised, Own, Placed, Saved
<1>2. ASSUME NEW a \in Actors, Step(a) PROVE IInv'
  BY <1>2, BeginKeeps, CheckKeeps, ReserveKeeps, LoginKeeps, MintKeeps, WriteKeeps, SealKeeps,
     UndoKeeps, GiveBackKeeps, UnlinkKeeps DEF Step
<1>3. ASSUME NEW f \in Forms,
             Submit(f) \/ Deliver(f) \/ Cancel(f) \/ Expire(f) \/ Interrupt(f) \/ Return(f)
      PROVE  IInv'
  BY <1>3, SubmitKeeps, DeliverKeeps, CancelKeeps, ExpireKeeps, InterruptKeeps, ReturnKeeps
<1> QED BY <1>1, <1>2, <1>3, CrashKeeps, ServeKeeps DEF Next

LEMMA Inductive == Spec => []IInv
BY InitKeeps, NextKeeps, PTL DEF Spec

(* Every state of the forms, the scripts and the file has its type. *)
THEOREM TypeCorrect == Spec => []TypeOK
<1>1. IInv => TypeOK
  BY DEF IInv
<1> QED BY <1>1, Inductive, PTL

(* No dead or empty connection is left to block the next enrollment, also when
   the setup script asks twice: enroll_and_save, connect. *)
THEOREM FileUsableAlways == Spec => []FileUsable
<1>1. IInv => FileUsable
  <2> SUFFICES ASSUME IInv, file # Absent,  ~ Busy(file.by), file.by \notin crashed
               PROVE  file.cred \in live \/ (file.by \in Setups /\ cred[file.by] \in told)
    BY DEF FileUsable
  <2>1. file.by \in Actors /\ Good(file.by)
    BY DEF IInv, TypeOK
  <2>2. pc[file.by] = "done" /\ Own(file.by)
    BY <2>1 DEF Busy, Good, Reserved, Hands, Placed
  <2> QED BY <2>1, <2>2 DEF Good, Stands, Saved
<1> QED BY <1>1, Inductive, PTL

(* What a cancelled form told the person holds: no connection of its own is
   left, and it does not share (private_browser_connect). *)
THEOREM CancelIsHonestAlways == Spec => []CancelIsHonest
<1>1. IInv => CancelIsHonest
  BY Names DEF IInv, Good, Promised, Reserved, Placed, CancelIsHonest
<1> QED BY <1>1, Inductive, PTL

(* A complete connection is neither replaced nor removed, by whatever form or
   script (enroll_and_save). *)
THEOREM SavedStaysAlways == Spec => SavedStays
<1>1. IInv /\ [Next]_vars => (file # Absent /\ Complete(file.by) => file' = file)
  <2> SUFFICES ASSUME IInv, [Next]_vars, file # Absent, Complete(file.by) PROVE file' = file
    OBVIOUS
  <2>1. file.by \in Actors /\ Good(file.by) /\ file.by # None
    BY Names DEF IInv, TypeOK
  <2>2. pc[file.by] \in {"sealed", "done", "dead"}
    BY <2>1, Names DEF Complete, Good, Promised
  <2>3. ASSUME NEW a \in Actors, Reserve(a) PROVE file' = file
    BY <2>3 DEF Reserve
  <2>4. ASSUME NEW a \in Actors, Write(a) PROVE file' = file
    BY <2>2, <2>4 DEF Write, IInv, Good, Stands
  <2>5. ASSUME NEW a \in Actors, Unlink(a) PROVE file' = file
    BY <2>2, <2>5 DEF Unlink, Unlinked, Owns
  <2> QED BY <2>3, <2>4, <2>5
          DEF Next, Step, vars, ServeLate, Crash, Submit, Deliver, Cancel, Expire, Interrupt, Return,
              Begin, Check, Login, Mint, Seal, Undo, GiveBack
<1> QED BY <1>1, Inductive, PTL DEF Spec, SavedStays

-----------------------------------------------------------------------------
(* What an actor holds is accounted for while it is busy.  When it is no
   longer, the credential is saved, was given back, or the person knows of it;
   and so is every request that may still be served, as long as only forms
   give up on one. *)
Known(a) ==
  pc[a] = "unlink" /\ Own(a) /\ cred[a] \in Minted /\ cred[a] \in live => cred[a] \in told
AInv == late \subseteq told /\ Accounted /\ \A a \in Actors : Known(a)

(* A step of a leaves the others where they are, and accounts for what it
   brings about, for what the file held and for what a held. *)
Apart(a) ==
  /\ \A b \in Actors \ {a} : pc'[b] = pc[b] /\ route'[b] = route[b] /\ cred'[b] = cred[b]
  /\ crashed \subseteq crashed' /\ told \subseteq told'

Accounts(a) ==
  /\ late' \subseteq told'
  /\ \A c \in live' : c \in live \/ c \in told' \/ (c[1] = a /\ cred'[a] = c /\ Busy(a)')
  /\ \A c \in Minted : file.cred = c /\ c \in live' => file'.cred = c \/ c \in told'
  /\ \A c \in Minted : c[1] = a /\ cred[a] = c /\ Busy(a) /\ c \in live' =>
       file'.cred = c \/ c \in told' \/ (cred'[a] = c /\ Busy(a)') \/ a \in crashed'
  /\ Known(a)'

LEMMA StillAccounted ==
  ASSUME IInv, AInv, NEW a \in Actors, Apart(a), Accounts(a)
  PROVE  AInv'
<1>1. ASSUME NEW b \in Actors, b # a PROVE Known(b)'
  <2>1. cred[b] \in Minted /\ Own(b) => cred[b][1] = b
    BY DEF IInv, Good, Hands
  <2>2. cred'[b] = cred[b] /\ pc'[b] = pc[b] /\ route'[b] = route[b]
    BY <1>1 DEF Apart
  <2> QED BY <1>1, <2>1, <2>2 DEF Known, Own, Apart, Accounts, AInv
<1>2. ASSUME NEW c \in live' \cap Minted
      PROVE  \/ file'.cred = c \/ c \in told' \/ (cred'[c[1]] = c /\ Busy(c[1])')
             \/ c[1] \in crashed'
  <2>1. c[1] \in Actors /\ c \in Minted
    BY <1>2, Names
  <2>2. CASE c \notin live
    BY <1>2, <2>1, <2>2 DEF Accounts
  <2>3. CASE c \in live
    <3>1. \/ file.cred = c \/ c \in told \/ (cred[c[1]] = c /\ Busy(c[1])) \/ c[1] \in crashed
      BY <1>2, <2>3 DEF AInv, Accounted
    <3>2. CASE file.cred = c
      BY <1>2, <2>1, <3>2 DEF Accounts
    <3>3. CASE c \in told \/ c[1] \in crashed
      BY <3>3 DEF Apart
    <3>4. CASE cred[c[1]] = c /\ Busy(c[1]) /\ c[1] = a
      BY <1>2, <2>1, <3>4 DEF Accounts
    <3>5. CASE cred[c[1]] = c /\ Busy(c[1]) /\ c[1] # a
      BY <2>1, <3>5 DEF Apart, Busy
    <3> QED BY <3>1, <3>2, <3>3, <3>4, <3>5
  <2> QED BY <2>2, <2>3
<1>3. Accounted'
  BY <1>2 DEF Accounted
<1> QED BY <1>1, <1>3 DEF AInv, Accounts

(* Steps inside an actor: nothing is minted, given back, written or removed. *)
LEMMA InsideAccounts ==
  ASSUME IInv, AInv, NEW a \in Actors, UNCHANGED <<file, live, late, told, crashed>>, Apart(a),
         cred[a] \in Minted /\ cred[a][1] = a /\ Busy(a) =>
           (cred'[a] = cred[a] /\ Busy(a)') \/ file.cred = cred[a],
         Known(a)'
  PROVE  AInv'
<1>1. Accounts(a)
  BY DEF AInv, Accounts
<1> QED BY <1>1, StillAccounted

LEMMA SubmitAccounts ==
  ASSUME IInv, AInv, NEW f \in Forms, Submit(f)
  PROVE  AInv'
<1>1. TypeOK /\ f \in Actors /\ pc[f] = "idle" /\ Goto(f, "begin") /\ UNCHANGED <<file, live, late, told, cred, crashed>>
  BY Names DEF IInv, Submit
<1>2. pc'[f] = "begin" /\ \A b \in Actors \ {f} : pc'[b] = pc[b]
  BY <1>1, GotoOne
<1>3. \A b \in Actors \ {f} : route'[b] = route[b]
  BY <1>1 DEF Submit, TypeOK
<1> QED BY <1>1, <1>2, <1>3, InsideAccounts DEF Apart, Known, Busy

LEMMA BeginAccounts ==
  ASSUME IInv, AInv, NEW a \in Actors, Begin(a)
  PROVE  AInv'
<1>1. TypeOK /\ pc[a] = "begin" /\ cred[a] = None /\ UNCHANGED <<file, live, late, told, crashed>>
  BY DEF IInv, Begin, Good, Hands
<1>2. PICK label \in Labels : Goto(a, label)
  BY DEF Begin, SavedExists, ReuseSaved, UsePasted, NoSso, Labels
<1>3. \A b \in Actors \ {a} : cred'[b] = cred[b] /\ route'[b] = route[b]
  BY <1>1 DEF TypeOK, Begin, SavedExists, ReuseSaved, UsePasted, NoSso, Hold
<1>4. pc'[a] = label /\ \A b \in Actors \ {a} : pc'[b] = pc[b]
  BY <1>1, <1>2, GotoOne
<1>5. pc'[a] = "unlink" => cred'[a] = None
  <2>1. CASE Hold(a, None) \/ UNCHANGED cred
    BY <1>1, <2>1, HoldOne
  <2>2. CASE Goto(a, "check") \/ Goto(a, "idle") \/ Goto(a, "done")
    BY <1>1, <2>2, GotoOne
  <2> QED BY <2>1, <2>2 DEF Begin, SavedExists, ReuseSaved, UsePasted, NoSso
<1> QED BY <1>1, <1>3, <1>4, <1>5, Names, InsideAccounts DEF Apart, Known

LEMMA CheckAccounts ==
  ASSUME IInv, AInv, NEW a \in Actors, Check(a)
  PROVE  AInv'
<1>1. TypeOK /\ pc[a] = "check" /\ (cred[a] \in Minted => cred[a][1] # a)
      /\ UNCHANGED <<file, live, late, told, route, crashed>>
  BY Names DEF IInv, Check, Good, Hands
<1>2. PICK label \in {"seal", "reserve", "unlink"} :
        Goto(a, label) /\ (cred' = cred \/ Hold(a, None)) /\ (label = "unlink" => Hold(a, None))
  BY DEF Check
<1>3. pc'[a] = label /\ \A b \in Actors \ {a} : pc'[b] = pc[b]
  BY <1>1, <1>2, GotoOne
<1>4. (\A b \in Actors \ {a} : cred'[b] = cred[b]) /\ (label = "unlink" => cred'[a] = None)
  BY <1>1, <1>2, HoldOne
<1> QED BY <1>1, <1>3, <1>4, Names, InsideAccounts DEF Apart, Known

LEMMA ReserveAccounts ==
  ASSUME IInv, AInv, NEW a \in Actors, Reserve(a)
  PROVE  AInv'
<1>1. TypeOK /\ Good(a) /\ pc[a] = "reserve" /\ UNCHANGED <<live, late, told, route, cred, crashed>>
  BY DEF IInv, Reserve
<1>2. PICK label \in {"undo", "login", "write", "conflict", "unlink"} :
        Goto(a, label) /\ (label = "unlink" => route[a] # "sso")
  BY DEF Reserve
<1>3. pc'[a] = label /\ \A b \in Actors \ {a} : pc'[b] = pc[b]
  BY <1>1, <1>2, GotoOne
<1>4. Known(a)' /\ Busy(a)'
  BY <1>1, <1>2, <1>3, Names DEF Known, Busy, Good, Stands
<1>5. \A c \in Minted : file.cred = c => file'.cred = c
  BY Names DEF Reserve, Absent
<1>6. Apart(a) /\ Accounts(a)
  BY <1>1, <1>3, <1>4, <1>5 DEF Apart, Accounts, AInv
<1> QED BY <1>6, StillAccounted

LEMMA LoginAccounts ==
  ASSUME IInv, AInv, NEW a \in Actors, Login(a)
  PROVE  AInv'
<1>1. TypeOK /\ cred[a] = None /\ UNCHANGED <<file, live, late, told, route, cred, crashed>>
  BY DEF IInv, Login, Good, Hands
<1>2. PICK label \in {"mint", "undo"} : Goto(a, label)
  BY DEF Login
<1>3. pc'[a] = label /\ \A b \in Actors \ {a} : pc'[b] = pc[b]
  BY <1>1, <1>2, GotoOne
<1> QED BY <1>1, <1>3, Names, InsideAccounts DEF Apart, Known

LEMMA MintAccounts ==
  ASSUME SetupMayTimeOut = FALSE, IInv, AInv, NEW a \in Actors, Mint(a)
  PROVE  AInv'
<1> DEFINE c == <<a, mints[a] + 1>>
<1>1. TypeOK /\ cred[a] = None /\ UNCHANGED <<file, route, crashed>>
  BY DEF IInv, Mint, Good, Hands
<1>2. c \in Minted /\ c[1] = a /\ c \in Credentials
  <2>1. mints[a] \in Nat /\ mints[a] < MaxMints
    BY Names DEF IInv, TypeOK, Mint, Good, Asks
  <2> QED BY <2>1, NextMint, Names
<1> HIDE DEF c
<1>3. CASE Granted(a, c)
  <2>1. PICK label \in {"reserve", "write"} : Goto(a, label)
    BY <1>3 DEF Granted
  <2>2. pc'[a] = label /\ \A b \in Actors \ {a} : pc'[b] = pc[b]
    BY <1>1, <2>1, GotoOne
  <2>3. cred'[a] = c /\ \A b \in Actors \ {a} : cred'[b] = cred[b]
    BY <1>1, <1>2, <1>3, HoldOne DEF Granted
  <2>4. live' = live \cup {c} /\ late' = late /\ told' = told
    BY <1>3 DEF Granted
  <2>5. Apart(a) /\ Accounts(a)
    BY <1>1, <1>2, <2>2, <2>3, <2>4, Names DEF Apart, Accounts, Known, Busy, AInv
  <2> QED BY <2>5, StillAccounted
<1>4. ASSUME Goto(a, "undo"), UNCHANGED cred, told \subseteq told', late' \subseteq late \cup told',
             \A d \in live' : d \in live \/ d \in told'
      PROVE  AInv'
  <2>1. pc'[a] = "undo" /\ \A b \in Actors \ {a} : pc'[b] = pc[b]
    BY <1>1, <1>4, GotoOne
  <2>2. Apart(a) /\ Accounts(a)
    BY <1>1, <1>4, <2>1, Names DEF Apart, Accounts, Known, Busy, AInv
  <2> QED BY <2>2, StillAccounted
<1>5. CASE Goto(a, "undo") /\ UNCHANGED <<live, late, told, cred>>
  BY <1>4, <1>5
<1>6. CASE (a \in Setups => SetupMayTimeOut) /\ Unanswered(a, c) /\ Goto(a, IF AskAgain(a) THEN "mint" ELSE "undo")
  <2>1. a \in Forms /\ Goto(a, "undo")
    BY <1>6, Names DEF AskAgain
  <2>2. told' = told \cup {c} /\ UNCHANGED cred
    BY <1>6, <2>1 DEF Unanswered
  <2>3. late' \subseteq late \cup {c} /\ live' \subseteq live \cup {c}
    BY <1>6 DEF Unanswered
  <2> QED BY <1>4, <2>1, <2>2, <2>3
<1> QED BY <1>3, <1>5, <1>6 DEF Mint, c

LEMMA WriteAccounts ==
  ASSUME IInv, AInv, NEW a \in Actors, Write(a)
  PROVE  AInv'
<1>1. /\ TypeOK /\ pc[a] = "write" /\ file.by = a /\ file.cred \in {None, cred[a]}
      /\ UNCHANGED <<live, late, told, route, cred, crashed>>
  BY DEF IInv, Write, Good, Stands, Reserved
<1>2. PICK label \in {"seal", "undo"} : Goto(a, label)
  BY DEF Write
<1>3. pc'[a] = label /\ \A b \in Actors \ {a} : pc'[b] = pc[b]
  BY <1>1, <1>2, GotoOne
<1>4. \A c \in Minted : file.cred = c => file'.cred = c
  <2>1. file' = file \/ (file' = [file EXCEPT !.cred = cred[a]])
    BY DEF Write
  <2>2. file \in [by : Actors, cred : Credentials \cup {None}]
    BY <1>1, Names DEF TypeOK, Absent
  <2> QED BY <1>1, <2>1, <2>2, Names
<1>5. Apart(a) /\ Accounts(a)
  BY <1>1, <1>3, <1>4 DEF Apart, Accounts, AInv, Known, Busy
<1> QED BY <1>5, StillAccounted

LEMMA SealAccounts ==
  ASSUME IInv, AInv, NEW a \in Actors, Seal(a)
  PROVE  AInv'
<1>1. TypeOK /\ Good(a) /\ pc[a] = "seal" /\ UNCHANGED <<file, live, late, told, route, cred, crashed>>
  BY DEF IInv, Seal
<1>2. PICK label \in {"sealed", "done", "undo", "unlink"} : Goto(a, label) /\ (label = "unlink" => ~ Own(a))
  BY DEF Seal, Own
<1>3. pc'[a] = label /\ \A b \in Actors \ {a} : pc'[b] = pc[b]
  BY <1>1, <1>2, GotoOne
<1>4. Known(a)'
  BY <1>1, <1>2, <1>3 DEF Known, Own
<1>5. cred[a] \in Minted /\ cred[a][1] = a => file.cred = cred[a]
  BY <1>1 DEF Good, Hands, Stands, Saved
<1> QED BY <1>1, <1>3, <1>4, <1>5, InsideAccounts DEF Apart

LEMMA DeliverAccounts ==
  ASSUME IInv, AInv, NEW f \in Forms, Deliver(f)
  PROVE  AInv'
<1>1. TypeOK /\ f \in Actors /\ Good(f) /\ pc[f] = "sealed" /\ Goto(f, "done")
      /\ UNCHANGED <<file, live, late, told, route, cred, crashed>>
  BY Names DEF IInv, Deliver
<1>2. pc'[f] = "done" /\ \A b \in Actors \ {f} : pc'[b] = pc[b]
  BY <1>1, GotoOne
<1>3. cred[f] \in Minted /\ cred[f][1] = f => file.cred = cred[f]
  BY <1>1 DEF Good, Hands, Stands, Saved
<1> QED BY <1>1, <1>2, <1>3, InsideAccounts DEF Apart, Known

(* Given back, or the person is told. *)
LEMMA RevokedOrTold ==
  ASSUME IInv, NEW a \in Actors, Revoke(a)
  PROVE  /\ live' \subseteq live /\ late' = late /\ told \subseteq told'
         /\ cred[a] \in live' => cred[a] \in told'
         /\ told' # told => cred[a] \in told'
BY DEF Revoke

LEMMA UndoAccounts ==
  ASSUME IInv, AInv, NEW a \in Actors, Undo(a)
  PROVE  AInv'
<1>1. TypeOK /\ pc[a] = "undo" /\ UNCHANGED <<file, route, cred, crashed>>
  BY DEF IInv, Undo
<1>2. /\ live' \subseteq live /\ late' = late /\ told \subseteq told'
      /\ cred[a] \in Minted /\ cred[a] \in live' => cred[a] \in told'
  BY RevokedOrTold DEF Undo
<1>3. PICK label \in {"done", "unlink"} : Goto(a, label)
  BY DEF Undo
<1>4. pc'[a] = label /\ \A b \in Actors \ {a} : pc'[b] = pc[b]
  BY <1>1, <1>3, GotoOne
<1>5. Apart(a) /\ Accounts(a)
  BY <1>1, <1>2, <1>4 DEF Apart, Accounts, AInv, Known, Busy
<1> QED BY <1>5, StillAccounted

LEMMA GiveBackAccounts ==
  ASSUME IInv, AInv, NEW a \in Actors, GiveBack(a)
  PROVE  AInv'
<1>1. TypeOK /\ pc[a] = "conflict" /\ UNCHANGED <<file, crashed>>
  BY DEF IInv, GiveBack
<1>2. /\ live' \subseteq live /\ late' = late /\ told \subseteq told'
      /\ cred[a] \in live' => cred[a] \in told'
  BY RevokedOrTold DEF GiveBack
<1>3. PICK label \in {"check", "unlink"} : Goto(a, label) /\ (label = "unlink" => cred' = cred)
  BY DEF GiveBack
<1>4. pc'[a] = label /\ \A b \in Actors \ {a} : pc'[b] = pc[b]
  BY <1>1, <1>3, GotoOne
<1>5. \A b \in Actors \ {a} : cred'[b] = cred[b] /\ route'[b] = route[b]
  BY <1>1 DEF GiveBack, Hold, TypeOK
<1>6. Apart(a) /\ Accounts(a)
  BY <1>1, <1>2, <1>3, <1>4, <1>5 DEF Apart, Accounts, AInv, Known, Busy
<1> QED BY <1>6, StillAccounted

LEMMA UnlinkAccounts ==
  ASSUME IInv, AInv, NEW a \in Actors, Unlink(a)
  PROVE  AInv'
<1>1. TypeOK /\ Good(a) /\ Known(a) /\ pc[a] = "unlink" /\ UNCHANGED <<live, late, told, route, crashed>>
  BY DEF IInv, AInv, Unlink
<1>2. PICK label \in {"done", "idle"} : Goto(a, label)
  BY DEF Unlink
<1>3. pc'[a] = label /\ \A b \in Actors \ {a} : pc'[b] = pc[b]
  BY <1>1, <1>2, GotoOne
<1>4. \A b \in Actors \ {a} : cred'[b] = cred[b]
  BY <1>1, HoldOne DEF Unlink
<1>5. cred[a] \in Minted /\ cred[a][1] = a /\ cred[a] \in live => cred[a] \in told
  BY <1>1 DEF Good, Hands, Known
<1>6. \A c \in Minted : file.cred = c /\ c \in live => file'.cred = c \/ c \in told
  <2>1. file' = file \/ (file.by = a /\ Own(a))
    BY DEF Unlink, Unlinked, Owns, Own
  <2>2. file.by = a => file.cred = None \/ (file.cred = cred[a] /\ (cred[a] \in Minted => cred[a][1] = a))
    BY <1>1 DEF Good, Reserved, Hands
  <2> QED BY <1>5, <2>1, <2>2, Names
<1>7. Apart(a) /\ Accounts(a)
  BY <1>1, <1>3, <1>4, <1>5, <1>6 DEF Apart, Accounts, AInv, Known, Busy
<1> QED BY <1>7, StillAccounted

LEMMA CrashAccounts ==
  ASSUME IInv, AInv, NEW a \in Actors, Crash(a)
  PROVE  AInv'
<1>1. TypeOK /\ Goto(a, "dead") /\ crashed' = crashed \cup {a} /\ UNCHANGED <<file, live, late, told, route, cred>>
  BY DEF IInv, Crash
<1>2. pc'[a] = "dead" /\ \A b \in Actors \ {a} : pc'[b] = pc[b]
  BY <1>1, GotoOne
<1>3. Apart(a) /\ Accounts(a)
  BY <1>1, <1>2 DEF Apart, Accounts, AInv, Known, Busy
<1> QED BY <1>3, StillAccounted

(* Nobody moves. *)
LEMMA OutsideAccounts ==
  ASSUME AInv, UNCHANGED <<file, told, pc, route, cred, crashed>>, late' \subseteq late,
         \A c \in live' : c \in live \/ c \in told
  PROVE  AInv'
BY DEF AInv, Accounted, Known, Own, Busy

LEMMA NextAccounts ==
  ASSUME SetupMayTimeOut = FALSE
  PROVE  IInv /\ AInv /\ [Next]_vars => AInv'
<1> SUFFICES ASSUME IInv, AInv, [Next]_vars PROVE AInv'
  OBVIOUS
<1>1. CASE UNCHANGED vars
  BY <1>1, OutsideAccounts DEF vars
<1>2. ASSUME NEW a \in Actors, Step(a) PROVE AInv'
  BY <1>2, BeginAccounts, CheckAccounts, ReserveAccounts, MintAccounts, WriteAccounts, SealAccounts,
     UndoAccounts, GiveBackAccounts, UnlinkAccounts, LoginAccounts DEF Step
<1>3. ASSUME NEW f \in Forms, Submit(f) \/ Deliver(f) PROVE AInv'
  BY <1>3, SubmitAccounts, DeliverAccounts
<1>4. ASSUME NEW f \in Forms, Cancel(f) \/ Expire(f) \/ Interrupt(f) \/ Return(f) PROVE AInv'
  <2>1. UNCHANGED <<file, live, late, told, pc, route, cred, crashed>>
    BY <1>4 DEF Cancel, Expire, Interrupt, Return
  <2> QED BY <2>1, OutsideAccounts
<1>5. CASE ServeLate
  <2>1. UNCHANGED <<file, told, pc, route, cred, crashed>> /\ late' \subseteq late
        /\ \A c \in live' : c \in live \/ c \in told
    BY <1>5 DEF ServeLate, AInv
  <2> QED BY <2>1, OutsideAccounts
<1> QED BY <1>1, <1>2, <1>3, <1>4, <1>5, CrashAccounts DEF Next

(* Every credential that the service honours for this machine is in the hands
   of a handler, in the saved file or known to the person, unless the process
   that asked for it died; the setup script must not ask twice
   (MCEnrollmentSetup): enroll_and_save, _mint_member, _mint_sso. *)
THEOREM AccountedAlways ==
  ASSUME SetupMayTimeOut = FALSE
  PROVE  Spec => []Accounted
<1>1. Init => AInv
  BY Names DEF Init, AInv, Accounted, Known
<1>2. IInv /\ AInv /\ [Next]_vars => AInv'
  BY NextAccounts
<1>3. AInv => Accounted
  BY DEF AInv
<1> QED BY <1>1, <1>2, <1>3, Inductive, PTL DEF Spec

-----------------------------------------------------------------------------
(* Attach *)

Filing == [Directories -> [Private -> File]]
Whole(r) == [by |-> r, secret |-> secret[r]]

(* Before its first file, and after a refusal, a run has none. *)
Clean == {"begin", "verify", "pin", "compare", "check", "ignore", "create", "refused", "verified"}
Located(r) ==
  /\ \A d \in Directories, n \in Private : files[d][n].by = r =>
       d = pinned[r] /\ d \in ignored /\ stage[r] \notin Clean
  /\ stage[r] \notin {"begin", "verify", "pin", "compare", "check", "ignore", "refused", "verified", "dead"} =>
       pinned[r] \in ignored

(* What it has written of its two files. *)
Written(r) ==
  /\ stage[r] = "write" => files[pinned[r]]["connection"].by = r
  /\ stage[r] \in {"enable", "settle", "final", "disable", "attached"} =>
       files[pinned[r]]["connection"] = Whole(r)
  /\ stage[r] = "settle" => files[pinned[r]]["settings"].by = r
  /\ stage[r] \in {"final", "attached"} => files[pinned[r]]["settings"] = Whole(r)

(* The settings come last and go first. *)
Ordered(r) ==
  \A d \in Directories : files[d]["settings"].by = r =>
    files[d]["connection"] = Whole(r) /\ stage[r] \notin {"write", "enable", "remove"}

Sound(r) == Located(r) /\ Written(r) /\ Ordered(r)
AttachInv == AttachTypeOK /\ \A r \in Runs : Sound(r)

-----------------------------------------------------------------------------
(* Put changes one file of one directory. *)
LEMMA PutOne ==
  ASSUME AttachTypeOK, NEW r \in Runs, NEW n \in Private, NEW f \in File, Put(r, n, f)
  PROVE  /\ files' \in Filing
         /\ files'[pinned[r]][n] = f
         /\ \A d \in Directories, m \in Private :
              (d # pinned[r] \/ m # n) => files'[d][m] = files[d][m]
BY DEF AttachTypeOK, Put, Filing

(* Proceed changes one program counter. *)
LEMMA ProceedOne ==
  ASSUME AttachTypeOK, NEW r \in Runs, NEW label, Proceed(r, label)
  PROVE  stage'[r] = label /\ \A q \in Runs \ {r} : stage'[q] = stage[q]
BY DEF AttachTypeOK, Proceed

(* Files that run r creates or fills are files. *)
LEMMA FilesOfRuns ==
  ASSUME AttachTypeOK, NEW r \in Runs
  PROVE  /\ [by |-> r, secret |-> Nobody] \in File
         /\ [by |-> r, secret |-> secret[r]] \in File
         /\ NoFile \in File
BY DEF AttachTypeOK, File, NoFile

(* Type correctness: of each step. *)
LEMMA AttachTypeNext == ASSUME AttachTypeOK, [AttachNext]_attachVars PROVE AttachTypeOK'
<1>1. CASE UNCHANGED attachVars
  BY <1>1 DEF AttachTypeOK, attachVars
<1>2. ASSUME NEW r \in Runs, Inspect(r) \/ Verify(r) \/ Pin(r) \/ Compare(r) \/ CheckPlace(r) PROVE AttachTypeOK'
  <2>1. CASE Inspect(r)
    BY <2>1 DEF AttachTypeOK, Inspect, Proceed, given
  <2>2. CASE Verify(r)
    BY <2>2 DEF AttachTypeOK, Verify, Proceed, given
  <2>3. CASE Pin(r)
    BY <2>3 DEF AttachTypeOK, Pin, Proceed, given
  <2>4. CASE Compare(r)
    BY <2>4 DEF AttachTypeOK, Compare, Proceed, given
  <2>5. CASE CheckPlace(r)
    BY <2>5 DEF AttachTypeOK, CheckPlace, Proceed, given
  <2> QED BY <1>2, <2>1, <2>2, <2>3, <2>4, <2>5
<1>3. ASSUME NEW r \in Runs, Ignore(r) \/ Final(r) \/ Fail(r) \/ Die(r) PROVE AttachTypeOK'
  <2>1. CASE Ignore(r)
    BY <2>1 DEF AttachTypeOK, Ignore, Proceed, given
  <2>2. CASE Final(r)
    BY <2>2 DEF AttachTypeOK, Final, Proceed, given
  <2>3. CASE Fail(r)
    BY <2>3 DEF AttachTypeOK, Fail, Proceed, given
  <2>4. CASE Die(r)
    BY <2>4 DEF AttachTypeOK, Die, Proceed
  <2> QED BY <1>3, <2>1, <2>2, <2>3, <2>4
<1>4. ASSUME NEW r \in Runs, Create(r) \/ WriteContent(r) \/ Enable(r) \/ Settle(r) \/ Rollback(r) PROVE AttachTypeOK'
  <2>1. PICK n \in Private, f \in File : Put(r, n, f) \/ files' = files
    BY <1>4, FilesOfRuns DEF Create, Enable, WriteContent, Settle, Rollback, WriteNew, Fill, RemoveOwn, Private
  <2>2. files' \in Filing
    BY <2>1, PutOne DEF AttachTypeOK, Filing
  <2>3. stage' \in [Runs -> {"begin", "verify", "pin", "compare", "check", "ignore", "create", "write",
                      "enable", "settle", "final", "disable", "remove",
                      "attached", "verified", "refused", "dead"}]
    BY <1>4 DEF AttachTypeOK, Create, Enable, WriteContent, Settle, Rollback, WriteNew, Fill, RemoveOwn, Proceed
  <2>4. UNCHANGED <<here, ignored, existing, pinned, given>>
    BY <1>4 DEF Create, Enable, WriteContent, Settle, Rollback, WriteNew, Fill, RemoveOwn
  <2> QED BY <2>2, <2>3, <2>4 DEF AttachTypeOK, Filing, given
<1>5. ASSUME NEW d \in Directories, Exchange(d) PROVE AttachTypeOK'
  BY <1>5 DEF AttachTypeOK, Exchange
<1>6. ASSUME NEW n \in Private, PersonWrites(n) PROVE AttachTypeOK'
  BY <1>6 DEF AttachTypeOK, PersonWrites, File, given
<1> QED BY <1>1, <1>2, <1>3, <1>4, <1>5, <1>6 DEF AttachNext, Run

-----------------------------------------------------------------------------
(* What stays good when the files of run r and its own state stay. *)
LEMMA Kept ==
  ASSUME AttachTypeOK, NEW r \in Runs, Sound(r),
         stage'[r] = stage[r], pinned'[r] = pinned[r], secret' = secret, ignored \subseteq ignored',
         \A d \in Directories, n \in Private :
           files[d][n].by = r \/ files'[d][n].by = r => files'[d][n] = files[d][n]
  PROVE  Sound(r)'
<1>1. "connection" \in Private /\ "settings" \in Private /\ pinned[r] \in Directories
  BY DEF Private, AttachTypeOK
<1>2. Whole(r)' = Whole(r) /\ Whole(r).by = r
  BY DEF Whole
<1>3. Located(r)'
  BY <1>1 DEF Sound, Located
<1>4. Written(r)'
  BY <1>1, <1>2 DEF Sound, Written
<1>5. Ordered(r)'
  BY <1>1, <1>2 DEF Sound, Ordered
<1> QED BY <1>3, <1>4, <1>5 DEF Sound

(* A step that leaves the files alone, and the place where run r writes. *)
LEMMA Moved ==
  ASSUME AttachTypeOK, NEW r \in Runs, Sound(r), UNCHANGED <<files, pinned, secret>>, ignored \subseteq ignored',
         Written(r)',
         stage'[r] \in {"write", "enable", "remove"} =>
           \A d \in Directories : files[d]["settings"].by # r,
         stage'[r] \notin {"begin", "verify", "pin", "compare", "check", "ignore", "refused", "verified", "dead"} =>
           pinned[r] \in ignored',
         stage'[r] \in Clean => stage[r] \in Clean
  PROVE  Sound(r)'
<1>1. Located(r)'
  BY DEF Sound, Located
<1>2. Ordered(r)'
  BY DEF Sound, Ordered, Whole
<1> QED BY <1>1, <1>2 DEF Sound

-----------------------------------------------------------------------------
(* The steps of a run, for the run itself.  Up to its first file it has none. *)
LEMMA EarlyGood ==
  ASSUME AttachInv, NEW r \in Runs, Inspect(r) \/ Verify(r) \/ Compare(r) \/ CheckPlace(r) \/ Ignore(r)
  PROVE  Sound(r)'
<1>1. Sound(r) /\ AttachTypeOK
  BY DEF AttachInv
<1>2. /\ UNCHANGED <<files, pinned, secret>> /\ ignored \subseteq ignored'
      /\ stage[r] \in Clean /\ stage'[r] \in Clean
      /\ stage'[r] = "create" => pinned[r] \in ignored'
  <2>1. CASE Inspect(r) \/ Verify(r)
    BY <1>1, <2>1 DEF AttachTypeOK, Inspect, Verify, Proceed, given, Clean
  <2>2. CASE Compare(r) \/ CheckPlace(r)
    BY <1>1, <2>2 DEF AttachTypeOK, Compare, CheckPlace, Proceed, given, Clean
  <2>3. CASE Ignore(r)
    BY <1>1, <2>3 DEF AttachTypeOK, Ignore, Proceed, given, Clean
  <2> QED BY <2>1, <2>2, <2>3
<1>3. Written(r)'
  BY <1>2 DEF Written, Clean
<1>4. stage'[r] \notin {"write", "enable", "remove"}
  BY <1>2 DEF Clean
<1>5. stage'[r] \notin {"begin", "verify", "pin", "compare", "check", "ignore", "refused", "verified", "dead"} =>
        pinned[r] \in ignored'
  BY <1>2 DEF Clean
<1> HIDE DEF Clean
<1> QED BY <1>1, <1>2, <1>3, <1>4, <1>5, Moved

LEMMA PinGood == ASSUME AttachInv, NEW r \in Runs, Pin(r) PROVE Sound(r)'
<1>1. Sound(r) /\ AttachTypeOK
  BY DEF AttachInv
<1>2. /\ UNCHANGED files /\ stage[r] = "pin" /\ stage'[r] \in {"compare", "ignore", "refused"}
  BY <1>1 DEF Pin, Proceed, AttachTypeOK
<1>3. \A d \in Directories, n \in Private : files[d][n].by # r
  BY <1>1, <1>2 DEF Sound, Located, Clean
<1>4. \A d \in Directories : files[d]["settings"].by # r
  BY <1>3 DEF Private
<1> QED BY <1>2, <1>3, <1>4 DEF Sound, Located, Written, Ordered

(* A file is created, or found to exist. *)
LEMMA NewGood == ASSUME AttachInv, NEW r \in Runs, Create(r) \/ Enable(r) PROVE Sound(r)'
<1>1. Sound(r) /\ AttachTypeOK
  BY DEF AttachInv
<1>2. UNCHANGED <<pinned, secret, ignored>> /\ pinned[r] \in Directories
  BY <1>1 DEF Create, Enable, WriteNew, given, AttachTypeOK
<1>3. "connection" \in Private /\ "settings" \in Private
  BY DEF Private
<1>4. CASE Create(r)
  <2>1. stage[r] = "create" /\ pinned[r] \in ignored
    BY <1>1, <1>4 DEF Create, Sound, Located
  <2>2. \A d \in Directories, n \in Private : files[d][n].by # r
    BY <1>1, <2>1 DEF Sound, Located, Clean
  <2>3. CASE UNCHANGED files /\ Proceed(r, "remove")
    <3>1. stage'[r] = "remove"
      BY <1>1, <2>3, ProceedOne
    <3> QED BY <1>2, <1>3, <2>1, <2>2, <2>3, <3>1 DEF Sound, Located, Written, Ordered, Clean
  <2>4. CASE Put(r, "connection", [by |-> r, secret |-> Nobody]) /\ Proceed(r, "write")
    <3>1. stage'[r] = "write"
      BY <1>1, <2>4, ProceedOne
    <3>2. /\ files'[pinned[r]]["connection"] = [by |-> r, secret |-> Nobody]
          /\ \A d \in Directories, m \in Private :
               (d # pinned[r] \/ m # "connection") => files'[d][m] = files[d][m]
      BY <1>1, <1>3, <2>4, PutOne, FilesOfRuns
    <3>3. \A d \in Directories, m \in Private : files'[d][m].by = r => d = pinned[r] /\ m = "connection"
      BY <2>2, <3>2
    <3>4. \A d \in Directories : files'[d]["settings"].by # r
      BY <1>3, <3>3
    <3> QED BY <1>2, <2>1, <3>1, <3>2, <3>3, <3>4 DEF Sound, Located, Written, Ordered, Clean
  <2> QED BY <1>4, <2>3, <2>4 DEF Create, WriteNew
<1>5. CASE Enable(r)
  <2>1. stage[r] = "enable" /\ pinned[r] \in ignored
    BY <1>1, <1>5 DEF Enable, Sound, Located
  <2>2. /\ files[pinned[r]]["connection"] = Whole(r)
        /\ \A d \in Directories : files[d]["settings"].by # r
        /\ \A d \in Directories, n \in Private : files[d][n].by = r => d = pinned[r]
    BY <1>1, <2>1 DEF Sound, Located, Written, Ordered
  <2>3. CASE UNCHANGED files /\ Proceed(r, "remove")
    <3>1. stage'[r] = "remove"
      BY <1>1, <2>3, ProceedOne
    <3> QED BY <1>2, <2>1, <2>2, <2>3, <3>1 DEF Sound, Located, Written, Ordered, Clean
  <2>4. CASE Put(r, "settings", [by |-> r, secret |-> Nobody]) /\ Proceed(r, "settle")
    <3>1. stage'[r] = "settle"
      BY <1>1, <2>4, ProceedOne
    <3>2. /\ files'[pinned[r]]["settings"] = [by |-> r, secret |-> Nobody]
          /\ \A d \in Directories, m \in Private :
               (d # pinned[r] \/ m # "settings") => files'[d][m] = files[d][m]
      BY <1>1, <1>3, <2>4, PutOne, FilesOfRuns
    <3>3. files'[pinned[r]]["connection"] = Whole(r)'
      BY <1>2, <1>3, <2>2, <3>2 DEF Whole
    <3>4. \A d \in Directories, m \in Private : files'[d][m].by = r => d = pinned[r]
      BY <2>2, <3>2
    <3>5. Ordered(r)'
      BY <1>2, <1>3, <3>1, <3>3, <3>4 DEF Ordered
    <3> QED BY <1>2, <2>1, <3>1, <3>2, <3>3, <3>4, <3>5 DEF Sound, Located, Written, Clean
  <2> QED BY <1>5, <2>3, <2>4 DEF Enable, WriteNew
<1> QED BY <1>4, <1>5

(* Its content follows. *)
LEMMA FillGood == ASSUME AttachInv, NEW r \in Runs, WriteContent(r) \/ Settle(r) PROVE Sound(r)'
<1>1. Sound(r) /\ AttachTypeOK
  BY DEF AttachInv
<1>2. UNCHANGED <<pinned, secret, ignored>> /\ pinned[r] \in Directories
  BY <1>1 DEF WriteContent, Settle, Fill, given, AttachTypeOK
<1>3. "connection" \in Private /\ "settings" \in Private
  BY DEF Private
<1>4. CASE WriteContent(r)
  <2>1. stage[r] = "write" /\ Put(r, "connection", Whole(r)) /\ Proceed(r, "enable")
    BY <1>4 DEF WriteContent, Fill, Whole
  <2>2. stage'[r] = "enable"
    BY <1>1, <2>1, ProceedOne
  <2>3. /\ files'[pinned[r]]["connection"] = Whole(r)
        /\ \A d \in Directories, m \in Private :
             (d # pinned[r] \/ m # "connection") => files'[d][m] = files[d][m]
    BY <1>1, <1>3, <2>1, PutOne, FilesOfRuns DEF Whole
  <2>4. Whole(r)' = Whole(r)
    BY <1>2 DEF Whole
  <2>5. \A d \in Directories, m \in Private : files'[d][m].by = r => d = pinned[r]
    BY <1>1, <2>3 DEF Sound, Located
  <2>6. \A d \in Directories : files'[d]["settings"].by # r
    BY <1>1, <1>3, <2>1, <2>3 DEF Sound, Ordered
  <2>7. pinned[r] \in ignored
    BY <1>1, <2>1 DEF Sound, Located
  <2> QED BY <1>2, <2>2, <2>3, <2>4, <2>5, <2>6, <2>7 DEF Sound, Located, Written, Ordered, Clean
<1>5. CASE Settle(r)
  <2>1. stage[r] = "settle" /\ Put(r, "settings", Whole(r)) /\ Proceed(r, "final")
    BY <1>5 DEF Settle, Fill, Whole
  <2>2. stage'[r] = "final"
    BY <1>1, <2>1, ProceedOne
  <2>3. /\ files'[pinned[r]]["settings"] = Whole(r)
        /\ \A d \in Directories, m \in Private :
             (d # pinned[r] \/ m # "settings") => files'[d][m] = files[d][m]
    BY <1>1, <1>3, <2>1, PutOne, FilesOfRuns DEF Whole
  <2>4. Whole(r)' = Whole(r)
    BY <1>2 DEF Whole
  <2>5. \A d \in Directories, m \in Private : files'[d][m].by = r => d = pinned[r]
    <3> SUFFICES ASSUME NEW d \in Directories, NEW m \in Private, files'[d][m].by = r, d # pinned[r]
                 PROVE  FALSE
      OBVIOUS
    <3>1. files[d][m].by = r
      BY <2>3
    <3> QED BY <1>1, <3>1 DEF Sound, Located
  <2>6. files'[pinned[r]]["connection"] = Whole(r)
    BY <1>1, <1>2, <1>3, <2>1, <2>3 DEF Sound, Written
  <2>7. pinned[r] \in ignored
    BY <1>1, <2>1 DEF Sound, Located
  <2>8. Ordered(r)'
    BY <1>3, <2>2, <2>4, <2>5, <2>6 DEF Ordered
  <2> QED BY <1>2, <2>2, <2>3, <2>4, <2>5, <2>6, <2>7, <2>8 DEF Sound, Located, Written, Clean
<1> QED BY <1>4, <1>5

(* It looks at the place, fails or dies. *)
LEMMA HaltGood == ASSUME AttachInv, NEW r \in Runs, Final(r) \/ Fail(r) \/ Die(r) PROVE Sound(r)'
<1>1. Sound(r) /\ AttachTypeOK
  BY DEF AttachInv
<1>2. UNCHANGED <<files, pinned, secret, ignored>> /\ Whole(r)' = Whole(r)
  BY DEF Final, Fail, Die, given, Whole
<1>3. CASE Final(r)
  <2>1. stage[r] = "final" /\ stage'[r] \in {"attached", "disable"}
    BY <1>1, <1>3, ProceedOne DEF Final
  <2> QED BY <1>1, <1>2, <2>1 DEF Sound, Located, Written, Ordered, Clean
<1>4. CASE Fail(r)
  <2>1. \/ stage[r] \in {"settle", "final"} /\ stage'[r] = "disable"
        \/ stage[r] \in {"create", "write", "enable"} /\ stage'[r] = "remove"
    BY <1>1, <1>4, ProceedOne DEF Fail
  <2>2. CASE stage[r] = "create"
    <3>1. \A d \in Directories, n \in Private : files[d][n].by # r
      BY <1>1, <2>2 DEF Sound, Located, Clean
    <3>2. \A d \in Directories : files[d]["settings"].by # r
      BY <3>1 DEF Private
    <3> QED BY <1>1, <1>2, <2>1, <2>2, <3>1, <3>2 DEF Sound, Located, Written, Ordered, Clean
  <2>3. CASE stage[r] # "create"
    BY <1>1, <1>2, <2>1, <2>3 DEF Sound, Located, Written, Ordered, Clean
  <2> QED BY <2>2, <2>3
<1>5. CASE Die(r)
  <2>1. stage'[r] = "dead"
    BY <1>1, <1>5, ProceedOne DEF Die
  <2> QED BY <1>1, <1>2, <2>1 DEF Sound, Located, Written, Ordered, Clean
<1> QED BY <1>3, <1>4, <1>5

(* Its files are removed, settings first. *)
LEMMA RollbackGood == ASSUME AttachInv, NEW r \in Runs, Rollback(r) PROVE Sound(r)'
<1>1. Sound(r) /\ AttachTypeOK
  BY DEF AttachInv
<1>2. /\ UNCHANGED <<pinned, secret, ignored>> /\ pinned[r] \in Directories
      /\ NoFile.by # r /\ Whole(r)' = Whole(r)
  BY <1>1, AttachAssumption DEF Rollback, RemoveOwn, given, AttachTypeOK, NoFile, Whole
<1>3. "connection" \in Private /\ "settings" \in Private /\ "connection" # "settings"
  BY DEF Private
<1>4. ASSUME NEW n \in Private, NEW next, RemoveOwn(r, n, next)
      PROVE  /\ stage'[r] = next
             /\ \A d \in Directories, m \in Private :
                  files'[d][m].by = r => files'[d][m] = files[d][m] /\ (d # pinned[r] \/ m # n)
             /\ \A d \in Directories, m \in Private : m # n => files'[d][m] = files[d][m]
  <2>1. stage'[r] = next
    BY <1>1, <1>4, ProceedOne DEF RemoveOwn
  <2>2. CASE Owned(r, n)
    <3>1. Put(r, n, NoFile)
      BY <1>4, <2>2 DEF RemoveOwn
    <3>2. NoFile \in File
      BY <1>1, FilesOfRuns
    <3>3. /\ files'[pinned[r]][n] = NoFile
          /\ \A d \in Directories, m \in Private :
               (d # pinned[r] \/ m # n) => files'[d][m] = files[d][m]
      BY <1>1, <3>1, <3>2, PutOne
    <3> QED BY <1>2, <2>1, <3>3
  <2>3. CASE ~ Owned(r, n)
    BY <1>4, <2>1, <2>3 DEF RemoveOwn, Owned
  <2> QED BY <2>2, <2>3
<1>5. CASE stage[r] = "disable" /\ RemoveOwn(r, "settings", "remove")
  <2>1. /\ stage'[r] = "remove"
        /\ \A d \in Directories, m \in Private :
             files'[d][m].by = r => files'[d][m] = files[d][m] /\ (d # pinned[r] \/ m # "settings")
    BY <1>3, <1>4, <1>5
  <2>2. \A d \in Directories, m \in Private : files'[d][m].by = r => d = pinned[r] /\ d \in ignored /\ m # "settings"
    BY <1>1, <2>1 DEF Sound, Located
  <2>3. \A d \in Directories : files'[d]["settings"].by # r
    BY <1>3, <2>2
  <2>4. pinned[r] \in ignored
    BY <1>1, <1>5 DEF Sound, Located
  <2> QED BY <1>2, <2>1, <2>2, <2>3, <2>4 DEF Sound, Located, Written, Ordered, Clean
<1>6. CASE stage[r] = "remove" /\ RemoveOwn(r, "connection", "refused")
  <2>1. /\ stage'[r] = "refused"
        /\ \A d \in Directories, m \in Private :
             files'[d][m].by = r => files'[d][m] = files[d][m] /\ (d # pinned[r] \/ m # "connection")
    BY <1>3, <1>4, <1>6
  <2>2. \A d \in Directories : files[d]["settings"].by # r
    BY <1>1, <1>6 DEF Sound, Ordered
  <2>3. \A d \in Directories, m \in Private : files'[d][m].by # r
    BY <1>1, <2>1, <2>2 DEF Sound, Located, Private
  <2>4. \A d \in Directories : files'[d]["settings"].by # r
    BY <1>3, <2>3
  <2> QED BY <1>2, <2>1, <2>3, <2>4 DEF Sound, Located, Written, Ordered, Clean
<1> QED BY <1>5, <1>6 DEF Rollback

-----------------------------------------------------------------------------
(* A step changes a file only if there is none, or by the run it is of. *)
LEMMA OnlyOwn ==
  ASSUME AttachInv, AttachNext, NEW d \in Directories, NEW n \in Private,
         files[d][n] # NoFile, files'[d][n] # files[d][n]
  PROVE  \E r \in Runs : files[d][n].by = r /\ Run(r) /\ stage'[r] # stage[r]
<1>1. AttachTypeOK
  BY DEF AttachInv
<1>2. CASE \E r \in Runs : Run(r)
  <2>1. PICK r \in Runs : Run(r)
    BY <1>2
  <2>2. ~ (Inspect(r) \/ Verify(r) \/ Pin(r) \/ Compare(r) \/ CheckPlace(r) \/ Ignore(r) \/ Final(r) \/ Fail(r))
    BY DEF Inspect, Verify, Pin, Compare, CheckPlace, Ignore, Final, Fail
  <2>3. Sound(r)
    BY DEF AttachInv
  <2>4. CASE Create(r) \/ Enable(r)
    <3>1. PICK m \in Private, f \in File : files[pinned[r]][m] = NoFile /\ Put(r, m, f)
      BY <1>1, <2>4, FilesOfRuns DEF Create, Enable, WriteNew, Private
    <3> QED BY <1>1, <3>1, PutOne
  <2>5. CASE WriteContent(r) \/ Settle(r)
    <3>1. PICK m \in Private, f \in File : files[pinned[r]][m].by = r /\ Put(r, m, f)
      BY <1>1, <2>3, <2>5, FilesOfRuns DEF WriteContent, Settle, Fill, Private, Sound, Written
    <3>2. stage'[r] # stage[r]
      BY <1>1, <2>5, ProceedOne DEF WriteContent, Settle, Fill
    <3> QED BY <1>1, <2>1, <3>1, <3>2, PutOne
  <2>6. CASE Rollback(r)
    <3>1. PICK m \in Private : Owned(r, m) /\ Put(r, m, NoFile)
      BY <2>6 DEF Rollback, RemoveOwn, Private
    <3>2. stage'[r] # stage[r]
      BY <1>1, <2>6, ProceedOne DEF Rollback, RemoveOwn
    <3>3. NoFile \in File
      BY <1>1, FilesOfRuns
    <3>4. \A e \in Directories, u \in Private :
            (e # pinned[r] \/ u # m) => files'[e][u] = files[e][u]
      BY <1>1, <3>1, <3>3, PutOne
    <3> QED BY <2>1, <3>1, <3>2, <3>4 DEF Owned
  <2> QED BY <2>1, <2>2, <2>4, <2>5, <2>6 DEF Run
<1>3. CASE \E r \in Runs : Die(r)
  BY <1>3 DEF Die
<1>4. CASE \E e \in Directories : Exchange(e)
  BY <1>4 DEF Exchange
<1>5. CASE \E m \in Private : PersonWrites(m)
  BY <1>1, <1>5 DEF PersonWrites, AttachTypeOK
<1> QED BY <1>2, <1>3, <1>4, <1>5 DEF AttachNext

(* A file that comes into being is that of the run whose step it is, or of a
   person. *)
LEMMA NewOwn ==
  ASSUME AttachInv, NEW q \in Runs, Run(q), NEW d \in Directories, NEW n \in Private, NEW r \in Runs,
         files'[d][n].by = r, files'[d][n] # files[d][n]
  PROVE  r = q
<1>1. AttachTypeOK /\ NoFile.by # r
  BY AttachAssumption DEF AttachInv, NoFile
<1>2. ~ (Inspect(q) \/ Verify(q) \/ Pin(q) \/ Compare(q) \/ CheckPlace(q) \/ Ignore(q) \/ Final(q) \/ Fail(q))
  BY DEF Inspect, Verify, Pin, Compare, CheckPlace, Ignore, Final, Fail
<1>3. PICK m \in Private, f \in File : Put(q, m, f) /\ (f = NoFile \/ f.by = q)
  BY <1>1, <1>2, FilesOfRuns
  DEF Run, Create, Enable, WriteNew, WriteContent, Settle, Fill, Rollback, RemoveOwn, Private
<1> QED BY <1>1, <1>3, PutOne

(* The other runs' state. *)
LEMMA OthersStay ==
  ASSUME AttachTypeOK, NEW q \in Runs, Run(q) \/ Die(q), NEW r \in Runs, r # q
  PROVE  stage'[r] = stage[r] /\ pinned'[r] = pinned[r] /\ secret' = secret /\ ignored \subseteq ignored'
<1>1. CASE Inspect(q) \/ Verify(q) \/ Pin(q) \/ Compare(q) \/ CheckPlace(q) \/ Ignore(q)
  BY <1>1 DEF AttachTypeOK, Inspect, Verify, Pin, Compare, CheckPlace, Ignore, Proceed, given
<1>2. CASE Create(q) \/ Enable(q) \/ WriteContent(q) \/ Settle(q) \/ Rollback(q)
  BY <1>2 DEF AttachTypeOK, Create, Enable, WriteNew, WriteContent, Settle, Fill, Rollback, RemoveOwn, Proceed, given
<1>3. CASE Final(q) \/ Fail(q) \/ Die(q)
  BY <1>3 DEF AttachTypeOK, Final, Fail, Die, Proceed, given
<1> QED BY <1>1, <1>2, <1>3 DEF Run

(* The invariant, for one run. *)
LEMMA GoodNext == ASSUME AttachInv, AttachNext, NEW r \in Runs PROVE Sound(r)'
<1>1. AttachTypeOK /\ Sound(r) /\ NoFile.by # r
  BY AttachAssumption DEF AttachInv, NoFile
<1>2. CASE Run(r) \/ Die(r)
  BY <1>2, EarlyGood, PinGood, NewGood, FillGood, HaltGood, RollbackGood DEF Run
<1>3. CASE \E q \in Runs \ {r} : Run(q) \/ Die(q)
  <2>1. PICK q \in Runs \ {r} : Run(q) \/ Die(q)
    BY <1>3
  <2>2. stage'[r] = stage[r] /\ pinned'[r] = pinned[r] /\ secret' = secret /\ ignored \subseteq ignored'
    BY <1>1, <2>1, OthersStay
  <2>3. ASSUME NEW d \in Directories, NEW n \in Private,
               files[d][n].by = r \/ files'[d][n].by = r, files'[d][n] # files[d][n]
        PROVE  FALSE
    <3>1. CASE Die(q)
      BY <2>3, <3>1 DEF Die
    <3>2. CASE Run(q) /\ files'[d][n].by = r
      BY <2>3, <3>2, NewOwn
    <3>3. CASE Run(q) /\ files[d][n].by = r
      <4>1. ASSUME NEW u \in Runs, files[d][n].by = u, stage'[u] # stage[u] PROVE FALSE
        BY <2>2, <3>3, <4>1
      <4> QED BY <1>1, <2>3, <3>3, <4>1, OnlyOwn
    <3> QED BY <2>1, <2>3, <3>1, <3>2, <3>3
  <2> QED BY <1>1, <2>2, <2>3, Kept
<1>4. CASE \E d \in Directories : Exchange(d)
  <2>1. UNCHANGED <<files, ignored, stage, secret, pinned>>
    BY <1>4 DEF Exchange
  <2> QED BY <1>1, <2>1, Kept
<1>5. CASE \E n \in Private : PersonWrites(n)
  <2>1. UNCHANGED <<ignored, stage, secret, pinned>>
    BY <1>5 DEF PersonWrites, given
  <2>2. \A d \in Directories, n \in Private :
          files[d][n].by = r \/ files'[d][n].by = r => files'[d][n] = files[d][n]
    BY <1>1, <1>5, AttachAssumption DEF PersonWrites, AttachTypeOK
  <2> QED BY <1>1, <2>1, <2>2, Kept
<1> QED BY <1>2, <1>3, <1>4, <1>5 DEF AttachNext

LEMMA InitAttachInv == AttachInit => AttachInv
<1> SUFFICES ASSUME AttachInit PROVE AttachInv
  OBVIOUS
<1>1. AttachTypeOK
  BY DEF AttachInit, AttachTypeOK, File, NoFile
<1>2. ASSUME NEW r \in Runs PROVE Sound(r)
  <2>1. \A d \in Directories, n \in Private : files[d][n].by # r
    BY AttachAssumption DEF AttachInit, NoFile
  <2>2. \A d \in Directories : files[d]["settings"].by # r
    BY <2>1 DEF Private
  <2> QED BY <2>1, <2>2 DEF AttachInit, Sound, Located, Written, Ordered
<1> QED BY <1>1, <1>2 DEF AttachInv

LEMMA NextAttachInv == AttachInv /\ [AttachNext]_attachVars => AttachInv'
<1> SUFFICES ASSUME AttachInv, [AttachNext]_attachVars PROVE AttachInv'
  OBVIOUS
<1>1. AttachTypeOK'
  BY AttachTypeNext DEF AttachInv
<1>2. CASE AttachNext
  BY <1>1, <1>2, GoodNext DEF AttachInv
<1>3. CASE UNCHANGED attachVars
  <2>1. ASSUME NEW r \in Runs PROVE Sound(r)'
    BY <1>3 DEF AttachInv, Sound, Located, Written, Ordered, Whole, attachVars
  <2> QED BY <1>1, <2>1 DEF AttachInv
<1> QED BY <1>2, <1>3

(* The invariant of every run, that the theorems below rest on. *)
LEMMA AlwaysAttachInv == AttachSpec => []AttachInv
BY InitAttachInv, NextAttachInv, PTL DEF AttachSpec

-----------------------------------------------------------------------------
(* The state of the script and of the files has its type. *)
THEOREM AttachTypeCorrect == AttachSpec => []AttachTypeOK
<1>1. AttachInv => AttachTypeOK
  BY DEF AttachInv
<1> QED BY <1>1, AlwaysAttachInv, PTL

(* No credential is written into a directory that does not ignore it: attach
   appends the rules first, through the directory it holds open. *)
THEOREM ProtectedAlways == AttachSpec => []Protected
<1>1. AttachInv => Protected
  BY DEF AttachInv, Sound, Located, Protected, Private
<1> QED BY <1>1, AlwaysAttachInv, PTL

(* Settings never stand without the complete connection of their run, and a
   run that ends leaves both files or none. *)
THEOREM WholeOrNothingAlways == AttachSpec => []WholeOrNothing
<1>1. AttachInv => WholeOrNothing
  <2> SUFFICES ASSUME AttachInv PROVE WholeOrNothing
    OBVIOUS
  <2>1. ASSUME NEW d \in Directories, files[d]["settings"].by \in Runs
        PROVE  files[d]["connection"] = Whole(files[d]["settings"].by)
    BY <2>1 DEF AttachInv, Sound, Ordered
  <2>2. ASSUME NEW r \in Runs, stage[r] = "attached", NEW n \in Private
        PROVE  files[pinned[r]][n] = Whole(r)
    BY <2>2 DEF AttachInv, Sound, Written, Private
  <2>3. ASSUME NEW r \in Runs, stage[r] \in {"refused", "verified"}, NEW d \in Directories, NEW n \in Private
        PROVE  files[d][n].by # r
    BY <2>3 DEF AttachInv, Sound, Located, Clean
  <2> QED BY <2>1, <2>2, <2>3 DEF WholeOrNothing, Whole
<1> QED BY <1>1, AlwaysAttachInv, PTL

(* A file that is there is touched by nobody but the run that created it. *)
THEOREM NothingTakenAlways == AttachSpec => NothingTaken
<1> DEFINE Untouched == \A d \in Directories, n \in Private :
             files[d][n] # NoFile /\ files'[d][n] # files[d][n] =>
               \E r \in Runs : files[d][n].by = r /\ stage'[r] # stage[r]
<1>1. AttachInv /\ [AttachNext]_attachVars => [Untouched]_attachVars
  BY OnlyOwn
<1> QED BY <1>1, AlwaysAttachInv, PTL DEF AttachSpec, NothingTaken

=============================================================================
