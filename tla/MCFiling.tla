------------------------------ MODULE MCFiling ------------------------------
(* Small instances of Filing: projects whose ids normalise to one name. *)
EXTENDS Filing, TLC

CONSTANTS h1, h2, t1, t2, p1, p2, p3, n1, n2

OneHook == {h1}
TwoHooks == {h1, h2}
OneThread == {t1}
TwoThreads == {t1, t2}
Together == [t \in Threads |-> h1]
Apart == t1 :> h1 @@ t2 :> h2
OneName == {n1}
TwoNames == {n1, n2}
TwoProjects == {p1, p2}
ThreeProjects == {p1, p2, p3}
SameName == [p \in TwoProjects |-> n1]
OwnName == p1 :> n1 @@ p2 :> n2
TwoOfThree == p1 :> n1 @@ p2 :> n2 @@ p3 :> n1

(* Two or three messages to one project and one to the other; one to each; one to each
   of three projects, with a second one to p2; or none to p2. *)
ToOne == 1 :> <<h1, p1>> @@ 2 :> <<h1, p1>> @@ 3 :> <<h1, p2>>
ToMany == ToOne @@ 4 :> <<h1, p1>>
ToBoth == 1 :> <<h1, p1>> @@ 2 :> <<h1, p2>>
ToTwo == 1 :> <<h1, p1>> @@ 2 :> <<h2, p2>>
ToThree == 1 :> <<h1, p1>> @@ 2 :> <<h1, p2>> @@ 3 :> <<h1, p3>>
ToOuter == 1 :> <<h1, p1>> @@ 2 :> <<h1, p3>>
ToFour == ToThree @@ 4 :> <<h1, p2>>
=============================================================================
