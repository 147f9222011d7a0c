--------------------------- MODULE InstallPromise ---------------------------
(***************************************************************************)
(* What an installed exe promises its owner, whatever happens to the runs  *)
(* that change it.  An app's folder is nobody's, exe's (then it holds what *)
(* a release brought) or the owner's.  exe places its apps, replaces and   *)
(* takes away what is its own, and never touches what is the owner's; only *)
(* the owner makes an app the owner's.  A folder is taken away file by     *)
(* file, and exe never places anything over what is left of one (Torn).    *)
(* A release's binary comes last: when it goes in, its helper is there,    *)
(* and no app of exe's is another release's.                               *)
(***************************************************************************)
EXTENDS Integers

CONSTANTS App, MaxRelease

VARIABLES app,      \* [App -> Nobody, Owner or the release it holds]
          bin,      \* release of the binary in place, 0 without one
          helper,   \* release of the helper beside it
          acts      \* what the owner has done to the apps so far

vars == <<app, bin, helper, acts>>

Release == 1..MaxRelease
Nobody  == 0
Owner   == -1
Torn    == -2

Init ==
    /\ app = [a \in App |-> Nobody]
    /\ bin = 0 /\ helper = 0 /\ acts = 0

Place(a, r) ==
    /\ app[a] \notin {Owner, Torn}
    /\ app' = [app EXCEPT ![a] = r]
    /\ UNCHANGED <<bin, helper, acts>>

BeginTakeAway(a) ==
    /\ app[a] \in Release
    /\ app' = [app EXCEPT ![a] = Torn]
    /\ UNCHANGED <<bin, helper, acts>>

TakeAway(a) ==
    /\ app[a] /= Owner
    /\ app' = [app EXCEPT ![a] = Nobody]
    /\ UNCHANGED <<bin, helper, acts>>

Stage(h) == helper' = h /\ UNCHANGED <<app, bin, acts>>

Commit(r) ==
    /\ helper = r /\ \A a \in App : app[a] \in {Nobody, Owner, Torn, r}
    /\ bin' = r
    /\ UNCHANGED <<app, helper, acts>>

Uninstall == bin' = 0 /\ UNCHANGED <<app, helper, acts>>

OwnerMoves(a) ==
    /\ \E o \in {Owner, Nobody} : app' = [app EXCEPT ![a] = o]
    /\ acts' = acts + 1
    /\ UNCHANGED <<bin, helper>>

Next ==
    \/ \E a \in App : \/ BeginTakeAway(a) \/ TakeAway(a) \/ OwnerMoves(a)
                      \/ \E r \in Release : Place(a, r)
    \/ \E h \in Release \cup {0} : Stage(h)
    \/ \E r \in Release : Commit(r)
    \/ Uninstall

Spec == Init /\ [][Next]_vars
=============================================================================
