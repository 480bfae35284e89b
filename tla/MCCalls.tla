------------------------------ MODULE MCCalls ------------------------------
(* The edge of the hosted form.  CallLogs: one guarded call with any          *)
(* combination of faults, every row, and three calls of two people in two     *)
(* organisations.  UserAccount: two claim posts, a password login, two        *)
(* provider logins, one migration, two providers with two subjects.  They     *)
(* share nothing: one moves while the other is as it began.                   *)
EXTENDS CallLogs, UserAccount, TLC

CONSTANTS c1, t1, p1, p2, l1, o1, o2, m1, google, microsoft, anna, ben

OneCall == {c1}
TwoPeople == {<<"ann", "acme">>, <<"ann", "other">>, <<"bob", "acme">>}

TwoPosts == {p1, p2}
OneLogin == {l1}
TwoOidcLogins == {o1, o2}
OneMove == {m1}
TwoProviders == {google, microsoft}
TwoSubjects == {anna, ben}
PendingUser == [hash |-> NoHash, provider |-> None, subject |-> None, active |-> TRUE]

VARIABLE side

EdgeInit ==
    /\ CallsInit /\ AccountInit
    /\ \/ side = "calls" /\ user = PendingUser
       \/ side = "account" /\ what = <<"conversation">> /\ signedIn /\ rows = {}
EdgeNext ==
    \/ side = "calls" /\ CallsNext /\ UNCHANGED <<side, accountVars>>
    \/ side = "account" /\ AccountNext /\ UNCHANGED <<side, what, vars, logVars>>
EdgeSpec == EdgeInit /\ [][EdgeNext]_<<side, what, vars, logVars, accountVars>>

=============================================================================
