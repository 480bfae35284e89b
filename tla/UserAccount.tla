---------------------------- MODULE UserAccount ----------------------------
(***************************************************************************)
(* One row of the users table and everything that changes its credential:  *)
(* setup and reset links (onboarding.claim), password logins with their    *)
(* opportunistic rehash (authenticate), first logins through an identity   *)
(* provider (_resolve_oidc_user), the move of a password account onto a    *)
(* provider, and the administrator's switch.                               *)
(*                                                                         *)
(* Every handler reads the row, thinks (argon2 takes a while, off the      *)
(* event loop), and then writes with one UPDATE whose WHERE decides; the   *)
(* read and the UPDATE are separate steps and handlers interleave.         *)
(*                                                                         *)
(* A stored hash is the password and the handler that computed it: argon2  *)
(* salts, so no two computations give the same digest.                     *)
(***************************************************************************)
EXTENDS Naturals, FiniteSets

CONSTANTS
    Posts,     \* POSTs of the claim page, each choosing its own password
    Logins,    \* password logins
    OidcLogins,\* logins through an identity provider
    Migrations,     \* calls of migrate_password_user_to_oidc
    Providers, Subjects,
    Original,  \* the password, and the hash, an account may start with
    None       \* SQL NULL

ASSUME AccountNamesAssumption ==
    /\ Original \notin Posts \cup Logins /\ Posts \cap Logins = {}
    /\ None \notin Posts \cup Logins \cup Providers \cup Subjects \cup {Original}

VARIABLES
    user,     \* the row: hash, provider, subject, active
    links,    \* hashes a reset link has been minted against
    post,     \* claim-page POSTs
    login,    \* password logins
    oidc,     \* provider logins
    moved,    \* history: calls of the migration that adopted the account
    replaced, \* history: the hash each successful reset replaced
    claims    \* history: successful first claims

accountVars == <<user, links, post, login, oidc, moved, replaced, claims>>

Passwords == Posts \cup {Original}
Hashes == [pw : Passwords, by : Posts \cup Logins \cup {Original}]
NoHash == [pw |-> None, by |-> None]
OriginalHash == [pw |-> Original, by |-> Original]

\* The rows create_user leaves: pending, password, pinned to a provider, or
\* both of the last two.
InitialUsers ==
    [hash : {NoHash, OriginalHash}, provider : {None} \cup Providers,
     subject : {None}, active : {TRUE}]

AccountInit ==
    /\ user \in InitialUsers
    /\ links = {}
    /\ post = [p \in Posts |-> [pc |-> "idle", expected |-> NoHash]]
    /\ login = [l \in Logins |-> [pc |-> "idle", pw |-> None]]
    /\ oidc = [o \in OidcLogins |-> [pc |-> "idle", provider |-> None, subject |-> None]]
    /\ moved = {}
    /\ replaced = [p \in Posts |-> NoHash]
    /\ claims = {}

IsPending == user.hash = NoHash /\ user.provider = None

-----------------------------------------------------------------------------
(* Setup and reset links.                                                  *)

\* mint_reset_token with credential_fingerprint: only for a stored hash.
MintReset ==
    /\ user.hash # NoHash
    /\ user.hash \notin links
    /\ links' = links \cup {user.hash}
    /\ UNCHANGED <<user, post, login, oidc, moved, replaced, claims>>

\* _actionable on a setup token: the account must be pending.
BeginSetup(p) ==
    /\ post[p].pc = "idle"
    /\ post' = [post EXCEPT ![p].pc = IF IsPending THEN "setup" ELSE "refused"]
    /\ UNCHANGED <<user, links, login, oidc, moved, replaced, claims>>

\* _actionable on a reset token minted against h.
BeginReset(p, h) ==
    /\ post[p].pc = "idle"
    /\ h \in links
    /\ post' = [post EXCEPT ![p] =
                  IF user.hash = h /\ user.provider = None /\ user.active
                  THEN [pc |-> "reset", expected |-> h]
                  ELSE [pc |-> "refused", expected |-> NoHash]]
    /\ UNCHANGED <<user, links, login, oidc, moved, replaced, claims>>

NewHash(p) == [pw |-> p, by |-> p]

\* Mutant of WriteSetup: the UPDATE trusts the handler's earlier check.
WriteSetupUnguarded(p) ==
    /\ post[p].pc = "setup"
    /\ user' = [user EXCEPT !.hash = NewHash(p)]
    /\ post' = [post EXCEPT ![p].pc = "done"]
    /\ claims' = claims \cup {p}
    /\ UNCHANGED <<links, login, oidc, moved, replaced>>

\* claim_pending_password: UPDATE ... WHERE password_hash IS NULL AND
\* oidc_provider IS NULL.
WriteSetup(p) ==
    /\ post[p].pc = "setup"
    /\ IF IsPending
       THEN /\ user' = [user EXCEPT !.hash = NewHash(p)]
            /\ post' = [post EXCEPT ![p].pc = "done"]
            /\ claims' = claims \cup {p}
       ELSE /\ post' = [post EXCEPT ![p].pc = "refused"]
            /\ UNCHANGED <<user, claims>>
    /\ UNCHANGED <<links, login, oidc, moved, replaced>>

\* Mutant of WriteReset: the expected hash is checked only in the handler.
WriteResetUnguarded(p) ==
    /\ post[p].pc = "reset"
    /\ user' = [user EXCEPT !.hash = NewHash(p)]
    /\ post' = [post EXCEPT ![p].pc = "done"]
    /\ replaced' = [replaced EXCEPT ![p] = post[p].expected]
    /\ UNCHANGED <<links, login, oidc, moved, claims>>

\* reset_password: the whole condition is in the WHERE.  The revocation of
\* the principal's sessions commits with it.
WriteReset(p) ==
    /\ post[p].pc = "reset"
    /\ IF user.hash = post[p].expected /\ user.provider = None /\ user.active
       THEN /\ user' = [user EXCEPT !.hash = NewHash(p)]
            /\ post' = [post EXCEPT ![p].pc = "done"]
            /\ replaced' = [replaced EXCEPT ![p] = post[p].expected]
       ELSE /\ post' = [post EXCEPT ![p].pc = "refused"]
            /\ UNCHANGED <<user, replaced>>
    /\ UNCHANGED <<links, login, oidc, moved, claims>>

-----------------------------------------------------------------------------
(* authenticate.                                                           *)

\* Read the row and verify; only a hash of the old cost profile, the one the
\* account started with, is upgraded.
BeginLogin(l, pw) ==
    /\ login[l].pc = "idle"
    /\ login' = [login EXCEPT ![l] = [pw |-> pw, pc |->
                   IF user.hash = NoHash \/ user.hash.pw # pw \/ ~user.active
                   THEN "refused"
                   ELSE IF user.hash.by = Original THEN "rehash" ELSE "done"]]
    /\ UNCHANGED <<user, links, post, oidc, moved, replaced, claims>>

\* UPDATE users SET password_hash = ? WHERE username = ?; an error is ignored.
Rehash(l) ==
    /\ login[l].pc = "rehash"
    /\ \/ user' = [user EXCEPT !.hash = [pw |-> login[l].pw, by |-> l]]
       \/ UNCHANGED user
    /\ login' = [login EXCEPT ![l].pc = "done"]
    /\ UNCHANGED <<links, post, oidc, moved, replaced, claims>>

-----------------------------------------------------------------------------
(* _resolve_oidc_user, for an identity the provider vouched for.           *)

BeginOidc(o, v, s) ==
    /\ oidc[o].pc = "idle"
    /\ oidc' = [oidc EXCEPT ![o] = [provider |-> v, subject |-> s, pc |->
                  IF ~user.active THEN "refused"
                  ELSE IF IsPending THEN "claim"
                  ELSE IF user.provider # v THEN "refused" ELSE "bind"]]
    /\ UNCHANGED <<user, links, post, login, moved, replaced, claims>>

\* claim_pending_oidc: only while still pending.
ClaimOidc(o) ==
    /\ oidc[o].pc = "claim"
    /\ IF IsPending
       THEN /\ user' = [user EXCEPT !.provider = oidc[o].provider,
                                    !.subject = oidc[o].subject]
            /\ claims' = claims \cup {o}
       ELSE UNCHANGED <<user, claims>>
    /\ oidc' = [oidc EXCEPT ![o].pc = "claimed"]
    /\ UNCHANGED <<links, post, login, moved, replaced>>

\* bind_oidc_subject: only when none is set.
BindOidc(o) ==
    /\ oidc[o].pc = "bind"
    /\ user' = [user EXCEPT !.subject = IF @ = None THEN oidc[o].subject ELSE @]
    /\ oidc' = [oidc EXCEPT ![o].pc = "bound"]
    /\ UNCHANGED <<links, post, login, moved, replaced, claims>>

\* Read the row again: the binding must be this login's own.  After a claim
\* the code compares provider and subject, after a bind the subject only.
RereadOidc(o) ==
    /\ oidc[o].pc \in {"claimed", "bound"}
    /\ oidc' = [oidc EXCEPT ![o].pc =
                  IF /\ user.subject = oidc[o].subject
                     /\ oidc[o].pc = "claimed" => user.provider = oidc[o].provider
                  THEN "done" ELSE "refused"]
    /\ UNCHANGED <<user, links, post, login, moved, replaced, claims>>

-----------------------------------------------------------------------------
\* migrate_password_user_to_oidc, one guarded UPDATE.
Move(m, v, s) ==
    /\ m \notin moved
    /\ user.provider \in {None, v}
    /\ user' = [user EXCEPT !.hash = NoHash, !.provider = v, !.subject = s]
    /\ moved' = moved \cup {m}
    /\ UNCHANGED <<links, post, login, oidc, replaced, claims>>

\* The administrator switches the account off or on.
SetStatus ==
    /\ user' = [user EXCEPT !.active = ~@]
    /\ UNCHANGED <<links, post, login, oidc, moved, replaced, claims>>

-----------------------------------------------------------------------------
AccountNext ==
    \/ MintReset
    \/ \E p \in Posts : \/ BeginSetup(p) \/ WriteSetup(p) \/ WriteReset(p)
                        \/ \E h \in links : BeginReset(p, h)
    \/ \E l \in Logins : Rehash(l) \/ \E pw \in Passwords : BeginLogin(l, pw)
    \/ \E o \in OidcLogins :
         \/ ClaimOidc(o) \/ BindOidc(o) \/ RereadOidc(o)
         \/ \E v \in Providers, s \in Subjects : BeginOidc(o, v, s)
    \/ \E m \in Migrations, v \in Providers, s \in Subjects : Move(m, v, s)
    \/ SetStatus

AccountSpec == AccountInit /\ [][AccountNext]_accountVars

-----------------------------------------------------------------------------
\* The types of the variables.
AccountTypeOK ==
    /\ user \in [hash : Hashes \cup {NoHash}, provider : Providers \cup {None},
                 subject : Subjects \cup {None}, active : BOOLEAN]
    /\ links \subseteq Hashes
    /\ post \in [Posts -> [pc : {"idle", "setup", "reset", "done", "refused"},
                           expected : Hashes \cup {NoHash}]]
    /\ login \in [Logins -> [pc : {"idle", "rehash", "done", "refused"},
                             pw : Passwords \cup {None}]]
    /\ oidc \in [OidcLogins ->
                   [pc : {"idle", "claim", "claimed", "bind", "bound", "done", "refused"},
                    provider : Providers \cup {None}, subject : Subjects \cup {None}]]
    /\ moved \subseteq Migrations
    /\ replaced \in [Posts -> Hashes \cup {NoHash}]
    /\ claims \subseteq Posts \cup OidcLogins

\* A reset link is single-use, and so is every other link minted against the
\* same credential: of any number of posts, told apart only by when they read
\* and write, at most one replaces a given hash.
OneResetPerCredential ==
    \A p, q \in Posts : p # q /\ replaced[p] # NoHash => replaced[p] # replaced[q]

\* A pending account is claimed once: by one setup link or by one provider
\* login, never by both and never twice.  And every identity that was ever let
\* in through a provider is of one provider, and the same one as long as no
\* migration, whose job is to change that, has adopted the account.
ClaimedOnce ==
    /\ Cardinality(claims) <= 1
    /\ \A o, q \in OidcLogins : oidc[o].pc = "done" /\ oidc[q].pc = "done" =>
          /\ oidc[o].provider = oidc[q].provider
          /\ moved = {} => oidc[o].subject = oidc[q].subject

=============================================================================
