---------------------------- MODULE OAuthTokens ----------------------------
(***************************************************************************)
(* The OAuth token endpoint and the tables behind it, for one principal:   *)
(* authorization codes (oauth_state), refresh tokens (oauth_refresh_token),*)
(* and the revocation that rides a password reset.                         *)
(*                                                                         *)
(* Several workers and instances serve requests on one Postgres store, so  *)
(* the unit of interleaving is the SQL statement under READ COMMITTED:     *)
(*   - a SELECT sees committed rows only;                                  *)
(*   - a conditional UPDATE of a row waits for the transaction that holds  *)
(*     the row and then tests its WHERE against what that one committed;   *)
(*   - a bulk UPDATE chooses its rows when it starts, waits for the held   *)
(*     ones, tests them again, and never sees a row inserted meanwhile.    *)
(* A request between its UPDATE and its commit is in state "holdsCode" or  *)
(* "holdsRow": nothing it wrote is visible, and losing it loses the write. *)
(*                                                                         *)
(* A request mints at most one token, so a token, the row inserted with it *)
(* and the family opened by it carry the request's name.                   *)
(***************************************************************************)
EXTENDS Naturals, FiniteSets

CONSTANTS
    Requests,  \* calls of the token endpoint, each made once
    Codes,     \* authorization codes, one per completed login
    Modes,     \* AGAMI_REFRESH_TOKEN_MODE of the instances: one mode, or both
               \* while a change of it rolls out
    MaxResets, \* bound on the password resets of a behavior
    NoOne      \* neither a code nor a request

ASSUME ModesAssumption == Modes \subseteq {"overwrite", "rotate"}
ASSUME NamesAssumption ==
    /\ Requests \cap Codes = {}
    /\ NoOne \notin Requests \cup Codes
    /\ 0 \notin Requests  \* the mark of a lineage that is closed
ASSUME ResetsAssumption == MaxResets \in Nat

VARIABLES
    codes,   \* oauth_state, by code
    rows,    \* oauth_refresh_token, by the request that inserted the row
    req,     \* where each request stands
    reset,   \* the password reset in progress
    resets,  \* password resets committed so far
    spent,   \* history: successful exchanges of each code and token
    burned,  \* history: families burned by reuse detection
    revoked  \* history: families a committed reset found live

vars == <<codes, rows, req, reset, resets, spent, burned, revoked>>

CodeStates == {"new", "verified", "unused", "used", "deleted"}
RowStates == {"absent", "live", "revoked", "deleted"}
Positions ==
    {"idle", "gotCode", "holdsCode", "gotToken", "holdsRow",
     "gotRevoked", "burning", "granted", "invalid", "failed"}

Stored == {i \in Requests : rows[i].st \in {"live", "revoked"}}
Live == {i \in Requests : rows[i].st = "live"}
LiveIn(f) == {i \in Live : rows[i].fam = f}
Minted == {r \in Requests : req[r].pc = "granted"}
InProgress == {r \in Requests :
                 req[r].pc \notin {"idle", "granted", "invalid", "failed"}}

HeldCodes == {req[r].arg : r \in {q \in Requests : req[q].pc = "holdsCode"}}
HeldRows == {req[r].row : r \in {q \in Requests : req[q].pc = "holdsRow"}}

Init ==
    /\ codes = [k \in Codes |-> [st |-> "new", login |-> 0, expired |-> FALSE]]
    /\ rows = [i \in Requests |-> [st |-> "absent", fam |-> NoOne, tok |-> NoOne,
                                   login |-> 0, expired |-> FALSE]]
    /\ req = [r \in Requests |-> [pc |-> "idle", arg |-> NoOne, row |-> NoOne,
                                  target |-> {}]]
    /\ reset = [pc |-> "idle", target |-> {}]
    /\ resets = 0
    /\ spent = [x \in Codes \cup Requests |-> 0]
    /\ burned = {}
    /\ revoked = {}

GoTo(r, pc) == req' = [req EXCEPT ![r].pc = pc]

-----------------------------------------------------------------------------
(* authorize                                                               *)

\* The password (or the identity provider) vouched for the principal: this
\* login stands on the credential of its moment.
VerifyLogin(k) ==
    /\ codes[k].st = "new"
    /\ codes' = [codes EXCEPT ![k].st = "verified", ![k].login = resets]
    /\ UNCHANGED <<rows, req, reset, resets, spent, burned, revoked>>

\* _issue_authorization_code: prune the spent tickets, insert, commit.  The
\* DELETE waits for an exchange that holds a row it has to remove.
IssueCode(k) ==
    /\ codes[k].st = "verified"
    /\ \A h \in HeldCodes : ~codes[h].expired
    /\ codes' = [j \in Codes |->
                   IF j = k THEN [codes[k] EXCEPT !.st = "unused"]
                   ELSE IF \/ codes[j].st = "used"
                           \/ codes[j].st = "unused" /\ codes[j].expired
                   THEN [codes[j] EXCEPT !.st = "deleted"]
                   ELSE codes[j]]
    /\ UNCHANGED <<rows, req, reset, resets, spent, burned, revoked>>

-----------------------------------------------------------------------------
(* _grant_authorization_code                                               *)

\* SELECT the code and validate it.  proof: the redirect URI matches, the
\* PKCE verifier matches and the server can sign.
BeginExchange(r, k, proof) ==
    /\ req[r].pc = "idle"
    /\ codes[k].st \in {"unused", "used", "deleted"}
    /\ IF codes[k].st = "unused" /\ ~codes[k].expired /\ proof
       THEN req' = [req EXCEPT ![r].pc = "gotCode", ![r].arg = k]
       ELSE GoTo(r, "invalid")
    /\ UNCHANGED <<codes, rows, reset, resets, spent, burned, revoked>>

\* Mutant of BurnCode: UPDATE without the used = 0 condition.
BurnCodeUnguarded(r) ==
    /\ req[r].pc = "gotCode" /\ req[r].arg \notin HeldCodes
    /\ GoTo(r, "holdsCode")
    /\ UNCHANGED <<codes, rows, reset, resets, spent, burned, revoked>>

\* UPDATE oauth_state SET used = 1 WHERE code = ? AND used = 0.
BurnCode(r) ==
    /\ req[r].pc = "gotCode"
    /\ req[r].arg \notin HeldCodes
    /\ GoTo(r, IF codes[req[r].arg].st = "unused" THEN "holdsCode" ELSE "invalid")
    /\ UNCHANGED <<codes, rows, reset, resets, spent, burned, revoked>>

\* INSERT the refresh row of a new family and commit it with the burnt code.
CommitExchange(r) ==
    LET k == req[r].arg IN
    /\ req[r].pc = "holdsCode"
    /\ codes' = [codes EXCEPT ![k].st = "used"]
    /\ rows' = [rows EXCEPT ![r] = [st |-> "live", fam |-> r, tok |-> r,
                                    login |-> codes[k].login, expired |-> FALSE]]
    /\ GoTo(r, "granted")
    /\ spent' = [spent EXCEPT ![k] = @ + 1]
    /\ UNCHANGED <<reset, resets, burned, revoked>>

-----------------------------------------------------------------------------
(* _grant_refresh_token                                                    *)

\* SELECT by token hash and validate.  Any token ever returned may be
\* presented, by the client that got it, a client that lost the answer, or
\* somebody else; sameClient is the client check.
BeginRefresh(r, t, sameClient) ==
    LET found == {i \in Stored : rows[i].tok = t} IN
    /\ req[r].pc = "idle"
    /\ t \in Minted
    /\ \/ /\ found = {}
          /\ GoTo(r, "invalid")
       \/ \E i \in found :
            req' = [req EXCEPT ![r].arg = t, ![r].row = i, ![r].pc =
                      IF rows[i].st = "revoked" THEN "gotRevoked"
                      ELSE IF rows[i].expired \/ ~sameClient THEN "invalid"
                      ELSE "gotToken"]
    /\ UNCHANGED <<codes, rows, reset, resets, spent, burned, revoked>>

\* A revoked token is being replayed: the burn starts and chooses its rows.
ReadFamily(r) ==
    /\ req[r].pc = "gotRevoked"
    /\ req' = [req EXCEPT ![r].pc = "burning", ![r].target =
                 {i \in Stored : rows[i].fam = rows[req[r].row].fam}]
    /\ UNCHANGED <<codes, rows, reset, resets, spent, burned, revoked>>

\* Rows of a bulk UPDATE after every transaction holding one has ended.
Revoke(target) ==
    [i \in Requests |-> IF i \in target /\ rows[i].st = "live"
                        THEN [rows[i] EXCEPT !.st = "revoked"] ELSE rows[i]]

BurnFamily(r) ==
    /\ req[r].pc = "burning"
    /\ req[r].target \cap HeldRows = {}
    /\ rows' = Revoke(req[r].target)
    /\ burned' = burned \cup {rows[req[r].row].fam}
    /\ GoTo(r, "invalid")
    /\ UNCHANGED <<codes, reset, resets, spent, revoked>>

\* UPDATE ... WHERE token_hash = ? AND revoked = 0, the same test in both
\* modes: the row must still carry the presented token and still be live.
ClaimRow(r) ==
    LET i == req[r].row IN
    /\ req[r].pc = "gotToken"
    /\ i \notin HeldRows
    /\ GoTo(r, IF rows[i].st = "live" /\ rows[i].tok = req[r].arg
               THEN "holdsRow" ELSE "invalid")
    /\ UNCHANGED <<codes, rows, reset, resets, spent, burned, revoked>>

\* Mutant of Successor: 'rotate' inserts without revoking the predecessor.
SuccessorBesideOld(r, mode) ==
    LET i == req[r].row IN
    [rows EXCEPT ![r] = [rows[i] EXCEPT !.tok = r, !.expired = FALSE]]

\* Mutant of Successor: the overwritten row forgets which token it now holds.
SuccessorKeepsHash(r, mode) == [rows EXCEPT ![req[r].row].expired = FALSE]

\* 'rotate': revoke the presented row, prune revoked rows past their expiry,
\* insert the successor in the same family.  'overwrite': the presented row
\* becomes the successor.
Successor(r, mode) ==
    LET i == req[r].row IN
    IF mode = "rotate"
    THEN [j \in Requests |->
            IF j = r THEN [rows[i] EXCEPT !.tok = r, !.expired = FALSE]
            ELSE IF rows[j].st = "revoked" /\ rows[j].expired
            THEN [rows[j] EXCEPT !.st = "deleted"]
            ELSE IF j = i
            THEN [rows[i] EXCEPT !.st = IF @ = "live" /\ rows[i].expired
                                        THEN "deleted" ELSE "revoked"]
            ELSE rows[j]]
    ELSE [rows EXCEPT ![i].tok = r, ![i].expired = FALSE]

CommitRenewal(r) ==
    /\ req[r].pc = "holdsRow"
    /\ \E mode \in Modes : rows' = Successor(r, mode)
    /\ GoTo(r, "granted")
    /\ spent' = [spent EXCEPT ![req[r].arg] = @ + 1]
    /\ UNCHANGED <<codes, reset, resets, burned, revoked>>

\* The store fails or the process dies before the commit: the transaction
\* rolls back and the request is never answered with a token.
Fail(r) ==
    /\ r \in InProgress
    /\ GoTo(r, "failed")
    /\ UNCHANGED <<codes, rows, reset, resets, spent, burned, revoked>>

-----------------------------------------------------------------------------
(* A password reset: _write_password sets the password and runs            *)
(* revoke_refresh_tokens_for in the same transaction.                      *)

ReadLiveRows ==
    /\ reset.pc = "idle"
    /\ resets < MaxResets
    /\ reset' = [pc |-> "revoking", target |-> Live]
    /\ UNCHANGED <<codes, rows, req, resets, spent, burned, revoked>>

\* Mutant of CommitReset: the revocation is left out of the transaction.
CommitResetAlone ==
    /\ reset.pc = "revoking"
    /\ revoked' = revoked \cup {rows[i].fam : i \in reset.target}
    /\ resets' = resets + 1
    /\ reset' = [pc |-> "idle", target |-> {}]
    /\ UNCHANGED <<codes, rows, req, spent, burned>>

CommitReset ==
    /\ reset.pc = "revoking"
    /\ reset.target \cap HeldRows = {}
    /\ rows' = Revoke(reset.target)
    /\ revoked' = revoked \cup {rows[i].fam : i \in reset.target}
    /\ resets' = resets + 1
    /\ reset' = [pc |-> "idle", target |-> {}]
    /\ UNCHANGED <<codes, req, spent, burned>>

-----------------------------------------------------------------------------
(* Time.                                                                   *)

ExpireCode(k) ==
    /\ codes[k].st = "unused" /\ ~codes[k].expired
    /\ codes' = [codes EXCEPT ![k].expired = TRUE]
    /\ UNCHANGED <<rows, req, reset, resets, spent, burned, revoked>>

ExpireRow(i) ==
    /\ i \in Stored /\ ~rows[i].expired
    /\ rows' = [rows EXCEPT ![i].expired = TRUE]
    /\ UNCHANGED <<codes, req, reset, resets, spent, burned, revoked>>

-----------------------------------------------------------------------------
Begin(r) ==
    \/ \E k \in Codes, proof \in BOOLEAN : BeginExchange(r, k, proof)
    \/ \E t \in Requests, sameClient \in BOOLEAN : BeginRefresh(r, t, sameClient)

Proceed(r) ==
    \/ BurnCode(r) \/ CommitExchange(r)
    \/ ReadFamily(r) \/ BurnFamily(r) \/ ClaimRow(r) \/ CommitRenewal(r)

\* Every request has been made and answered.
AllAnswered ==
    /\ \A r \in Requests : req[r].pc \in {"granted", "invalid", "failed"}
    /\ UNCHANGED vars

Next ==
    \/ \E k \in Codes : VerifyLogin(k) \/ IssueCode(k) \/ ExpireCode(k)
    \/ \E r \in Requests : Begin(r) \/ Proceed(r) \/ Fail(r) \/ ExpireRow(r)
    \/ ReadLiveRows \/ CommitReset
    \/ AllAnswered

Spec == Init /\ [][Next]_vars

-----------------------------------------------------------------------------
\* The types of the variables.
TypeOK ==
    /\ codes \in [Codes -> [st : CodeStates, login : Nat, expired : BOOLEAN]]
    /\ rows \in [Requests -> [st : RowStates, fam : Requests \cup {NoOne},
                              tok : Requests \cup {NoOne}, login : Nat,
                              expired : BOOLEAN]]
    /\ req \in [Requests -> [pc : Positions, arg : Codes \cup Requests \cup {NoOne},
                             row : Requests \cup {NoOne}, target : SUBSET Requests]]
    /\ reset \in [pc : {"idle", "revoking"}, target : SUBSET Requests]
    /\ resets \in Nat
    /\ spent \in [Codes \cup Requests -> Nat]
    /\ burned \subseteq Requests /\ revoked \subseteq Requests

\* Single use, of codes and of refresh tokens: of any number of concurrent
\* presentations at most one is answered with a token.  And a code is used up
\* only by an exchange that was granted, since the burn and the token it pays
\* for are one transaction: a request that dies half-way leaves it good.
SpentOnce ==
    /\ \A x \in Codes \cup Requests : spent[x] <= 1
    /\ \A k \in Codes : codes[k].st = "used" => spent[k] = 1

\* A family that was opened and neither burned nor revoked by a reset has
\* exactly one live row, and no family ever has two: no crash between the
\* revocation and the insert, and no lost race, ends or doubles a session.
Opened == {rows[i].fam : i \in Requests} \ {NoOne}
OneLiveRow ==
    \A f \in Opened :
        /\ Cardinality(LiveIn(f)) <= 1
        /\ f \notin burned \cup revoked => Cardinality(LiveIn(f)) = 1

\* A reset ends every session it found that has kept to one row, as sessions
\* do in 'overwrite' mode: whatever renewal was in flight, the row it wrote is
\* the row revoke_refresh_tokens_for revokes.
RowsOf(f) == {i \in Requests : rows[i].fam = f}
ResetEndsOneRowSession ==
    \A f \in revoked : Cardinality(RowsOf(f)) = 1 => LiveIn(f) = {}

\* The token each lineage can be renewed with, and the abstract lineages the
\* table implements.
Usable ==
    [f \in Requests |->
       IF LiveIn(f) # {} THEN rows[CHOOSE i \in LiveIn(f) : TRUE].tok
       ELSE IF f \in Opened THEN 0 ELSE NoOne]
Lineage == INSTANCE RefreshLineage WITH
    Families <- Requests, Tokens <- Requests, Unopened <- NoOne, Closed <- 0,
    past <- Minted, current <- Usable
LineageSpec == Lineage!Spec
=============================================================================
